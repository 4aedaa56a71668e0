------------------------------ MODULE BoxGraph ------------------------------
(***************************************************************************)
(* createBox (graph.cpp) and the accessors of Box (graph.h): a lattice of  *)
(* vertices linked along three axes, added to sets that may hold elements  *)
(* already.                                                                *)
(***************************************************************************)
EXTENDS Integers, Sequences, FiniteSets, Functions

CONSTANTS
  Shapes,     \* the <<numX, numY, numZ>> asked for
  MaxBefore   \* bound on the elements each set holds beforehand

ASSUME ShapesAssumption == Shapes \subseteq (Nat \ {0}) \X (Nat \ {0}) \X (Nat \ {0})
ASSUME MaxBeforeAssumption == MaxBefore \in Nat

VARIABLES
  shape,         \* <<numX, numY, numZ>>
  before,        \* how many vertices and edges the sets held
  refs,          \* Box::refs: position -> ident
  edges,         \* the new edges' endpoints, in order of their idents
  coords2edges,  \* Box::coords2edges: a set of <<p1, p2, edge ident>>
  axis,          \* the loop nest: 0 the vertices, 1..3 the edges, 4 returned
  at             \* its indices, from outermost to innermost

vars == <<shape, before, refs, edges, coords2edges, axis, at>>

nX == shape[1]
nY == shape[2]
nZ == shape[3]
Cells == (0..(nX - 1)) \X (0..(nY - 1)) \X (0..(nZ - 1))
Step(c, a) == [c EXCEPT ![a] = @ + 1]

\* node0; node1X, node1Y and node1Z are it one step along.
Node(c) == c[1] * nY * nZ + c[2] * nZ + c[3]

\* Slip: a layer is taken to be one row.
AtFlat(c) == refs[c[3] * nX + c[2] * nX + c[1] + 1]

\* Box::operator(): a vertex by its coordinates; past the end is undefined.
At(c) == refs[c[3] * nY * nX + c[2] * nX + c[1] + 1]

\* Box::getEdge, as the set of idents it may return: none if undefined.
GetEdge(p1, p2) == {e[3] : e \in {x \in coords2edges : x[1] = p1 /\ x[2] = p2}}

-----------------------------------------------------------------------------

\* Slip: one less along every axis.
LimitsShort(a) == [x \in 1..3 |-> shape[x] - 1]

\* The bounds of the loop nest of axis a: one less along the axis.
Limits(a) == [x \in 1..3 |-> IF x = a THEN shape[x] - 1 ELSE shape[x]]

\* The next indices of a loop nest, z innermost; <<>> when it is left.
After(c, lim) ==
  IF c[3] + 1 < lim[3] THEN <<c[1], c[2], c[3] + 1>>
  ELSE IF c[2] + 1 < lim[2] THEN <<c[1], c[2] + 1, 0>>
  ELSE IF c[1] + 1 < lim[1] THEN <<c[1] + 1, 0, 0>>
  ELSE <<>>

Origin == <<0, 0, 0>>

\* Enter the next nest that has an iteration, or return.
FirstNest(a) ==
  IF \E b \in a..3 : shape[b] > 1
  THEN CHOOSE b \in a..3 : shape[b] > 1 /\ \A x \in a..(b - 1) : shape[x] = 1
  ELSE 4

Move(lim) ==
  IF After(at, lim) # <<>> THEN at' = After(at, lim) /\ axis' = axis
  ELSE at' = Origin /\ axis' = FirstNest(axis + 1)

Init ==
  /\ shape \in Shapes
  /\ before \in [{"v", "e"} -> 0..MaxBefore]
  /\ refs = [i \in 1..(shape[1] * shape[2] * shape[3]) |-> -1]
  /\ edges = <<>> /\ coords2edges = {}
  /\ axis = 0 /\ at = Origin

AddVertex ==
  /\ axis = 0
  /\ refs' = [refs EXCEPT ![Node(at) + 1] =
       before["v"] + Cardinality({i \in DOMAIN refs : refs[i] # -1})]
  /\ Move(shape)
  /\ UNCHANGED <<shape, before, edges, coords2edges>>

\* Edges along one axis; coords2edges has one entry per pair of points.
AddEdge ==
  LET p1 == refs[Node(at) + 1]
      p2 == refs[Node(Step(at, axis)) + 1]
  IN /\ axis \in 1..3
     /\ edges' = Append(edges, <<p1, p2>>)
     /\ coords2edges' = {x \in coords2edges : x[1] # p1 \/ x[2] # p2}
                          \cup {<<p1, p2, before["e"] + Len(edges)>>}
     /\ Move(Limits(axis))
     /\ UNCHANGED <<shape, before, refs>>

Next == AddVertex \/ AddEdge

Spec == Init /\ [][Next]_vars

-----------------------------------------------------------------------------

\* Neighbouring places of the lattice, from lower to higher.
Lattice == {p \in Cells \X Cells : \E a \in 1..3 : p[2] = Step(p[1], a)}

\* A finished box has one edge for each pair of neighbouring places, each the
\* ident of the edge that links them, and no vertex is used for two places.
BoxIsLattice ==
  axis = 4 =>
    /\ \A c, d \in Cells : refs[Node(c) + 1] = refs[Node(d) + 1] => c = d
    /\ Len(edges) = Cardinality(Lattice)
    /\ \A p \in Lattice :
         \E e \in GetEdge(refs[Node(p[1]) + 1], refs[Node(p[2]) + 1]) :
           edges[e - before["e"] + 1] = <<refs[Node(p[1]) + 1], refs[Node(p[2]) + 1]>>

\* What the test GraphGenerator.createBox asserts of a 3x3x3 box: neighbours by
\* operator() are linked by an edge.  It holds of the boxes that are as deep as
\* they are wide: operator() and createBox number the vertices differently.
NeighborsLinked ==
  axis = 4 /\ nX = nZ => \A p \in Lattice : GetEdge(At(p[1]), At(p[2])) # {}
=============================================================================
