------------------------------- MODULE GridSet -------------------------------
(***************************************************************************)
(* Grid edge sets: the constructor and accessors of graph.h, the index     *)
(* arithmetic the compiler emits for them (grid_ops.h, inline.cpp), the    *)
(* loop nest of a map through a grid, and the path index of a stencil.     *)
(*                                                                         *)
(* Points and edges are numbered by their position in gridPoints and       *)
(* gridEdges; the point set is empty before (the constructor's assertion)  *)
(* and the grid is new, so these positions are the elements' idents.       *)
(***************************************************************************)
EXTENDS Integers, Sequences, SequencesExt, FiniteSetsExt

CONSTANTS
  DimsChoices,  \* the dimension vectors a client may ask for
  Stencils      \* number of dimensions -> the offsets of a stencil's layout

ASSUME DimsAssumption == DimsChoices \subseteq Seq(Nat \ {0}) /\ <<>> \notin DimsChoices
ASSUME StencilsAssumption ==
  \A d \in {Len(x) : x \in DimsChoices} :
    /\ Stencils[d] \in Seq(Seq(Int)) /\ IsInjective(Stencils[d])
    /\ \A k \in 1..Len(Stencils[d]) : Len(Stencils[d][k]) = d

VARIABLES
  dims,       \* Set::dimensions
  numPoints,  \* elements of the underlying point set
  gridEdges,  \* endpoints of the grid's edges, in order
  ivs,        \* gridIndexVars of the map's loop nest
  loopVar,    \* the map's loop variable
  rows        \* the points the kernel read for each row, one per stencil slot

gridVars == <<dims, numPoints, gridEdges, ivs, loopVar, rows>>

Throws == -1
D == Len(dims)
Axes == 1..D
Coords == {c \in [Axes -> 0..Max(Range(dims))] : \A a \in Axes : c[a] < dims[a]}

\* The % of C++ and of the generated code truncates towards zero.
Rem(a, b) == IF a >= 0 THEN a % b ELSE -((-a) % b)

-----------------------------------------------------------------------------
(* Accessors of graph.h.                                                   *)

\* The loop over n dimensions from the last one: index *= size; index += coord.
Accumulate(start, n, size, coord) ==
  LET index[i \in 0..n] ==
        IF i = 0 THEN start ELSE index[i - 1] * size[n + 1 - i] + coord[n + 1 - i]
  IN index[n]

\* totalSize, and the position of c, the first coordinate running fastest.
Total == Accumulate(1, D, dims, [a \in Axes |-> 0])
Linear(c) == Accumulate(0, D, dims, c)

GetGridPoint(c) == IF Linear(c) \in 0..(Total - 1) THEN Linear(c) ELSE Throws

GetGridEdge(c, dir) ==
  LET index == Linear(c) * D + (dir - 1)
  IN IF index \in 0..(Total * D - 1) THEN index ELSE Throws

\* getGridPointCoords: peel the dimensions off, the fastest first.
GetGridPointCoords(p) ==
  LET index[a \in Axes] == IF a = 1 THEN p ELSE index[a - 1] \div dims[a - 1]
  IN [a \in Axes |-> index[a] % dims[a]]

-----------------------------------------------------------------------------
(* What the compiler emits.                                                *)

\* getGridPointOffsetIndices, and getGridEdgeOffsetIndices past the direction.
OffsetIndices(base, offset) ==
  [a \in Axes |-> Rem(Rem(base[a] + offset[a], dims[a]) + dims[a], dims[a])]

\* getGridPointCoord: starts from the last index instead of zero.
PointCoord(ind) == Accumulate(ind[D], D - 1, dims, ind)

\* getGridEdgeCoord of (dir, ind): the direction is the innermost index.
EdgeCoord(dir, ind) ==
  Accumulate(ind[D], D, [a \in Axes |-> IF a = 1 THEN D ELSE dims[a - 1]],
                        [a \in Axes |-> IF a = 1 THEN dir - 1 ELSE ind[a - 1]])

\* visit(SetRead), a point: points[offset] seen from the current indices.
PointRead(offset) == PointCoord(OffsetIndices(ivs, offset))

\* Slip: the edge is looked up at its source, whichever way it points.
EdgeReadAtSource(src, sink) ==
  LET dir == CHOOSE a \in Axes : src[a] # sink[a]
  IN EdgeCoord(dir, OffsetIndices(ivs, src))

\* visit(SetRead), an edge: edges[src; sink], which differ by one in one axis;
\* the edge belongs to the lower of its two points.
EdgeRead(src, sink) ==
  LET dir == CHOOSE a \in Axes : src[a] # sink[a]
  IN EdgeCoord(dir, OffsetIndices(ivs, IF src[dir] < sink[dir] THEN src ELSE sink))

\* Slip: no dimension is added before the modulus.
StencilNeighborSigned(v, offset) ==
  GetGridPoint([a \in Axes |-> Rem(GetGridPointCoords(v)[a] + offset[a], dims[a])])

\* Link::vv: the neighbour of point v in a slot of the stencil, one modulus.
StencilNeighbor(v, offset) ==
  GetGridPoint([a \in Axes |->
    Rem(GetGridPointCoords(v)[a] + offset[a] + dims[a], dims[a])])

\* The offsets of the layout the kernel was compiled for, slot by slot.
Stencil == Stencils[D]

-----------------------------------------------------------------------------

GridInit ==
  /\ dims \in DimsChoices
  /\ numPoints = 0 /\ gridEdges = <<>>
  /\ ivs = [a \in Axes |-> 0] /\ loopVar = 0 /\ rows = <<>>

\* The constructor's first loop.
AddPoint ==
  /\ numPoints < Total
  /\ numPoints' = numPoints + 1
  /\ UNCHANGED <<dims, gridEdges, ivs, loopVar, rows>>

\* The constructor's second loop; the direction is variableLoop's last index.
AddGridEdge ==
  LET count == Len(gridEdges)
      cumDims == [a \in Axes |-> FoldSeq(LAMBDA d, acc : d * acc, 1, SubSeq(dims, 1, a))]
      off == cumDims[(count % D) + 1]
  IN /\ numPoints = Total /\ count < Total * D
     /\ gridEdges' = Append(gridEdges, <<count % Total, (count + off) % Total>>)
     /\ UNCHANGED <<dims, numPoints, ivs, loopVar, rows>>

\* Slip: the last grid index runs fastest.
TurnedOutermost(c) ==
  LET a == Max({0} \cup {x \in Axes : c[x] + 1 < dims[x]})
  IN [x \in Axes |-> IF x > a THEN 0 ELSE IF x = a THEN c[x] + 1 ELSE c[x]]

\* The loop nest of inlineMap: the loop over the first dimension is wrapped
\* first, so it is the innermost.
Turned(c) ==
  LET a == Min({D + 1} \cup {x \in Axes : c[x] + 1 < dims[x]})
  IN [x \in Axes |-> IF x < a THEN 0 ELSE IF x = a THEN c[x] + 1 ELSE c[x]]

\* One iteration: the kernel's reads, then loopVar += 1.
Visit ==
  /\ Len(gridEdges) = Total * D /\ loopVar < Total
  /\ rows' = Append(rows, [k \in 1..Len(Stencil) |-> PointRead(Stencil[k])])
  /\ loopVar' = loopVar + 1
  /\ ivs' = Turned(ivs)
  /\ UNCHANGED <<dims, numPoints, gridEdges>>

GridNext == AddPoint \/ AddGridEdge \/ Visit

GridSpec == GridInit /\ [][GridNext]_gridVars

-----------------------------------------------------------------------------
(* Reference definitions: a torus, its points ranked by their coordinates  *)
(* with the last one most significant.                                     *)

Before(b, c) == \E a \in Axes : b[a] < c[a] /\ \A x \in (a + 1)..D : b[x] = c[x]
Rank(c) == Cardinality({b \in Coords : Before(b, c)})
Wrapped(c, o) == [a \in Axes |-> (c[a] + o[a]) % dims[a]]
Unit(a) == [x \in Axes |-> IF x = a THEN 1 ELSE 0]
Plus(c, o) == [a \in Axes |-> c[a] + o[a]]

GridBuilt == Len(gridEdges) = Total * D

\* The loop variable and the grid indices are stepped separately; the loop
\* variable is nevertheless always the point at the indices, as getGridPoint
\* and the reference number it, until the nest is left.
LoopVarIsPoint ==
  loopVar < Total =>
    /\ loopVar = Rank(ivs)
    /\ GetGridPoint(ivs) = loopVar /\ GetGridPointCoords(loopVar) = ivs

\* The column the kernel means in a stencil slot is the one the path index of
\* the matrix has in that slot, and the neighbour on the torus.
SlotsMatchIndex ==
  \A r \in 1..Len(rows) : \A k \in 1..Len(Stencil) :
    /\ rows[r][k] = StencilNeighbor(r - 1, Stencil[k])
    /\ rows[r][k] = Rank(Wrapped(GetGridPointCoords(r - 1), Stencil[k]))

\* The kernel's reads of edges[o; o+1] and edges[o+1; o] are the element that
\* getGridEdge gives the client for that place and direction.
EdgeReadsMatch ==
  GridBuilt /\ loopVar < Total =>
    \A k \in 1..Len(Stencil), a \in Axes :
      LET o == Stencil[k]
          e == GetGridEdge(Wrapped(ivs, o), a)
      IN EdgeRead(o, Plus(o, Unit(a))) = e /\ EdgeRead(Plus(o, Unit(a)), o) = e
=============================================================================
