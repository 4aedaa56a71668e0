------------------------------ MODULE PathIndex ------------------------------
(***************************************************************************)
(* PathIndexBuilder (src/src/path_indices.cpp): from path expressions over *)
(* bound sets to segmented (CSR) indices, with memoisation.                *)
(*                                                                         *)
(* Path expressions are numbered, an operand before its user.  A link goes *)
(* from edges to their vertices (ev) or from vertices to their edges (ve). *)
(* In `and` and `or`, l is the operand that holds the first free variable  *)
(* and lEp the endpoint it is at; r holds the second.  rEp is where r is   *)
(* entered: at the first free variable, or at the quantified one.  l is    *)
(* the left operand unless swapped.  sources and sinks name the sets of    *)
(* the two free variables.                                                 *)
(*                                                                         *)
(* A call of buildSegmented calls itself for its operands.  Each call is a *)
(* frame of `calls`, so what one call memoises is there for the next.      *)
(***************************************************************************)
EXTENDS Naturals, Sequences, SequencesExt, FiniteSetsExt

CONSTANTS
  Exprs,         \* [1..n -> path expressions]
  VertexSets,    \* the client's plain sets
  Size,          \* [VertexSets -> Nat]
  EdgeSets,      \* the client's edge sets
  EndpointSets,  \* [EdgeSets -> Seq(VertexSets)]
  MaxEdges,      \* bound on the edges of a set, [EdgeSets -> Nat]
  Names,         \* the names sets are bound to
  Asks,          \* what callers ask for: expressions and source endpoints
  None

Ids == DOMAIN Exprs
Links == {i \in Ids : Exprs[i].op \in {"ev", "ve"}}
Compounds == Ids \ Links

\* getPathEndpoint: the name of the set of an expression's first or second path
\* variable.
End(i, ep) ==
  CASE Exprs[i].op = "ev" -> IF ep = 0 THEN Exprs[i].edges ELSE Exprs[i].verts
    [] Exprs[i].op = "ve" -> IF ep = 0 THEN Exprs[i].verts ELSE Exprs[i].edges
    [] OTHER -> IF ep = 0 THEN Exprs[i].sources ELSE Exprs[i].sinks

\* A path variable has one set in all of an expression, and sets of edges are
\* not sets of vertices.
ASSUME ExprsAssumption ==
  /\ Len(Exprs) \in Nat /\ Ids = 1..Len(Exprs)
  /\ \A i \in Links : {Exprs[i].edges, Exprs[i].verts} \subseteq Names
  /\ \A i, j \in Links : Exprs[i].edges # Exprs[j].verts
  /\ \A i \in Compounds :
       LET x == Exprs[i] IN
       /\ x.op \in {"and", "or"} /\ {x.quantified, x.swapped} \subseteq BOOLEAN
       /\ x.swapped => x.quantified
       /\ {x.l, x.r} \subseteq 1..(i - 1) /\ {x.lEp, x.rEp} \subseteq {0, 1}
       /\ x.sources = End(x.l, x.lEp) /\ x.sinks = End(x.r, 1 - x.rEp)
       /\ IF x.quantified THEN End(x.l, 1 - x.lEp) = End(x.r, x.rEp)
          ELSE End(x.r, x.rEp) = x.sources /\ End(x.l, 1 - x.lEp) = x.sinks
ASSUME GraphAssumption ==
  /\ Size \in [VertexSets -> Nat] /\ MaxEdges \in [EdgeSets -> Nat]
  /\ EndpointSets \in [EdgeSets -> Seq(VertexSets)]
  /\ IsFiniteSet(EdgeSets) /\ VertexSets \cap EdgeSets = {}
ASSUME AsksAssumption == Asks \subseteq Ids \X {0, 1} /\ None \notin VertexSets \cup EdgeSets

VARIABLES
  graph,       \* [EdgeSets -> Seq(endpoint tuples)]: the edges, fixed
  bindings,    \* PathIndexBuilder::bindings
  pathIndices, \* PathIndexBuilder::pathIndices: the memo
  calls        \* the running calls of buildSegmented, the innermost first

builderVars == <<graph, bindings, pathIndices, calls>>

\* What buildSegmented is asked: an expression and a source endpoint.
Lookups == Ids \X {0, 1}

Left(i) == <<Exprs[i].l, Exprs[i].lEp>>
Right(i) == <<Exprs[i].r, Exprs[i].rEp>>

-----------------------------------------------------------------------------
(* The order on path expressions that the memo is kept in.  It looks at    *)
(* the sets of links and at the form, not at how operands share variables. *)

\* operator==: it compares quantifiers pairwise as far as both have some, so
\* that a connective equals the same one without a quantifier.
Shape[i \in Ids] ==
  LET x == Exprs[i] IN
  IF i \in Links THEN <<End(i, 0), End(i, 1)>>
  ELSE IF x.swapped THEN <<x.op, Shape[x.r], Shape[x.l]>> ELSE <<x.op, Shape[x.l], Shape[x.r]>>

\* operator<: neither of two expressions is less when these are equal.  Operands
\* are compared by operator==.
KeyOf(i) ==
  LET x == Exprs[i] IN
  IF i \in Links THEN <<"link", End(i, 0), End(i, 1)>>
  ELSE IF x.swapped THEN <<x.op, x.quantified, Shape[x.r], Shape[x.l]>>
  ELSE <<x.op, x.quantified, Shape[x.l], Shape[x.r]>>

\* The entry of the memo that answers a lookup.
Slot[k \in Lookups] == <<KeyOf(k[1]), k[2]>>
Slots == {Slot[k] : k \in Lookups}

-----------------------------------------------------------------------------
(* Segmented indices: coords[i] is where the neighbours of element i begin *)
(* in sinks, counted from 0.                                               *)

Neighbors(ix, i) == SubSeq(ix.sinks, ix.coords[i] + 1, ix.coords[i + 1])
NeighborSet(ix, i) == {Neighbors(ix, i)[k] : k \in 1..Len(Neighbors(ix, i))}

Occurrences(seq, x) == Cardinality({k \in 1..Len(seq) : seq[k] = x})

\* sort: element k of the result is the one with k - 1 elements before it.
Sorted(seq) ==
  LET rank(i) == Cardinality({j \in 1..Len(seq) :
                    seq[j] < seq[i] \/ (seq[j] = seq[i] /\ j <= i)})
  IN [k \in 1..Len(seq) |-> seq[CHOOSE i \in 1..Len(seq) : rank(i) = k]]

\* The first lists one after the other, for each number of lists up to n.
Joined(n, lists) ==
  LET joined[i \in 0..n] == IF i = 0 THEN <<>> ELSE joined[i - 1] \o lists[i - 1]
  IN joined

\* pack: every list sorted, one after the other.
Pack(n, nbrs) ==
  LET joined == Joined(n, [i \in 0..(n - 1) |-> Sorted(nbrs[i])])
  IN [n |-> n, coords |-> [i \in 0..n |-> Len(joined[i])], sinks |-> joined[n]]

\* pack of neighbour sets, turned into vectors.
PackSets(n, nbrs) == Pack(n, [i \in 0..(n - 1) |-> SetToSeq(nbrs[i])])

-----------------------------------------------------------------------------

\* The endpoints of edge e of set E that are elements of vertex set V.
EndpointsIn(E, V, e) ==
  LET card == Len(EndpointSets[E])
      one(p) == IF EndpointSets[E][p] = V THEN <<graph[E][e + 1][p]>> ELSE <<>>
  IN Joined(card, [i \in 0..(card - 1) |-> one(i + 1)])[card]

\* Link::ev: as many neighbours per edge as it has endpoints in V.
EvIndex(E, V) ==
  LET nnzPerRow == Cardinality({p \in 1..Len(EndpointSets[E]) : EndpointSets[E][p] = V})
      n == Len(graph[E])
  IN [n |-> n, coords |-> [i \in 0..n |-> i * nnzPerRow],
      sinks |-> Joined(n, [e \in 0..(n - 1) |-> EndpointsIn(E, V, e)])[n]]

\* Slip: an edge is pushed once for every vertex it touches.
VeIndexOnce(E, V) ==
  PackSets(Size[V], [v \in 0..(Size[V] - 1) |->
    {e \in 0..(Len(graph[E]) - 1) : Contains(EndpointsIn(E, V, e), v)}])

\* Link::ve: an edge is pushed once for every endpoint it has at the vertex.
VeIndex(E, V) ==
  LET n == Len(graph[E])
      pushed(v) == [e \in 0..(n - 1) |-> [k \in 1..Occurrences(EndpointsIn(E, V, e), v) |-> e]]
  IN Pack(Size[V], [v \in 0..(Size[V] - 1) |-> Joined(n, pushed(v))[n]])

\* And, Or: neighbour sets from the indices of the operands.
AndIndex(L, R) ==
  PackSets(R.n, [i \in 0..(R.n - 1) |-> NeighborSet(L, i) \cap NeighborSet(R, i)])

\* Slip: only the first quantified element is followed.
ExistsAndIndexFirst(L, R) ==
  PackSets(L.n, [i \in 0..(L.n - 1) |->
    UNION {NeighborSet(R, q) : q \in {x \in NeighborSet(L, i) :
             \A y \in NeighborSet(L, i) : x <= y}}])

ExistsAndIndex(L, R) ==
  PackSets(L.n, [i \in 0..(L.n - 1) |->
    UNION {NeighborSet(R, q) : q \in NeighborSet(L, i)}])

OrIndex(L, R) ==
  PackSets(L.n, [i \in 0..(L.n - 1) |->
    NeighborSet(L, i) \cup (IF i < R.n THEN NeighborSet(R, i) ELSE {})])

\* Any neighbour at all links an element to every sink, and every sink that
\* some quantified element reaches is linked to every element.
ExistsOrIndex(L, R, sinkCount) ==
  LET reached == UNION {NeighborSet(R, q) : q \in 0..(R.n - 1)}
  IN PackSets(L.n, [i \in 0..(L.n - 1) |->
       reached \cup (IF Neighbors(L, i) # <<>> THEN 0..(sinkCount - 1) ELSE {})])

\* getSize of whatever set a name is bound to.
SizeOf(s) == IF s \in VertexSets THEN Size[s] ELSE Len(graph[s])

-----------------------------------------------------------------------------

\* The visitor at a link.
LinkIndex(i) ==
  LET E == bindings[Exprs[i].edges]
      V == bindings[Exprs[i].verts]
  IN IF Exprs[i].op = "ev" THEN EvIndex(E, V) ELSE VeIndex(E, V)

\* The visitor at `and` and `or`, when it has the operands' indices.
CompoundIndex(i, L, R) ==
  LET x == Exprs[i] IN
  IF x.op = "and" THEN IF x.quantified THEN ExistsAndIndex(L, R) ELSE AndIndex(L, R)
  ELSE IF x.quantified THEN ExistsOrIndex(L, R, SizeOf(bindings[x.sinks]))
  ELSE OrIndex(L, R)

Tuples(E) ==
  {t \in [1..Len(EndpointSets[E]) -> 0..Max({0} \cup {Size[v] : v \in VertexSets})] :
     \A p \in DOMAIN t : t[p] < Size[EndpointSets[E][p]]}

BuilderInit ==
  /\ graph \in [EdgeSets -> UNION {[1..n -> UNION {Tuples(E) : E \in EdgeSets}] :
                                     n \in 0..Max({MaxEdges[E] : E \in EdgeSets})}]
  /\ \A E \in EdgeSets : /\ Len(graph[E]) <= MaxEdges[E]
                         /\ \A e \in 1..Len(graph[E]) : graph[E][e] \in Tuples(E)
  /\ bindings = [n \in Names |-> None]
  /\ pathIndices = [s \in Slots |-> None]
  /\ calls = <<>>

\* PathIndexBuilder::bind: map::insert keeps the first binding.
Bind(n, s) ==
  /\ calls = <<>>
  /\ bindings' = [bindings EXCEPT ![n] = IF @ = None THEN s ELSE @]
  /\ UNCHANGED <<graph, pathIndices, calls>>

\* A caller calls PathIndexBuilder::buildSegmented.
BuildSegmented(k) ==
  /\ calls = <<>>
  /\ calls' = <<k>>
  /\ UNCHANGED <<graph, bindings, pathIndices>>

\* The innermost call, and whether the memo lacks what it is asked.
Top == calls[1]
Missing(k) == pathIndices[Slot[k]] = None

\* The memo has the expression and endpoint: its index is returned.
ReturnMemoised ==
  /\ calls # <<>> /\ ~Missing(Top)
  /\ calls' = Tail(calls)
  /\ UNCHANGED <<graph, bindings, pathIndices>>

\* The visitor calls buildSegmented for an operand: for l, and then for r.  A
\* call for an operand that the memo has returns at once.
VisitOperand ==
  /\ calls # <<>> /\ Missing(Top) /\ Top[1] \in Compounds
  /\ \/ /\ Missing(Left(Top[1]))
        /\ calls' = <<Left(Top[1])>> \o calls
     \/ /\ ~Missing(Left(Top[1])) /\ Missing(Right(Top[1]))
        /\ calls' = <<Right(Top[1])>> \o calls
  /\ UNCHANGED <<graph, bindings, pathIndices>>

\* The operands are built; what is left looks up these sets.
NamesOf(i) ==
  IF i \in Links THEN {Exprs[i].edges, Exprs[i].verts}
  ELSE IF Exprs[i].op = "or" /\ Exprs[i].quantified THEN {Exprs[i].sinks} ELSE {}

OperandsBuilt ==
  /\ calls # <<>> /\ Missing(Top)
  /\ Top[1] \in Compounds => ~Missing(Left(Top[1])) /\ ~Missing(Right(Top[1]))

\* The visitor is not told at which endpoint to start.
Visited(i) ==
  IF i \in Links THEN LinkIndex(i)
  ELSE CompoundIndex(i, pathIndices[Slot[Left(i)]], pathIndices[Slot[Right(i)]])

\* The new index is memoised and returned.
ReturnBuilt ==
  /\ OperandsBuilt
  /\ \A n \in NamesOf(Top[1]) : bindings[n] # None
  /\ pathIndices' = [pathIndices EXCEPT ![Slot[Top]] = Visited(Top[1])]
  /\ calls' = Tail(calls)
  /\ UNCHANGED <<graph, bindings>>

\* bindings.at throws for an unbound name, through all the calls; operands that
\* were finished stay memoised.
Throw ==
  /\ OperandsBuilt
  /\ \E n \in NamesOf(Top[1]) : bindings[n] = None
  /\ calls' = <<>>
  /\ UNCHANGED <<graph, bindings, pathIndices>>

\* Edge names are bound to edge sets, vertex names to plain sets: the type
\* checks of Function::bind.
EdgeNames == {Exprs[i].edges : i \in Links}

BuilderNext ==
  \/ \E n \in Names :
       \E s \in IF n \in EdgeNames THEN EdgeSets ELSE VertexSets : Bind(n, s)
  \/ \E k \in Asks : BuildSegmented(k)
  \/ ReturnMemoised
  \/ VisitOperand
  \/ ReturnBuilt
  \/ Throw

BuilderSpec == BuilderInit /\ [][BuilderNext]_builderVars

-----------------------------------------------------------------------------
(* What a path expression means: a relation between elements.              *)

Flipped(rel) == {<<p[2], p[1]>> : p \in rel}

\* Edge and vertex that link i relates, from the edge to the vertex.
Linked(i) ==
  LET E == bindings[Exprs[i].edges]
      V == bindings[Exprs[i].verts]
  IN {c \in (0..(SizeOf(E) - 1)) \X (0..(SizeOf(V) - 1)) :
        \E p \in 1..Len(EndpointSets[E]) :
          EndpointSets[E][p] = V /\ graph[E][c[1] + 1][p] = c[2]}

\* What `and` and `or` make of the relations of their operands.
Combined(i, L, R) ==
  LET x == Exprs[i]
      ends == (0..(SizeOf(bindings[x.sources]) - 1)) \X (0..(SizeOf(bindings[x.sinks]) - 1))
  IN IF x.op = "and"
     THEN IF x.quantified THEN {p \in ends : \E l \in L : l[1] = p[1] /\ <<l[2], p[2]>> \in R}
          ELSE L \cap R
     ELSE IF x.quantified THEN {p \in ends : (\E l \in L : l[1] = p[1]) \/ (\E y \in R : y[2] = p[2])}
          ELSE L \cup R

\* a is linked to b by expression k[1], read from endpoint k[2] to the other.
Related[k \in Lookups] ==
  LET x == Exprs[k[1]]
      rel == IF k[1] \in Links
             THEN IF x.op = "ev" THEN Linked(k[1]) ELSE Flipped(Linked(k[1]))
             ELSE Combined(k[1], Related[Left(k[1])], Related[Right(k[1])])
  IN IF k[2] = 0 THEN rel ELSE Flipped(rel)

Pairs(ix) ==
  UNION {{<<a, b>> : b \in NeighborSet(ix, a)} : a \in 0..(ix.n - 1)}

\* The names of all the sets an expression is about.
NamesIn[i \in Ids] ==
  IF i \in Links THEN {Exprs[i].edges, Exprs[i].verts}
  ELSE NamesIn[Exprs[i].l] \cup NamesIn[Exprs[i].r]

Bound(i) == \A n \in NamesIn[i] : bindings[n] # None

\* The lookups of callers, and of visitors for their operands.
Asked == Asks \cup {Left(i) : i \in Compounds} \cup {Right(i) : i \in Compounds}

\* Whoever fills the entry a lookup is answered from describes, from its first
\* path variable on, what the lookup asks for.  The memo is not safe without:
\* its order does not tell A(i,k) B(k,j) from A(k,j) B(i,k), and the visitor
\* starts at the first variable also when it was asked for the second.
Unambiguous ==
  \A k \in Asked : \A j \in {y \in Asked : Slot[y] = Slot[k]} :
    Bound(j[1]) =>
      /\ End(j[1], 0) = End(k[1], k[2]) /\ End(j[1], 1) = End(k[1], 1 - k[2])
      /\ Related[<<j[1], 0>>] = Related[k]

\* Every index the memo answers a lookup with, whichever expression it was built
\* for, whenever that was and whatever was bound since, lists the neighbours the
\* path expression describes over the sets bound now, read from the endpoint
\* that was asked for.
MemoIsRelation ==
  \/ \A k \in Asked : ~Missing(k) => Pairs(pathIndices[Slot[k]]) = Related[k]
  \/ ~Unambiguous

\* The two links between the same sets, whenever each was built, are transposes
\* of each other with multiplicity: an edge whose endpoints coincide is listed
\* twice at the vertex, as the vertex is at the edge.
LinksTransposed ==
  \A i, j \in Links :
    LET ev == pathIndices[Slot[<<i, 0>>]]
        ve == pathIndices[Slot[<<j, 0>>]]
    IN /\ Exprs[i].op = "ev" /\ Exprs[j].op = "ve"
       /\ Exprs[i].edges = Exprs[j].edges /\ Exprs[i].verts = Exprs[j].verts
       /\ ev # None /\ ve # None
       => \A a \in 0..(ev.n - 1), b \in 0..(ve.n - 1) :
            Occurrences(Neighbors(ev, a), b) = Occurrences(Neighbors(ve, b), a)
=============================================================================
