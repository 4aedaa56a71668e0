------------------------------ MODULE LowerIndex -------------------------------
(***************************************************************************)
(* lowerIndexExpressions (src/lower/index_expressions/): a statement with  *)
(* an index expression becomes loops over the stored entries of its        *)
(* matrices.  q is the storage GetStorageVisitor computed.  The vertices   *)
(* of a sparse iteration graph are ordered by the addresses of the index   *)
(* variables; rev says that the free ones come in reverse order.           *)
(***************************************************************************)
EXTENDS LowerMaps

Value(s) == IF s.o = "AssignStmt" THEN s.k[1] ELSE s.k[2]
Kind(q, x) == IF x \in DOMAIN q.st THEN q.st[x].k ELSE "Undefined"
Start(p, i) == Load(Rowptr(p), VarE(i))
Stop(p, i) == Load(Rowptr(p), Plus(VarE(i), Lit(1)))
\* A failed assertion: the compiler stops.
Abort == Node("Abort", <<>>, None)
Init0(x) == Block(<<VarDecl(x), Assign(x, Lit(0), "")>>)

-------------------------------------------------------------------------------
(* The sparse iteration graph (src/sig.cpp) and its loop variables.        *)

\* createSIG, merge: one edge for each pair of index variables of a system
\* matrix; an indexed tensor replaces the one that is there.
SigEdges(v, q) ==
  LET its == SelectSeq(IndexedTensors(v), LAMBDA t : Isa(t.k[1], "VarExpr") /\ IsSparseType(Type(t.k[1])))
      Merge(es, t) ==
        LET e == [t |-> t.k[1].d, iv |-> t.d.iv]
            same == {i \in DOMAIN es : es[i].iv = e.iv}
        IN IF same = {} THEN Append(es, e)
           ELSE IF Kind(q, e.t) = "Indexed" THEN [i \in DOMAIN es |-> IF i \in same THEN e ELSE es[i]] ELSE es
  IN FoldLeft(Merge, <<>>, its)

\* ReductionVarsAfterFree
SigVertices(v, rev) ==
  LET free == SelectSeq(IndexVars(v), LAMBDA i : ~i.r)
  IN (IF rev THEN Reverse(free) ELSE free) \o SelectSeq(IndexVars(v), LAMBDA i : i.r)

LoopVarOf(iv) == Var(<<"i">> \o iv.n, <<>>)
CoordVarOf(iv) == Var(<<"ij">> \o iv.n, <<>>)

\* LoopVars::create: a vertex that no edge links to a visited one is a loop over
\* its index set; the others follow the edge's tensor from the visited vertex.
\* An edge that is reached with both its vertices visited is not supported (ok).
LoopVars(v, q, rev) ==     \* [lvs |-> loop variables, edges |-> visited edges, ok]
  LET es == SigEdges(v, q)
      Visited(st) == {lv.iv : lv \in ToSet(st.lvs)}
      Linked(e, i) == [iv |-> CHOOSE j \in ToSet(e.iv) : j # i, link |-> i,
                       dom |-> IF Kind(q, e.t) = "Indexed" THEN "Neighbors" ELSE "Diagonal"]
      Follow(st, n) ==
        LET ends == {k \in DOMAIN es[n].iv : es[n].iv[k] \in Visited(st)}
        IN IF Cardinality(ends) # 1 THEN [st EXCEPT !.ok = FALSE]
           ELSE [st EXCEPT !.lvs = Append(@, Linked(es[n], es[n].iv[CHOOSE k \in ends : TRUE])), !.edges = @ \cup {n}]
      Visit(st, i) ==
        IF i \in Visited(st) THEN st
        ELSE FoldLeft(Follow, [st EXCEPT !.lvs = Append(@, [iv |-> i, link |-> i, dom |-> "IndexSet"])],
                      SelectSeq([n \in DOMAIN es |-> n], LAMBDA n : n \notin st.edges /\ i \in ToSet(es[n].iv)))
      all == FoldLeft(Visit, [lvs |-> <<>>, edges |-> {}, ok |-> TRUE], SigVertices(v, rev))
  IN [all EXCEPT !.ok = @ /\ all.edges = DOMAIN es]

\* getCoordVar: defined for two variables a matrix index links, in either order.
Coord(lvs, iv) ==
  LET links == {n \in DOMAIN lvs : lvs[n].dom = "Neighbors" /\ {lvs[n].iv, lvs[n].link} = ToSet(iv)}
  IN IF Len(iv) = 2 /\ links # {} THEN <<VarE(CoordVarOf(lvs[CHOOSE n \in links : TRUE].iv))>>
     ELSE [i \in DOMAIN iv |-> VarE(LoopVarOf(iv[i]))]

-------------------------------------------------------------------------------
(* lowerIndexStatement.                                                    *)

\* specialize: tensors are read and written at the loop variables.
RECURSIVE SpecializeExpr(_, _)
SpecializeExpr(e, lvs) ==
  CASE e.o = "IndexExpr" -> SpecializeExpr(e.k[1], lvs)
    [] e.o = "IndexedTensor" -> IF IsScalar(Type(e.k[1])) THEN e.k[1] ELSE TensorRead(e.k[1], Coord(lvs, e.d.iv))
    [] OTHER -> MapKids(e, LAMBDA c : SpecializeExpr(c, lvs))

Target(s) == CASE s.o = "AssignStmt" -> VarE(s.d.x)
               [] s.o = "FieldWrite" -> FieldRead(s.k[1], s.d.f, s.d.t)
               [] OTHER -> s.k[1]

Specialize(s, lvs) ==
  LET v == SpecializeExpr(Value(s), lvs)
  IN CASE s.o = "TensorWrite" -> [s EXCEPT !.k[2] = v]
       [] s.o = "AssignStmt" /\ IsScalar(Type(Value(s))) -> Assign(s.d.x, v, s.d.c)
       [] OTHER -> TensorWrite(Target(s), Coord(lvs, Value(s).d.rv), v, s.d.c)

\* wrapCompoundAssignedValues
WrapId == 400
Wrap(s) == IF Isa(Value(s), "IndexExpr") THEN s
           ELSE [s EXCEPT !.k[IF s.o = "AssignStmt" THEN 1 ELSE 2] = UnaryElwise(WrapId, "Copy", Value(s))]

\* reduce: the kernel is summed in a scalar, written back after the loop.
RTmp == Var(<<"rtmp">>, <<>>)
Reduce(nest, kernel) ==
  LET RECURSIVE Sum(_)
      Sum(s) == IF s = kernel THEN Assign(RTmp, Value(s), "+") ELSE MapKids(s, Sum)
      back == IF kernel.o = "AssignStmt" THEN Assign(kernel.d.x, VarE(RTmp), "+") ELSE [kernel EXCEPT !.k[2] = VarE(RTmp)]
  IN Block(<<Init0(RTmp), Sum(nest), back>>)

\* getTensorIndexOfStatement: the index of the last indexed matrix.
IndexOfStatement(s, q) ==
  LET ms == SelectSeq(NodesOf(s, "VarExpr"), LAMBDA n : Len(n.d.t) = 2 /\ Kind(q, n.d) = "Indexed")
  IN q.st[ms[Len(ms)].d].p

\* DiagonalReadsRewriter: C(ij) = D(ij) + e becomes C(i,i) = D(i) before the
\* loop over ij, and C(ij) = C(ij) + e in it.
Lifted(kernel, q) ==
  LET v == Value(kernel)
      d == IF Isa(v.k[1], "TensorRead") THEN 1 ELSE 2
  IN IF kernel.o # "TensorWrite" \/ v.o \notin {"Add", "Sub"} THEN 0
     ELSE IF Isa(v.k[d], "TensorRead") /\ Isa(v.k[d].k[1], "VarExpr") /\ Kind(q, v.k[d].k[1].d) = "Diagonal" THEN d ELSE 0

LiftDiagonal(nest, kernel, d, i) ==
  LET v == Value(kernel)
      a == kernel.k[1]
      ix == SubSeq(kernel.k, 3, Len(kernel.k))
      new == TensorWrite(a, ix, Binary(v.o, TensorRead(a, ix), v.k[3 - d]), "")
  IN [pre |-> TensorWrite(a, <<VarE(i), VarE(i)>>, TensorRead(v.k[d].k[1], <<VarE(i)>>), ""),
      nest |-> Substitute(nest, kernel, new)]

\* The loops, from the innermost outwards.
WrapLoop(nest, lv, kernel, s, q) ==
  LET j == LoopVarOf(lv.iv)
      i == LoopVarOf(lv.link)
      ij == CoordVarOf(lv.iv)
      p == IndexOfStatement(s, q)
      d == Lifted(kernel, q)
      lift == LiftDiagonal(nest, kernel, d, i)
      Neighbors(body) == ForRange(ij, Start(p, i), Stop(p, i), Block(<<Assign(j, Load(Colidx(p), VarE(ij)), ""), body>>))
      loop == CASE lv.dom = "IndexSet" -> For(j, lv.iv.s, nest)
                [] lv.dom = "Diagonal" -> Block(<<Assign(j, VarE(i), ""), nest>>)
                [] lv.dom = "Neighbors" /\ d = 0 -> Neighbors(nest)
                [] OTHER -> Block(<<lift.pre, Neighbors(lift.nest)>>)
  IN IF lv.iv.r THEN Reduce(loop, kernel) ELSE loop

\* initializeLhsToZero, initializeTensorToZero
LhsToZero(s) == CASE s.o = "AssignStmt" -> Assign(s.d.x, Lit(0), "")
                  [] s.o = "FieldWrite" -> [s EXCEPT !.k[2] = Lit(0), !.d.c = ""]
                  [] OTHER -> [s EXCEPT !.k[2] = Lit(0), !.d.c = ""]
ZeroVar(i) == Var(<<"index", i>>, <<>>)
TensorToZero(s) ==
  LET t == Type(Target(s))
      write == TensorWrite(Target(s), [i \in DOMAIN t |-> VarE(ZeroVar(i))], Lit(0), "")
  IN FoldRight(LAMBDA i, b : For(ZeroVar(i), t[i], b), [i \in DOMAIN t |-> i], write)

LoopNest(s, lvs, kernel, q) == FoldRight(LAMBDA lv, b : WrapLoop(b, lv, kernel, s, q), lvs, kernel)
LoopNestOf(s, lvs, q) == LoopNest(s, lvs, Specialize(s, lvs), q)

IsResultScalar(v) == GetReductionVars(v) # <<>> /\ SelectSeq(IndexVars(v), LAMBDA i : ~i.r) = <<>>
IsVarSparse(s, q) == s.o = "AssignStmt" /\ Kind(q, s.d.x) = "Indexed"
Initialised(s, nest, q) ==
  IF IsResultScalar(Value(s)) \/ IsVarSparse(s, q) THEN Block(<<LhsToZero(s), nest>>)
  ELSE IF SigEdges(Value(s), q) # <<>> /\ s.d.c = "" THEN Block(<<TensorToZero(s), nest>>)
  ELSE nest

LowerWrapped(s, q, rev) ==
  LET sig == LoopVars(Value(s), q, rev)
  IN IF sig.ok THEN Initialised(s, LoopNestOf(s, sig.lvs, q), q) ELSE Abort
LowerIndexStatement(s, q, rev) == LowerWrapped(Wrap(s), q, rev)

-------------------------------------------------------------------------------
(* lowerScatterWorkspace: matrices of different structure.  A subset loop  *)
(* is [ts |-> the matrices it merges, e |-> computed expression, c |-> how *)
(* it is added to the workspace].                                          *)

Workspace(x) == Var(<<"workspace">> \o x.n, <<x.t[2]>>)
CoordIn(x) == Var(<<"coord">> \o x.n, <<>>)       \* TensorIndexVar::getCoordVar
SinkIn(x) == Var(<<"sink">> \o x.n, <<>>)         \* TensorIndexVar::getSinkVar
InitSink(x, q, sink) == Assign(sink, Load(Colidx(q.st[x].p), VarE(CoordIn(x))), "")
Increment(x) == Assign(x, Plus(VarE(x), Lit(1)), "")
\* Mutant: one entry too many.
MoreEntriesAndOne(x, i, q) == Binary("Lt", VarE(CoordIn(x)), Plus(Stop(q.st[x].p, i), Lit(1)))

MoreEntries(x, i, q) == Binary("Lt", VarE(CoordIn(x)), Stop(q.st[x].p, i))   \* compareToNextIndexLocation

RECURSIVE SubsetLoops(_)
SubsetLoops(e) ==
  LET a == SubsetLoops(e.k[1])
      b == SubsetLoops(e.k[2])
      UnionMerge(c) == [i \in DOMAIN (a \o b) |-> [(a \o b)[i] EXCEPT !.c = IF i = 1 THEN "" ELSE c]]
      \* intersectionMerge
      Product == FlattenSeq([i \in DOMAIN a |-> [j \in DOMAIN b |->
                   [ts |-> a[i].ts \o b[j].ts, e |-> Times(a[i].e, b[j].e), c |-> a[i].c]]])
  IN CASE e.o = "IndexedTensor" -> <<[ts |-> <<e.k[1].d>>, e |-> Load(e.k[1], VarE(CoordIn(e.k[1].d))), c |-> ""]>>
       [] e.o = "Neg" -> [i \in DOMAIN a |-> [a[i] EXCEPT !.e = Unary("Neg", @), !.c = ""]]
       [] e.o = "Add" -> UnionMerge("+")
       [] e.o = "Sub" -> UnionMerge("-")
       [] e.o = "Mul" -> Product

\* createFastForwardLoop
FastForward(x, i, j, q) ==
  LET step == Block(<<Increment(CoordIn(x)), InitSink(x, q, SinkIn(x))>>)
  IN Block(<<step, While(Binary("And", Binary("Lt", VarE(SinkIn(x)), VarE(j)), MoreEntries(x, i, q)), step)>>)

\* createSubsetLoopStmt: one matrix is a loop over its row; two are merged.
SubsetLoopStmt(ts, i, j, body, q) ==
  LET x == ts[1]
      y == ts[2]
      Each(F(_)) == Block([n \in DOMAIN ts |-> F(ts[n])])
      s1 == VarE(SinkIn(x))
      s2 == VarE(SinkIn(y))
      init == Block(<<Each(LAMBDA t : Block(<<VarDecl(CoordIn(t)), Assign(CoordIn(t), Start(q.st[t].p, i), "")>>)),
                      Each(LAMBDA t : Block(<<VarDecl(SinkIn(t)), InitSink(t, q, SinkIn(t))>>))>>)
      both == Block(<<Assign(j, s1, ""), body, Each(LAMBDA t : Increment(CoordIn(t))), Each(LAMBDA t : InitSink(t, q, SinkIn(t)))>>)
      max == IfThenElse(Binary("Gt", s1, s2), Assign(j, s1, ""), Assign(j, s2, ""))
      apart == Block(<<max, IfThenElse(Binary("Lt", s1, VarE(j)), FastForward(x, i, j, q), FastForward(y, i, j, q))>>)
  IN IF Len(ts) = 1
       THEN ForRange(CoordIn(x), Start(q.st[x].p, i), Stop(q.st[x].p, i), Block(<<InitSink(x, q, j), body>>))
       ELSE Block(<<init, While(Binary("And", MoreEntries(x, i, q), MoreEntries(y, i, q)),
                                IfThenElse(Binary("Eq", s1, s2), both, apart))>>)

\* Mutant: the workspace keeps the row.
CopyFromWorkspaceKeeps(x, j) == Store(VarE(x), VarE(CoordIn(x)), Load(VarE(Workspace(x)), VarE(j)), "")

CopyFromWorkspace(x, j) ==
  LET w == VarE(Workspace(x))
  IN Block(<<Store(VarE(x), VarE(CoordIn(x)), Load(w, VarE(j)), ""), Store(w, VarE(j), Lit(0), "")>>)

LowerScatterWorkspace(x, v, q) ==
  LET i == LoopVarOf(v.d.rv[1])
      j == LoopVarOf(v.d.rv[2])
      w == VarE(Workspace(x))
      ls == SubsetLoops(v.k[1])
  IN For(i, v.d.rv[1].s,
       Block(<<VarDecl(j)>>
             \o [n \in DOMAIN ls |-> SubsetLoopStmt(ls[n].ts, i, j, Store(w, VarE(j), ls[n].e, ls[n].c), q)]
             \o <<SubsetLoopStmt(<<x>>, i, j, CopyFromWorkspace(x, j), q)>>))

-------------------------------------------------------------------------------
(* lowerTranspose and lowerMatrixMultiply.                                 *)

LowerTranspose(x, v, q) ==
  LET src == v.k[1].k[1].d
      p == q.st[src].p
      i == IntVar("i")
      ij == IntVar("ij")
  IN For(i, src.t[1], ForRange(ij, Start(p, i), Stop(p, i),
       Block(<<LocCall(LocVar, Load(Colidx(p), VarE(ij)), VarE(i), q.st[x].p),
               Store(VarE(x), VarE(LocVar), Load(VarE(src), VarE(ij)), "")>>)))

\* The row of the result is summed in a workspace that is cleared first; without
\* a path expression for the result the external function spmm is called.
LowerMatrixMultiply(x, v, q) ==
  LET its == IndexedTensors(v)
      A == its[CHOOSE n \in 1..2 : ~its[n].d.iv[1].r].k[1].d
      B == its[CHOOSE n \in 1..2 : its[n].d.iv[1].r].k[1].d
      i == LoopVarOf(v.d.rv[1])
      w == Workspace(x)
      val == Var(<<"firstVal">> \o x.n, <<>>)
      \* TensorIndexVars are named after their tensor and place (A may be B).
      At(t, n) == Var(<<"mm", n>>, t.t)
      Row(t, n, link, body) == ForRange(CoordIn(At(t, n)), Start(q.st[t].p, link), Stop(q.st[t].p, link),
        Block(<<Assign(SinkIn(At(t, n)), Load(Colidx(q.st[t].p), VarE(CoordIn(At(t, n)))), "")>> \o body))
      inner == Row(B, 2, SinkIn(At(A, 1)),
        <<Store(VarE(w), VarE(SinkIn(At(B, 2))), Times(VarE(val), Load(VarE(B), VarE(CoordIn(At(B, 2))))), "+")>>)
      build == Row(A, 1, i, <<VarDecl(val), Assign(val, Load(VarE(A), VarE(CoordIn(At(A, 1)))), ""), inner>>)
      copy == Row(x, 3, i, <<Store(VarE(x), VarE(CoordIn(At(x, 3))), Load(VarE(w), VarE(SinkIn(At(x, 3)))), "")>>)
  IN IF q.st[x].p = NoPath THEN CallStmt(<<x>>, "spmm", <<v.k[1].k[1].k[1], v.k[1].k[2].k[1]>>)
     ELSE Block(<<VarDecl(i), ForRange(i, Lit(0), Length(v.d.rv[1].s), Block(<<Assign(w, Lit(0), ""), build, copy>>))>>)

-------------------------------------------------------------------------------
(* The dispatch.                                                           *)

IsScale(v) == \E n \in DOMAIN Nodes(v.k[1]) : LET e == Nodes(v.k[1])[n] IN
  e.o = "Literal" \/ (e.o \in {"VarExpr", "FieldRead"} /\ IsScalar(Type(e)))
IsElwise(v) == \A n \in DOMAIN IndexedTensors(v) : IndexedTensors(v)[n].d.iv = v.d.rv
SameStructure(v, q) ==
  \A a, b \in {n \in DOMAIN NodesOf(v, "VarExpr") : Kind(q, NodesOf(v, "VarExpr")[n].d) # "Diagonal"} :
    Structure(q.st[NodesOf(v, "VarExpr")[a].d].p) = Structure(q.st[NodesOf(v, "VarExpr")[b].d].p)
IsTranspose(v) == /\ Len(v.d.rv) = 2 /\ Isa(v.k[1], "IndexedTensor") /\ Len(v.k[1].d.iv) = 2
                  /\ v.k[1].d.iv = Reverse(v.d.rv)

\* (i,j B(i,+k)*C(+k,j)), in either order of the operands.
IsGemm(v) ==
  LET its == IndexedTensors(v)
      First(t) == t.d.iv[1] = v.d.rv[1] /\ ~t.d.iv[1].r /\ t.d.iv[2].r
      Second(t) == t.d.iv[2] = v.d.rv[2] /\ ~t.d.iv[2].r /\ t.d.iv[1].r
  IN /\ Len(v.d.rv) = 2 /\ \A n \in DOMAIN its : Len(its[n].d.iv) = 2
     /\ Len(its) = 2 /\ \E n \in 1..2 : First(its[n]) /\ Second(its[3 - n])

LowerAssign(s, q, rev) ==
  LET v == s.k[1]
      x == s.d.x
  IN IF Len(Type(v)) <= 1 \/ Kind(q, x) = "Dense" \/ IsScale(v) THEN LowerIndexStatement(s, q, rev)
     ELSE IF IsElwise(v)
       THEN IF SameStructure(v, q) THEN LowerIndexStatement(s, q, rev) ELSE LowerScatterWorkspace(x, v, q)
     ELSE IF IsTranspose(v) THEN LowerTranspose(x, v, q)
     ELSE IF IsGemm(v) THEN LowerMatrixMultiply(x, v, q) ELSE Abort

RECURSIVE LowerIndexExpressions(_, _, _)
LowerIndexExpressions(s, q, rev) ==
  CASE s.o = "Block" -> Block([i \in DOMAIN s.k |-> LowerIndexExpressions(s.k[i], q, rev)])
    [] s.o \in {"For", "ForRange", "Scope"} -> [s EXCEPT !.k[Len(s.k)] = LowerIndexExpressions(@, q, rev)]
    [] s.o = "AssignStmt" /\ Isa(Value(s), "IndexExpr") -> LowerAssign(s, q, rev)
    [] s.o \in {"AssignStmt", "FieldWrite", "TensorWrite"} /\ (Isa(Value(s), "IndexExpr") \/ s.d.c # "") ->
         LowerIndexStatement(s, q, rev)
    [] OTHER -> s
===============================================================================
