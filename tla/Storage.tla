-------------------------------- MODULE Storage --------------------------------
(***************************************************************************)
(* How tensors are stored (src/storage.cpp) and which matrix entries have  *)
(* a place: path expressions (src/path_expressions.cpp,                    *)
(* src/path_expression_analysis.cpp) and the indices built from them       *)
(* (src/tensor_index.cpp, src/path_indices.cpp).                           *)
(*                                                                         *)
(* A path expression is a link [o |-> "ve" | "ev", s |-> the edge set], a  *)
(* connective [o |-> "And" | "Or", q |-> has a quantified variable,        *)
(* l, r |-> operands, la, ra |-> the variables they are applied to], or    *)
(* NoPath.  Variables are positions: 1 and 2 are the free variables of the *)
(* connective, 3 is the quantified one.                                    *)
(***************************************************************************)
EXTENDS Ir

NoPath == [o |-> "none"]
Link(o, s) == [o |-> o, s |-> s]
Connective(o, q, l, la, r, ra) == [o |-> o, q |-> q, l |-> l, la |-> la, r |-> r, ra |-> ra]
IsConnective(p) == p.o \in {"And", "Or"}

\* PathExpression::reverse: links are flipped; the operands of a connective are
\* reversed and swap places, but keep the variables they are applied to.
RECURSIVE ReversePath(_)
ReversePath(p) ==
  CASE p.o = "ve" -> Link("ev", p.s)
    [] p.o = "ev" -> Link("ve", p.s)
    [] OTHER -> Connective(p.o, p.q, ReversePath(p.r), p.ra, ReversePath(p.l), p.la)

\* operator==, operator<: the names of variables do not count.
RECURSIVE Structure(_)
Structure(p) == IF IsConnective(p) THEN <<p.o, p.q, Structure(p.l), Structure(p.r)>> ELSE <<p.o, p.s>>

\* Environment::addTensorIndex keeps one index for equal path expressions, the
\* first one's, and PathIndexBuilder returns the index it has built before.
Registered(p, reg) == \E i \in DOMAIN reg : Structure(reg[i]) = Structure(p)
Canonical(p, reg) == IF Registered(p, reg)
                       THEN reg[CHOOSE i \in DOMAIN reg : Structure(reg[i]) = Structure(p) /\ \A j \in 1..i - 1 : Structure(reg[j]) # Structure(p)]
                       ELSE p

-------------------------------------------------------------------------------
(* PathIndexBuilder::buildSegmented over a graph g: g.size maps a set to   *)
(* its size and g.ends an edge set to its edges' endpoint sequences, which *)
(* are all in "V".  The result maps rows to their column sequences.        *)

SortedSeq(S) == SetToSortSeq(S, LAMBDA a, b : a < b)

RECURSIVE BuildSegmented(_, _, _)
BuildSegmented(p0, reg, g) ==
  LET p == Canonical(p0, reg)
      L == BuildSegmented(p.l, reg, g)
      R == BuildSegmented(p.r, reg, g)
      Source == IF Contains(p.la, 1) THEN L ELSE R
      Sink == IF Contains(p.la, 2) THEN L ELSE R
  IN CASE p.o = "ev" -> [e \in 0..g.size[p.s] - 1 |-> g.ends[p.s][e + 1]]
       [] p.o = "ve" -> [v \in 0..g.size["V"] - 1 |->
            FlattenSeq([e \in 1..g.size[p.s] |-> LET ep == g.ends[p.s][e]
              IN [i \in 1..Cardinality({j \in DOMAIN ep : ep[j] = v}) |-> e - 1]])]
       [] p.o = "Or" -> [v \in DOMAIN L |-> SortedSeq(ToSet(L[v]) \cup ToSet(R[v]))]
       [] p.o = "And" /\ ~p.q -> [v \in DOMAIN R |-> SortedSeq(ToSet(L[v]) \cap ToSet(R[v]))]
       [] p.o = "And" /\ p.q -> [v \in DOMAIN Source |-> SortedSeq(UNION {ToSet(Sink[q]) : q \in ToSet(Source[v])})]

\* The arrays of a TensorIndex (getRowptrArray, getColidxArray).
ColidxOf(index) == FlattenSeq([i \in 1..Cardinality(DOMAIN index) |-> index[i - 1]])
RowptrOf(index) == LET F[i \in 0..Cardinality(DOMAIN index)] == IF i = 0 THEN 0 ELSE F[i - 1] + Len(index[i - 1]) IN F

-------------------------------------------------------------------------------
(* GetStorageVisitor.  Its state: st, the storage of each variable         *)
(* [k |-> kind, p |-> path expression of the index]; pe, the path          *)
(* expression of each variable; reg, the environment's tensor indices.     *)

Dense == [k |-> "Dense", p |-> NoPath]
Diagonal == [k |-> "Diagonal", p |-> NoPath]
Indexed(p) == [k |-> "Indexed", p |-> p]
Undefined == [k |-> "Undefined", p |-> NoPath]
Priority(k) == CASE k = "Dense" -> 3 [] k = "Indexed" -> 2 [] k = "Diagonal" -> 1 [] k = "Undefined" -> 0

Put(f, x, v) == (x :> v) @@ f
AddStorage(q, x, s) == [q EXCEPT !.st = Put(@, x, s)]
PathOf(q, x) == IF x \in DOMAIN q.pe THEN q.pe[x] ELSE NoPath
\* addPathExpression: map::insert, which keeps an expression that is there.
AddPathExpression(q, x, p) == IF x \in DOMAIN q.pe THEN q ELSE [q EXCEPT !.pe = Put(@, x, p)]
\* getTensorIndex
AddIndexed(q, x) == LET p == PathOf(q, x) IN
  AddStorage([q EXCEPT !.reg = IF Registered(p, @) THEN @ ELSE Append(@, p)], x, Indexed(p))

\* computePathExpression(Map): assemblies produce veu, ev and ve matrices.
MapPath(x, s) ==
  CASE x.t[1] # s /\ x.t[2] # s -> Connective("And", TRUE, Link("ve", s), <<1, 3>>, Link("ev", s), <<3, 2>>)
    [] x.t[1] = s -> Link("ev", s)
    [] OTHER -> Link("ve", s)

\* Mutant: sums are intersected too.
ConnectiveOfAnd(o) == "And"

\* makePathExpression: or, and
ConnectiveOf(o) == IF o \in {"Add", "Sub"} THEN "Or" ELSE "And"

\* computePathExpression(IndexExpr): the path expressions of the operands,
\* joined where entries are added and intersected where they are multiplied.
RECURSIVE ExprPath(_, _, _)
ExprPath(e, rv, q) ==   \* [p |-> path expression, a |-> its variables, r |-> uses a reduction variable]
  LET Pos(v) == IF v = rv[1] THEN 1 ELSE IF v = rv[2] THEN 2 ELSE 3
      None2 == [p |-> NoPath, a |-> <<1, 2>>, r |-> FALSE]
      iv == e.d.iv
      p == PathOf(q, e.k[1].d)
      A == ExprPath(e.k[1], rv, q)
      B == ExprPath(e.k[2], rv, q)
      Join(o) == IF A.p = NoPath THEN B ELSE IF B.p = NoPath THEN A
                 ELSE [p |-> Connective(o, A.r \/ B.r, A.p, A.a, B.p, B.a), a |-> <<1, 2>>, r |-> FALSE]
  IN CASE e.o = "IndexedTensor" /\ Len(iv) = 2 ->
            IF p = NoPath THEN None2
            ELSE IF iv[1] = rv[2] /\ iv[2] = rv[1] THEN [p |-> ReversePath(p), a |-> <<1, 2>>, r |-> FALSE]
            ELSE [p |-> p, a |-> <<Pos(iv[1]), Pos(iv[2])>>, r |-> iv[1].r \/ iv[2].r]
       [] e.o \in BinaryOps -> Join(ConnectiveOf(e.o))
       [] e.o = "Neg" -> A
       [] OTHER -> None2

\* inferStorage: the storage of the highest priority among the operands.
InferStorage(q, x, v) ==
  LET vs == {y \in {NodesOf(v, "VarExpr")[i].d : i \in DOMAIN NodesOf(v, "VarExpr")} : ~IsScalar(y.t)}
      best == CHOOSE y \in vs : \A z \in vs : Priority(q.st[y].k) >= Priority(q.st[z].k)
  IN IF vs = {} THEN q
     ELSE IF q.st[best].k = "Indexed" THEN AddIndexed(q, x) ELSE AddStorage(q, x, q.st[best])

StoreAssign(q, s) ==
  LET x == s.d.x
      path == ExprPath(s.k[1].k[1], s.k[1].d.rv, q).p
  IN IF IsScalar(x.t) THEN q
     ELSE IF ~HasSystemDimensions(x.t) \/ Len(x.t) <= 1
       THEN IF x \in DOMAIN q.st THEN q ELSE AddStorage(q, x, Dense)
       ELSE InferStorage(IF Isa(s.k[1], "IndexExpr") THEN AddPathExpression(q, x, path) ELSE q, x, s.k[1])

\* visit(Map): over a set of points matrices are diagonal; over an edge set
\* they are indexed by a path expression, or diagonal.
StoreMapVar(q, x, s, edgeSets) ==
  IF Len(x.t) < 2 THEN AddStorage(q, x, Dense)
  ELSE IF s.d.s \notin edgeSets THEN AddStorage(q, x, Diagonal)
  ELSE LET qp == AddPathExpression(q, x, MapPath(x, s.d.s))
       IN IF x.t = <<s.d.s, s.d.s>> THEN AddStorage(qp, x, Diagonal) ELSE AddIndexed(qp, x)

RECURSIVE StoreStmt(_, _, _)
StoreStmt(q, s, edgeSets) ==
  CASE s.o = "VarDecl" -> IF IsScalar(s.d.x.t) THEN q ELSE AddStorage(q, s.d.x, Dense)
    [] s.o = "AssignStmt" -> StoreAssign(q, s)
    [] s.o = "Map" -> FoldLeft(LAMBDA acc, x : StoreMapVar(acc, x, s, edgeSets), q, s.d.rs)
    [] s.o \in {"Block", "Scope", "For"} -> FoldLeft(LAMBDA acc, c : StoreStmt(acc, c, edgeSets), q, s.k)
    [] OTHER -> q

\* updateStorage for a procedure without arguments or results.
UpdateStorage(s, edgeSets) == StoreStmt([st |-> <<>>, pe |-> <<>>, reg |-> <<>>], s, edgeSets)
===============================================================================
