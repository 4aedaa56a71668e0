------------------------------ MODULE MCLowering -------------------------------
(* Small procedures over points V and two edge sets E and F, and graphs.   *)
EXTENDS Lowering

-------------------------------------------------------------------------------
(* Graphs: every sequence of at most two edges of E between three points,  *)
(* and an edge of F along or across them; or two points.                   *)

Graph(v, e, f) == [size |-> [V |-> v, E |-> Len(e), F |-> Len(f)], ends |-> [E |-> e, F |-> f]]
Edges(n) == {<<i, j>> : i, j \in 0..n - 1} \ {<<i, i>> : i \in 0..n - 1}
MCGraphs == {Graph(3, es, <<f>>) : es \in SeqOf(Edges(3), 2), f \in {<<2, 0>>, <<1, 2>>}}
            \cup {Graph(2, es, <<<<0, 1>>>>) : es \in SeqOf(Edges(2), 1)}
\* Every point has an edge in E.
Covered == {g \in MCGraphs : \A v \in 0..g.size.V - 1 : \E i \in DOMAIN g.ends.E : v \in ToSet(g.ends.E[i])}

MCFieldsOf(g) ==
  LET F(s, f, a, b) == FieldVar(s, f) :> [i \in 0..g.size[s] - 1 |-> a + b * i]
  IN F("V", "b", 1, 1) @@ F("V", "c", 2, 0 - 3) @@ F("E", "k", 2, 3) @@ F("F", "k", 7, 0)

-------------------------------------------------------------------------------
(* Mapped functions.                                                       *)

VV == <<"V", "V">>
e == Var(<<"e">>, <<>>)
p == Var(<<"p">>, <<>>)
kA == Var(<<"kA">>, VV)
kB == Var(<<"kB">>, <<"E", "V">>)
kC == Var(<<"kC">>, <<"V", "E">>)
kf == Var(<<"kf">>, <<"V">>)
ks == Var(<<"ks">>, <<>>)

EF(f) == FieldRead(VarE(e), f, <<>>)
P(i) == TupleRead(p, Lit(i))
PF(i, f) == FieldRead(P(i), f, <<>>)
W(x, is, v) == TensorWrite(VarE(x), is, v, "")
Kernel(params, card, results, ss) == [params |-> params, target |-> e, nbrs |-> p, card |-> card, results |-> results, body |-> Block(ss)]

MCKernels == [
  springs |-> Kernel(<<>>, 2, <<kA>>, <<W(kA, <<P(0), P(0)>>, EF("k")), W(kA, <<P(0), P(1)>>, Times(Lit(2), EF("k"))),
                       W(kA, <<P(1), P(0)>>, Unary("Neg", EF("k"))), W(kA, <<P(1), P(1)>>, PF(1, "b"))>>),
  loads |-> Kernel(<<ks>>, 2, <<kA, kf>>, <<W(kA, <<P(0), P(1)>>, VarE(ks)), W(kf, <<P(0)>>, Times(VarE(ks), EF("k"))), W(kf, <<P(1)>>, EF("k"))>>),
  grad |-> Kernel(<<>>, 2, <<kB>>, <<W(kB, <<VarE(e), P(0)>>, EF("k")), W(kB, <<VarE(e), P(1)>>, Unary("Neg", PF(1, "b")))>>),
  div |-> Kernel(<<>>, 2, <<kC>>, <<W(kC, <<P(0), VarE(e)>>, PF(0, "b")), W(kC, <<P(1), VarE(e)>>, EF("k"))>>),
  mass |-> Kernel(<<>>, 0, <<kA>>, <<W(kA, <<VarE(e), VarE(e)>>, EF("b"))>>),
  force |-> Kernel(<<>>, 0, <<kf>>, <<W(kf, <<VarE(e)>>, Times(EF("b"), EF("c")))>>),
  move |-> Kernel(<<>>, 0, <<>>, <<FieldWrite(VarE(e), "c", <<>>, Plus(EF("b"), EF("c")), "")>>)]

-------------------------------------------------------------------------------
(* Functions and procedures.                                               *)

M(n) == Var(<<n>>, VV)
X(n) == Var(<<n>>, <<"V">>)
S(n) == Var(<<n>>, <<>>)
\* The n-th read of a field of V in a statement, and the only one.
VfAt(n, f) == FieldReadAt(SetE("V"), f, <<"V">>, n)
Vf(f) == VfAt(1, f)
Set(x, v) == Assign(x, v, "")
PutV(f, v) == FieldWrite(SetE("V"), f, <<"V">>, v, "")
MapE(rs, f, as) == MapStmt(rs, f, "E", as, TRUE)
Springs(x, s) == MapStmt(<<x>>, "springs", s, <<>>, TRUE)
G == Var(<<"G">>, <<"E", "V">>)
Gt == Var(<<"Gt">>, <<"V", "E">>)
H == Var(<<"H">>, <<"V", "E">>)
EE == Var(<<"EE">>, <<"E", "E">>)
u == Var(<<"u">>, <<"E">>)
a1 == X("a1")
a2 == X("a2")
r1 == X("r1")
r2 == X("r2")
x1 == S("x1")
y1 == S("y1")

MCFuncs == [
  twice |-> [args |-> <<a1>>, results |-> <<r1>>,
             body |-> Block(<<Set(r1, UnaryElwise(1, "Copy", VarE(a1))), Set(r1, BinaryElwise(2, "Add", VarE(r1), VarE(a1)))>>)],
  swap |-> [args |-> <<a1, a2>>, results |-> <<r1, r2>>,
            body |-> Block(<<Set(r1, UnaryElwise(1, "Copy", VarE(a2))), Set(r2, UnaryElwise(2, "Copy", VarE(a1)))>>)],
  grow |-> [args |-> <<a1>>, results |-> <<>>,     \* inout a1
            body |-> Set(a1, BinaryElwise(1, "Mul", InnerProduct(2, VarE(a1), VarE(a1)), VarE(a1)))],
  bump |-> [args |-> <<x1>>, results |-> <<>>, body |-> Set(x1, Plus(VarE(x1), Lit(1)))],     \* inout x1
  square |-> [args |-> <<x1>>, results |-> <<y1>>, body |-> Set(y1, Times(VarE(x1), VarE(x1)))]]

Mat(n) == VarE(M(n))
Vec(n) == VarE(X(n))
On(graphs, ss) == [body |-> Block(ss), graphs |-> graphs]

MCPrograms == [
  merge |-> On(MCGraphs, <<Springs(M("A"), "E"), Springs(M("B"), "F"),
              Set(M("C"), BinaryElwise(1, "Add", Mat("A"), Mat("B"))), Set(M("D"), BinaryElwise(2, "Sub", Mat("A"), Mat("B"))),
              Set(M("I"), BinaryElwise(3, "Mul", Mat("C"), Mat("A"))), PutV("c", Gemv(4, Mat("D"), Vf("b")))>>),
  alike |-> On(MCGraphs, <<Springs(M("A"), "E"), Set(S("s"), Lit(3)), MapE(<<M("B"), X("f")>>, "loads", <<VarE(S("s"))>>),
              Set(M("C"), BinaryElwise(1, "Sub", Mat("A"), Mat("B"))), Set(M("D"), BinaryElwise(2, "Mul", VarE(S("s")), Mat("C"))),
              Set(M("N"), UnaryElwise(3, "Neg", Mat("D"))), PutV("c", BinaryElwise(4, "Add", Vec("f"), Gemv(5, Mat("N"), Vf("c"))))>>),
  turned |-> On(MCGraphs, <<MapE(<<G>>, "grad", <<>>), MapE(<<H>>, "div", <<>>), Set(Gt, TransposedMatrix(1, VarE(G))),
              Set(u, Gemv(2, VarE(G), Vf("b"))), PutV("c", Gemv(3, VarE(Gt), VarE(u)))>>),
  product |-> On(MCGraphs, <<MapE(<<G>>, "grad", <<>>), MapE(<<H>>, "div", <<>>), Springs(M("A"), "F"),
              Set(M("L"), Gemm(1, VarE(H), VarE(G))), Set(EE, Gemm(2, VarE(G), VarE(H))),
              Set(M("Q"), Gemm(3, Mat("A"), Mat("A"))), Set(M("R"), Gemm(4, Mat("L"), Mat("A"))),
              Set(M("T"), BinaryElwise(5, "Add", TransposedMatrix(6, Mat("A")), Mat("Q")))>>),
  diagonal |-> On(Covered, <<MapStmt(<<M("D")>>, "mass", "V", <<>>, FALSE), Springs(M("A"), "E"),
              Set(M("C"), BinaryElwise(1, "Add", Mat("D"), Mat("A"))), Set(X("y"), Gemv(2, Mat("D"), Vf("b"))),
              PutV("b", Gemv(3, Mat("C"), Vec("y")))>>),
  reduced |-> On(MCGraphs, <<CallStmt(<<S("s")>>, "dot", <<Vf("b"), Vf("c")>>), CallStmt(<<S("t")>>, "square", <<VarE(S("s"))>>),
              Set(S("w"), BinaryElwise(1, "Add", VarE(S("t")), InnerProduct(2, Vf("b"), Vf("b")))),
              Set(X("z"), BinaryElwise(3, "Mul", VarE(S("s")), BinaryElwise(4, "Sub", Vf("b"), Vf("c")))),
              PutV("c", BinaryElwise(5, "Sub", Vf("b"), Vf("c")))>>),
  calls |-> On(MCGraphs, <<Set(X("x"), UnaryElwise(1, "Copy", Vf("b"))), Set(X("y"), UnaryElwise(2, "Copy", Vf("c"))),
              CallStmt(<<X("x")>>, "twice", <<Vec("x")>>), CallStmt(<<X("x"), X("y")>>, "swap", <<Vec("x"), Vec("y")>>),
              CallStmt(<<X("z")>>, "twice", <<BinaryElwise(3, "Add", Vec("x"), Vec("y"))>>), PutV("b", UnaryElwise(4, "Copy", Vec("z")))>>),
  inplace |-> On(MCGraphs, <<Springs(M("A"), "E"), Springs(M("B"), "F"), PutV("b", Gemv(1, Mat("A"), Vf("b"))),
              PutV("c", BinaryElwise(2, "Add", Gemv(3, Mat("B"), Gemv(4, Mat("A"), Vf("c"))), Vf("b"))),
              PutV("b", BinaryElwise(5, "Sub", Vf("b"), Vf("c")))>>),
  combined |-> On(MCGraphs, <<PutV("b", BinaryElwise(1, "Mul", VfAt(1, "b"), InnerProduct(2, VfAt(2, "b"), VfAt(3, "b")))),
              CallStmt(<<>>, "grow", <<Vf("c")>>), Set(X("f"), UnaryElwise(3, "Copy", Vf("b"))),
              For(S("v"), "V", CallStmt(<<>>, "bump", <<TensorRead(Vec("f"), <<VarE(S("v"))>>)>>))>>),
  loops |-> On(MCGraphs, <<Set(S("s"), Lit(1)), For(S("v"), "V", Set(S("s"), Plus(VarE(S("s")), FieldRead(VarE(S("v")), "b", <<>>)))),
              MapStmt(<<X("f")>>, "force", "V", <<>>, FALSE), MapStmt(<<>>, "move", "V", <<>>, FALSE),
              Assign(X("f"), BinaryElwise(1, "Mul", VarE(S("s")), Vf("c")), "+"), PutV("b", VarE(X("f")))>>),
  backward |-> On(MCGraphs, <<Springs(M("A"), "E"), Springs(M("B"), "F"),
              Set(M("C"), TransposedMatrix(1, BinaryElwise(2, "Add", Mat("A"), Mat("B")))),
              Set(M("D"), BinaryElwise(3, "Sub", Mat("A"), TransposedMatrix(4, Mat("B")))),
              Set(X("y"), Gemv(5, Mat("D"), Vf("b"))), PutV("b", Gemv(6, Mat("C"), Vf("c")))>>)]
===============================================================================
