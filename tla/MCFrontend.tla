------------------------------ MODULE MCFrontend -------------------------------
(***************************************************************************)
(* Small programs for Frontend: one assignment over variables of many      *)
(* types, and programs with generic functions and every statement.         *)
(***************************************************************************)
EXTENDS Frontend

-------------------------------------------------------------------------------
(* Writing trees.                                                          *)

N(class, kids) == Node(class, kids, <<>>)
L(class, data) == Node(class, <<>>, data)

Var(name) == L("VarExpr", [ident |-> name])
IntLit(v) == L("IntLiteral", [val |-> v])
FloatLit(v) == L("FloatLiteral", [val |-> v])
Bin(class, l, r) == N(class, [lhs |-> <<l>>, rhs |-> <<r>>])
Un(class, x) == N(class, [operand |-> <<x>>])
Neg(x) == Node("NegExpr", [operand |-> <<x>>], [negate |-> TRUE])
Eq(l, r) == Node("EqExpr", [operands |-> <<l, r>>], [ops |-> <<"LT">>])
At1(x) == N("ExprParam", [expr |-> <<x>>])
All == N("Slice", <<>>)
Read(t, is) == N("TensorReadExpr", [tensor |-> <<t>>, indices |-> is])
Field(x, f) == N("FieldReadExpr", [setOrElem |-> <<x>>, field |-> <<Ident(f)>>])
Call(f, sets, args) == N("CallExpr", [func |-> <<Ident(f)>>, genericArgs |-> sets, args |-> args])
Map(f, actuals, set) == Node("ReducedMapExpr", [func |-> <<Ident(f)>>, partialActuals |-> actuals, target |-> <<set>>], [op |-> "SUM"])
MapEach(f, set) == N("UnreducedMapExpr", [func |-> <<Ident(f)>>, target |-> <<set>>])
Set(name) == L("SetIndexSet", [setName |-> name])
Gen(name) == L("GenericIndexSet", [setName |-> name, type |-> "UNKNOWN"])
GenRange(name) == L("GenericIndexSet", [setName |-> name, type |-> "RANGE"])

Block(ss) == N("StmtBlock", [stmts |-> ss])
Assign(l, x) == N("AssignStmt", [lhs |-> <<l>>, expr |-> <<x>>])
Do(x) == N("ExprStmt", [expr |-> <<x>>])
Declared1(name, type, init) == N("VarDecl", [name |-> <<Ident(name)>>, type |-> type, initVal |-> init])
Arg(name, type) == N("Argument", [name |-> <<Ident(name)>>, type |-> <<type>>])
InOut(name, type) == N("InOutArgument", [name |-> <<Ident(name)>>, type |-> <<type>>])
Res(name, type) == N("IdentDecl", [name |-> <<Ident(name)>>, type |-> <<type>>])
Func(kind, name, params, args, results, body) ==
  Node("FuncDecl", [name |-> <<Ident(name)>>, genericParams |-> params, args |-> args, results |-> results, body |-> <<Block(body)>>],
       [type |-> kind])
Param(name, type) == L("GenericParam", [name |-> name, type |-> type])

FloatT == Scalar("FLOAT")
IntT == Scalar("INT")
Elem(name) == L("ElementType", [ident |-> name])
SetOf(elem, ends) ==
  N("HeterogeneousEdgeSetType", [element |-> <<Elem(elem)>>, endpoints |-> [i \in DOMAIN ends |-> N("Endpoint", [set |-> <<Set(ends[i])>>])]])
Extern(name, type) == N("ExternDecl", [name |-> <<Ident(name)>>, type |-> <<type>>])
T(sets, block) == NDTensor(sets, block, FALSE)
Row(sets, block) == NDTensor(sets, block, TRUE)

FieldOf(name, type) == N("FieldDecl", [name |-> <<Ident(name)>>, type |-> <<type>>])
Point == N("ElementTypeDecl", [name |-> <<Ident("Point")>>, fields |-> <<FieldOf("m", FloatT), FieldOf("x", Vector(RangeSet(2)))>>])
Edge == N("ElementTypeDecl", [name |-> <<Ident("Edge")>>, fields |-> <<FieldOf("k", FloatT)>>])
World == <<Point, Edge, Extern("P", SetOf("Point", <<>>)), Extern("S", SetOf("Edge", <<"P", "P">>))>>

-------------------------------------------------------------------------------
(* One assignment.                                                         *)

Vars ==
  [i |-> IntT, s |-> FloatT, c |-> Scalar("COMPLEX"), b |-> Scalar("BOOL"),
   v |-> Vector(RangeSet(2)), w |-> Vector(RangeSet(3)), r |-> Row(<<RangeSet(2)>>, FloatT),
   A |-> Matrix(RangeSet(2), RangeSet(3)), B |-> Matrix(RangeSet(2), RangeSet(2)),
   sv |-> Vector(Set("P")), bv |-> T(<<Set("P")>>, Vector(RangeSet(2))),
   sA |-> Matrix(Set("P"), Set("P")), bA |-> T(<<Set("P"), Set("P")>>, Matrix(RangeSet(2), RangeSet(2)))]

VarNames == <<"i", "s", "c", "b", "v", "w", "r", "A", "B", "sv", "bv", "sA", "bA">>

Half == Func("INTERNAL", "half", <<>>, <<Arg("x", FloatT)>>, <<Res("y", FloatT)>>, <<Assign(Var("y"), Bin("MulExpr", Var("x"), FloatLit(2)))>>)

Statement(s) ==
  World \o <<Half, Func("EXPORTED", "main", <<>>, [k \in DOMAIN VarNames |-> InOut(VarNames[k], Vars[VarNames[k]])], <<>>, <<s>>)>>

Leaves == {Var(VarNames[k]) : k \in DOMAIN VarNames}
Reads == {Read(Var("v"), <<At1(IntLit(0))>>), Read(Var("A"), <<At1(IntLit(0)), At1(Var("i"))>>), Read(Var("A"), <<At1(IntLit(0)), All>>),
          Read(Var("A"), <<All, At1(IntLit(0))>>), Field(Var("P"), "m"), Field(Var("P"), "x"),
          Call("half", <<>>, <<Var("s")>>), Call("norm", <<>>, <<Var("v")>>), FloatLit(2), IntLit(1),
          L("FloatVectorLiteral", [vals |-> <<1, 2>>, transposed |-> TRUE])}
Binary == {"AddExpr", "ElwiseMulExpr", "MulExpr", "DivExpr", "LeftDivExpr"}
Turned == {Un("TransposeExpr", x) : x \in {Var("v"), Var("A"), Var("B"), Var("sv"), Var("bA"), Var("s")}}

Expressions1 ==
  Leaves \union Reads \union Turned \union {Neg(x) : x \in Leaves \union Reads} \union {Un("NotExpr", x) : x \in {Var("b"), Var("s")}}
    \union {Bin(op, l, r) : op \in Binary, l \in Leaves, r \in Leaves}
    \union {Bin("MulExpr", l, r) : l \in Turned \union Reads, r \in Leaves \union Turned}
    \union {Eq(l, r) : l \in {Var("i"), Var("s"), Var("v")}, r \in {Var("i"), Var("s"), Var("b")}}
    \union {Bin("MulExpr", Bin("MulExpr", x, y), z) : x \in {Var("r"), Var("B"), Var("bA")}, y \in {Var("B"), Var("v"), Var("bA")},
                                                     z \in {Var("v"), Var("A"), Var("r"), Var("bv")}}

Targets == Leaves \union {Read(Var("v"), <<At1(IntLit(0))>>), Field(Var("P"), "m"), Field(Var("P"), "x"), Var("new")}

OneAssignment ==
  {Statement(Assign(Var("new"), x)) : x \in Expressions1}
    \union {Statement(Assign(l, x)) : l \in Targets, x \in {Var("s"), Var("v"), Var("B"), Var("bA"), Call("half", <<>>, <<Var("s")>>)}}

-------------------------------------------------------------------------------
(* Generic functions, maps, reductions and every statement.                *)

In(set) == N("IndexSetDomain", [set |-> <<set>>])
Span(lower, upper) == N("RangeDomain", [lower |-> <<lower>>, upper |-> <<upper>>])
For(x, domain, body) == N("ForStmt", [loopVar |-> <<Ident(x)>>, domain |-> <<domain>>, body |-> <<Block(body)>>])
While(cond, body) == N("WhileStmt", [cond |-> <<cond>>, body |-> <<Block(body)>>])
DoWhile(cond, body) == N("DoWhileStmt", [cond |-> <<cond>>, body |-> <<Block(body)>>])
If(cond, body, other) == N("IfStmt", [cond |-> <<cond>>, ifBody |-> <<Block(body)>>, elseBody |-> <<Block(other)>>])
PrintOf(xs) == Node("PrintStmt", [args |-> xs], [printNewline |-> TRUE])
Set1(name, x) == Assign(Var(name), x)
IVar(name) == N("IVarDecl", [name |-> <<Ident(name)>>])
Tuple(elem, length) == N("UnnamedTupleType", [element |-> <<Elem(elem)>>, length |-> <<L("TupleLength", [val |-> length])>>])
Named(names) == N("NamedTupleType", [elems |-> [i \in DOMAIN names |-> N("TupleElement", [name |-> <<Ident(names[i])>>, element |-> <<Elem("Point")>>])]])
Nth(t, i) == N("UnnamedTupleReadExpr", [tuple |-> <<Var(t)>>, index |-> <<i>>])
End(t, name) == N("NamedTupleReadExpr", [tuple |-> <<Var(t)>>, elem |-> <<Ident(name)>>])
AtVar(t, xs) == Read(Var(t), [i \in DOMAIN xs |-> At1(Var(xs[i]))])
MapTo(f, sets, set, through) ==
  N("UnreducedMapExpr", [func |-> <<Ident(f)>>, genericArgs |-> sets, target |-> <<Set(set)>>, through |-> through])
Apply(map) == N("ApplyStmt", [map |-> <<map>>])
FV(vals) == L("FloatVectorLiteral", [vals |-> vals, transposed |-> FALSE])
CL(v) == L("ComplexLiteral", [val |-> v])
CV(vals) == L("ComplexVectorLiteral", [vals |-> vals, transposed |-> FALSE])
CM(rows) == Node("NDTensorLiteral", [elems |-> [i \in DOMAIN rows |-> CV(rows[i])]], [transposed |-> FALSE])
FM(rows) == Node("NDTensorLiteral", [elems |-> [i \in DOMAIN rows |-> FV(rows[i])]], [transposed |-> FALSE])
Times(l, r) == Bin("MulExpr", l, r)
Plus(l, r) == Bin("AddExpr", l, r)
HalfOf(x) == Call("half", <<>>, <<x>>)
Unknown(name) == Param(name, "UNKNOWN")
N1 == <<Unknown("N")>>
OfN == Vector(Gen("N"))

Sum == Func("INTERNAL", "sum", N1, <<Arg("a", OfN)>>, <<Res("r", FloatT)>>,
            <<Set1("r", FloatLit(0)), For("k", In(Gen("N")), <<Set1("r", Plus(Var("r"), AtVar("a", <<"k">>)))>>)>>)
Twice == Func("INTERNAL", "twice", N1, <<Arg("a", OfN)>>, <<Res("r", OfN)>>, <<Set1("r", Times(Var("a"), FloatLit(2)))>>)
Outer == Func("INTERNAL", "outer", N1, <<Arg("a", OfN)>>, <<Res("r", FloatT)>>, <<Set1("r", Call("sum", <<>>, <<Var("a")>>))>>)
OuterMap == Func("INTERNAL", "outerMap", N1, <<Arg("a", OfN)>>, <<Res("r", FloatT)>>,
                 <<Declared1("t", <<Vector(Set("P"))>>, <<Map("masses", <<>>, Set("P"))>>), Set1("r", Call("sum", <<>>, <<Var("a")>>))>>)
Ones == Func("INTERNAL", "ones", N1, <<>>, <<Res("r", OfN)>>, <<Set1("r", FloatLit(1))>>)
Length == Func("INTERNAL", "length", <<Param("N", "RANGE")>>, <<Arg("a", Vector(GenRange("N")))>>, <<Res("r", IntT)>>,
               <<Set1("r", L("RangeConst", [ident |-> "N"]))>>)
Parts == Func("INTERNAL", "parts", <<>>, <<Arg("a", FloatT)>>, <<Res("q", FloatT), Res("n", IntT)>>,
              <<Set1("q", HalfOf(Var("a"))), Set1("n", IntLit(1))>>)

Masses == Func("INTERNAL", "masses", <<>>, <<Arg("p", Elem("Point"))>>, <<Res("g", Vector(Set("P")))>>,
               <<Assign(AtVar("g", <<"p">>), Field(Var("p"), "m"))>>)
Blocks == Func("INTERNAL", "blocks", <<>>, <<Arg("p", Elem("Point"))>>, <<Res("g", T(<<Set("P")>>, Vector(RangeSet(2))))>>,
               <<Assign(AtVar("g", <<"p">>), Field(Var("p"), "x"))>>)
Springs == Func("INTERNAL", "springs", <<>>, <<Arg("e", Elem("Edge")), Arg("ps", Tuple("Point", 2))>>, <<Res("K", Matrix(Set("P"), Set("P")))>>,
                <<Assign(Read(Var("K"), <<At1(Nth("ps", IntLit(0))), At1(Nth("ps", IntLit(1)))>>), Field(Var("e"), "k"))>>)
Ends == Func("INTERNAL", "ends", <<>>, <<Arg("e", Elem("Edge")), Arg("ps", Named(<<"a", "b">>))>>, <<Res("g", Vector(Set("P")))>>,
             <<Assign(Read(Var("g"), <<At1(End("ps", "a"))>>), Field(End("ps", "b"), "m"))>>)
Weights == Func("INTERNAL", "weights", N1, <<Arg("w", OfN), Arg("p", Elem("Point"))>>, <<Res("g", Vector(Set("P")))>>,
                <<Assign(AtVar("g", <<"p">>), Times(Field(Var("p"), "m"), Call("sum", <<>>, <<Var("w")>>)))>>)
Move == Func("INTERNAL", "move", <<>>, <<InOut("p", Elem("Point"))>>, <<>>, <<Assign(Field(Var("p"), "m"), FloatLit(1))>>)

Grid == Node("GridSetType", [element |-> <<Elem("Edge")>>, underlyingPointSet |-> <<N("Endpoint", [set |-> <<Set("P")>>])>>], [dimensions |-> 1])
OnGrid == Func("INTERNAL", "onGrid", <<>>, <<Arg("p", Elem("Point")), Arg("G", Grid)>>, <<Res("g", Vector(Set("P")))>>,
               <<Assign(AtVar("g", <<"p">>), Field(N("SetReadExpr", [set |-> <<Var("G")>>, indices |-> <<IntLit(0), IntLit(1)>>]), "k"))>>)
Scale == N("ConstDecl", [name |-> <<Ident("scale")>>, type |-> <<FloatT>>, initVal |-> <<Neg(FloatLit(2))>>])
Turn == N("ConstDecl", [name |-> <<Ident("turn")>>, type |-> <<Matrix(RangeSet(2), RangeSet(2))>>,
                        initVal |-> <<Neg(FM(<<<<1, 2>>, <<3, 4>>>>))>>])
HalfTest == N("Test", [func |-> <<Ident("half")>>, args |-> <<FloatLit(1)>>, expected |-> <<Neg(FloatLit(2))>>])

Library == World \o <<Extern("G", Grid), Scale, Turn, Half, Sum, Twice, Outer, Ones, Length, Parts, Masses, OuterMap, Blocks, Springs, Ends, Weights, Move, OnGrid>>

Main(stmts) == Library \o <<Func("EXPORTED", "main", <<>>, [k \in DOMAIN VarNames |-> InOut(VarNames[k], Vars[VarNames[k]])], <<>>, stmts), HalfTest>>

SumOf(x) == Call("sum", <<>>, <<Var(x)>>)
Less(x) == Eq(x, FloatLit(1))

Bodies == {
  <<Do(Call("ones", <<RangeSet(2)>>, <<>>)), Set1("v", Call("ones", <<RangeSet(2)>>, <<>>)), Set1("w", Call("ones", <<RangeSet(3)>>, <<>>))>>,
  <<Do(Call("ones", <<RangeSet(2)>>, <<>>)), Do(Call("ones", <<Set("P")>>, <<>>))>>,
  <<Set1("s", SumOf("v"))>>, <<Set1("s", Plus(SumOf("v"), SumOf("v")))>>, <<Set1("s", Plus(SumOf("v"), SumOf("w")))>>,
  <<Set1("s", SumOf("sv")), Set1("v", Call("twice", <<>>, <<Var("v")>>)), Set1("w", Call("twice", <<RangeSet(3)>>, <<Var("w")>>))>>,
  <<Set1("v", Call("twice", <<RangeSet(3)>>, <<Var("v")>>))>>, <<Set1("s", SumOf("r"))>>, <<Set1("s", SumOf("B"))>>,
  <<Set1("s", Call("outer", <<>>, <<Var("v")>>)), Set1("s", Call("outer", <<>>, <<Var("w")>>)), Set1("s", Call("outer", <<>>, <<Var("v")>>))>>,
  <<Set1("s", Call("outerMap", <<>>, <<Var("w")>>))>>,
  <<Set1("i", Call("length", <<>>, <<Var("w")>>)), Set1("i", Call("length", <<RangeSet(3)>>, <<Var("w")>>))>>, <<Set1("i", Call("length", <<>>, <<Var("sv")>>))>>,
  <<N("AssignStmt", [lhs |-> <<Var("s"), Var("i")>>, expr |-> <<Call("parts", <<>>, <<Var("s")>>)>>])>>, <<Set1("s", Call("parts", <<>>, <<Var("s")>>))>>,
  <<Set1("sv", MapEach("masses", Set("P")))>>, <<Set1("sv", Map("masses", <<>>, Set("P"))), Set1("bv", Map("blocks", <<>>, Set("P")))>>,
  <<Set1("sA", Map("springs", <<>>, Set("S")))>>, <<Set1("sv", Map("ends", <<>>, Set("S"))), Set1("sv", Times(Var("sA"), Var("sv")))>>,
  <<Set1("sv", Map("weights", <<Var("v")>>, Set("P"))), Set1("sv", Map("weights", <<Var("w")>>, Set("P")))>>,
  <<Set1("sv", MapTo("onGrid", <<>>, "P", <<Set("G")>>))>>, <<Set1("sv", MapTo("masses", <<>>, "S", <<>>))>>,
  <<Apply(MapEach("move", Set("P")))>>, <<Apply(MapEach("masses", Set("P")))>>,
  <<For("p", In(Set("P")), <<Assign(Field(Var("p"), "m"), HalfOf(Field(Var("p"), "m"))), Set1("s", AtVar("sv", <<"p">>))>>)>>,
  <<For("k", Span(IntLit(0), IntLit(2)), <<Set1("s", Plus(Var("s"), HalfOf(AtVar("v", <<"k">>))))>>), For("k", Span(IntLit(0), Var("i")), <<PrintOf(<<Var("k"), HalfOf(Var("s"))>>)>>)>>,
  <<While(Less(HalfOf(Var("s"))), <<Set1("s", HalfOf(Var("s"))), Do(HalfOf(Var("s")))>>)>>,
  <<DoWhile(Less(HalfOf(HalfOf(Var("s")))), <<Set1("t", HalfOf(Var("s")))>>)>>,
  <<If(Less(HalfOf(Var("s"))), <<Set1("t", FloatLit(1))>>, <<While(Var("b"), <<Set1("s", Var("scale"))>>)>>), Set1("B", Var("turn"))>>,
  <<IVar("j"), IVar("k"), Assign(AtVar("v", <<"j">>), Times(AtVar("B", <<"j", "k">>), AtVar("v", <<"k">>)))>>,
  <<IVar("j"), Set1("s", Times(AtVar("v", <<"j">>), AtVar("v", <<"j">>)))>>, <<IVar("j"), Assign(AtVar("v", <<"j">>), HalfOf(AtVar("v", <<"j">>)))>>,
  <<IVar("j"), Declared1("t", <<>>, <<AtVar("v", <<"j">>)>>)>>, <<IVar("j"), Set1("s", Neg(Plus(AtVar("v", <<"j">>), FloatLit(1))))>>,
  <<Set1("v", Bin("LeftDivExpr", Var("B"), Var("v"))), Set1("sv", Bin("LeftDivExpr", Var("sA"), Var("sv")))>>,
  <<Set1("o", Call("lu", <<>>, <<Var("B")>>)), Set1("v", Call("lusolve", <<RangeSet(2), RangeSet(2)>>, <<Var("o"), Var("v")>>)), Do(Call("lufree", <<>>, <<Var("o")>>))>>,
  <<Set1("s", Call("dot", <<>>, <<Var("v"), Var("r")>>)), Set1("s", Call("norm", <<>>, <<Var("sv")>>))>>, <<Set1("s", Call("dot", <<>>, <<Var("v"), Var("w")>>))>>,
  <<Set1("v", Neg(FV(<<1, 2>>))), Set1("r", Un("TransposeExpr", Neg(FV(<<1, 2>>)))), Set1("A", Un("TransposeExpr", FM(<<<<1, 2>>, <<3, 4>>, <<5, 6>>>>)))>>,
  <<Declared1("t", <<FloatT>>, <<FloatLit(1)>>), Set1("t", Plus(Var("t"), Neg(Neg(FloatLit(2)))))>>, <<Declared1("t", <<Vector(RangeSet(2))>>, <<>>), Set1("t", Var("v"))>>,
  <<Declared1("t", <<IntT>>, <<FloatLit(1)>>)>>, <<Set1("t", Var("s")), Set1("t", Var("s"))>>, <<Set1("scale", FloatLit(1))>>,
  <<Set1("b", Bin("OrExpr", Less(Var("s")), Un("NotExpr", Var("b"))))>>, <<Set1("s", Var("unknown"))>>, <<Do(Call("unknown", <<>>, <<>>))>>,
  <<Set1("c", Call("createComplex", <<>>, <<Var("s"), HalfOf(Var("s"))>>)), Set1("s", Call("complexNorm", <<>>, <<Times(Var("c"), Var("c"))>>))>>,
  <<Set1("c", CL(<<1, 2>>)), Set1("c", Un("TransposeExpr", CL(<<3, -4>>))), Set1("x", Neg(CV(<<<<1, 2>>, <<0, -3>>>>))),
    Set1("y", Un("TransposeExpr", Neg(CV(<<<<1, 2>>, <<4, 0>>>>)))), Set1("z", Neg(CM(<<<<<<1, 2>>, <<3, 4>>>>, <<<<5, 6>>, <<7, 8>>>>>>)))>>}

MCPrograms ==
  LET statements == {Main(body) : body \in Bodies}
  IN  OneAssignment \union statements
===============================================================================
