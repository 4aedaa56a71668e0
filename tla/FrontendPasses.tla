---------------------------- MODULE FrontendPasses -----------------------------
(***************************************************************************)
(* The front end's intrinsics (src/frontend/fir_intrinsics.cpp) and its    *)
(* passes before cloning: constant folding (const_fold.cpp), the check of  *)
(* constants (const_checker.cpp) and the inference of element sources      *)
(* (infer_element_sources.cpp), as functions on trees.                     *)
(***************************************************************************)
EXTENDS IREmitter

-------------------------------------------------------------------------------
(* Intrinsics.                                                             *)

Vector(set) == NDTensor(<<set>>, Scalar("FLOAT"), FALSE)
Matrix(rows, cols) == NDTensor(<<rows, cols>>, Scalar("FLOAT"), FALSE)
Parameter(name) == Node("GenericIndexSet", <<>>, [setName |-> name, type |-> "UNKNOWN"])
Opaque == Node("OpaqueType", <<>>, <<>>)

Ident(name) == Node("Identifier", <<>>, [ident |-> name])
ArgNames == <<"a1", "a2", "a3", "a4">>
ResultNames == <<"r1">>

\* addIntrinsic; an argument without a type takes any.
Intrinsic(name, args, results, params) ==
  LET named(class, names, types) == [i \in DOMAIN types |-> Node(class, [name |-> <<Ident(names[i])>>, type |-> types[i]], <<>>)]
      each(types) == [i \in DOMAIN types |-> <<types[i]>>]
      param(p) == Node("GenericParam", <<>>, [name |-> p, type |-> "UNKNOWN"])
  IN  Node("FuncDecl", [name |-> <<Ident(name)>>, genericParams |-> [i \in DOMAIN params |-> param(params[i])],
                        args |-> named("Argument", ArgNames, args),
                        results |-> named("IdentDecl", ResultNames, each(results))], [type |-> "EXTERNAL"])

IntrinsicNames ==
  {"mod", "sin", "cos", "tan", "asin", "acos", "atan2", "sqrt", "cbrt", "abs", "max", "min", "log", "exp", "pow", "clock",
   "storeTime", "det", "det2", "det4", "inv", "inv2", "inv4", "cross", "norm", "dot", "lu", "lufree", "lusolve", "lumatsolve",
   "chol", "cholfree", "lltsolve", "lltmatsolve", "triangularSolve", "createComplex", "complexNorm", "complexGetReal",
   "complexGetImag", "complexConj"}

\* createIntrinsics
intrinsics ==
  LET float == Scalar("FLOAT")
      complex == Scalar("COMPLEX")
      n == Parameter("N")
      m == Parameter("M")
      k == Parameter("K")
      square(s) == Matrix(RangeSet(s), RangeSet(s))
      three == Vector(RangeSet(3))
      fixed(name, args, results) == Intrinsic(name, [i \in DOMAIN args |-> <<args[i]>>], results, <<>>)
      generic(name, args, results, params) == Intrinsic(name, [i \in DOMAIN args |-> <<args[i]>>], results, params)
      created(name) ==
        CASE name = "mod" -> fixed(name, <<Scalar("INT"), Scalar("INT")>>, <<Scalar("INT")>>)
          [] name \in {"sin", "cos", "tan", "asin", "acos", "sqrt", "cbrt", "abs", "log", "exp"} -> fixed(name, <<float>>, <<float>>)
          [] name \in {"atan2", "max", "min", "pow"} -> fixed(name, <<float, float>>, <<float>>)
          [] name = "clock" -> fixed(name, <<>>, <<float>>)
          [] name = "storeTime" -> fixed(name, <<Scalar("INT"), float>>, <<float>>)
          [] name = "det" -> fixed(name, <<square(3)>>, <<float>>)
          [] name = "det2" -> fixed(name, <<square(2)>>, <<float>>)
          [] name = "det4" -> fixed(name, <<square(4)>>, <<float>>)
          [] name = "inv" -> fixed(name, <<square(3)>>, <<square(3)>>)
          [] name = "inv2" -> fixed(name, <<square(2)>>, <<square(2)>>)
          [] name = "inv4" -> fixed(name, <<square(4)>>, <<square(4)>>)
          [] name = "cross" -> fixed(name, <<three, three>>, <<three>>)
          [] name = "norm" -> Intrinsic(name, <<<<>>>>, <<float>>, <<>>)
          [] name = "dot" -> Intrinsic(name, <<<<>>, <<>>>>, <<float>>, <<>>)
          [] name \in {"lu", "chol"} -> generic(name, <<Matrix(n, n)>>, <<Opaque>>, <<"N">>)
          [] name \in {"lufree", "cholfree"} -> fixed(name, <<Opaque>>, <<>>)
          [] name \in {"lusolve", "lltsolve"} -> generic(name, <<Opaque, Vector(n)>>, <<Vector(m)>>, <<"N", "M">>)
          [] name \in {"lumatsolve", "lltmatsolve"} -> generic(name, <<Opaque, Matrix(n, m)>>, <<Matrix(k, m)>>, <<"N", "M", "K">>)
          [] name = "triangularSolve" -> generic(name, <<Matrix(n, m), Vector(n)>>, <<Vector(m)>>, <<"N", "M">>)
          [] name = "createComplex" -> fixed(name, <<float, float>>, <<complex>>)
          [] name \in {"complexNorm", "complexGetReal", "complexGetImag"} -> fixed(name, <<complex>>, <<float>>)
          [] name = "complexConj" -> fixed(name, <<complex>>, <<complex>>)
  IN  [name \in IntrinsicNames |-> created(name)]

-------------------------------------------------------------------------------
(* ConstantFolding.                                                        *)

VectorLiterals == {"IntVectorLiteral", "FloatVectorLiteral", "ComplexVectorLiteral"}
DenseLiterals == VectorLiterals \union {"NDTensorLiteral"}
ComplexParts(v) == <<-v[1], -v[2]>>

RECURSIVE Negated(_)
Negated(lit) ==
  CASE lit.class \in {"IntLiteral", "FloatLiteral"} -> [lit EXCEPT !.data.val = -@]
    [] lit.class = "ComplexLiteral" -> [lit EXCEPT !.data.val = ComplexParts(@)]
    [] lit.class \in {"IntVectorLiteral", "FloatVectorLiteral"} -> [lit EXCEPT !.data.vals = [i \in DOMAIN @ |-> -@[i]]]
    [] lit.class = "ComplexVectorLiteral" -> [lit EXCEPT !.data.vals = [i \in DOMAIN @ |-> ComplexParts(@[i])]]
    [] OTHER -> [lit EXCEPT !.kids.elems = [i \in DOMAIN @ |-> Negated(@[i])]]

\* A negated complex literal is negated and keeps its negation.
FoldNeg(n) ==
  LET operand == K(n, "operand")
      value == IF n.data.negate THEN Negated(operand) ELSE operand
  IN  CASE operand.class \in {"IntLiteral", "FloatLiteral"} \union DenseLiterals -> value
        [] operand.class = "ComplexLiteral" -> [n EXCEPT !.kids.operand = <<value>>]
        [] OTHER -> n

\* Mutant: the transposition of a matrix literal is dropped too.
FoldTransposeAll(n) ==
  LET operand == K(n, "operand")
  IN  CASE operand.class \in {"IntLiteral", "FloatLiteral", "ComplexLiteral"} -> operand
        [] operand.class \in VectorLiterals -> [operand EXCEPT !.data.transposed = ~@]
        [] operand.class = "NDTensorLiteral" -> operand
        [] OTHER -> n

FoldTranspose(n) ==
  LET operand == K(n, "operand")
  IN  CASE operand.class \in {"IntLiteral", "FloatLiteral", "ComplexLiteral"} -> operand
        [] operand.class \in VectorLiterals -> [operand EXCEPT !.data.transposed = ~@]
        [] OTHER -> n

RECURSIVE Folded(_)
Folded(n) ==
  LET below == [n EXCEPT !.kids = [f \in DOMAIN n.kids |->
                  IF f \in Rewrites(n.class) THEN [i \in DOMAIN n.kids[f] |-> Folded(n.kids[f][i])] ELSE n.kids[f]]]
  IN  CASE n.class = "NegExpr" -> FoldNeg(below) [] n.class = "TransposeExpr" -> FoldTranspose(below) [] OTHER -> below

-------------------------------------------------------------------------------
(* InferElementSources: an element that indexes a dimension comes from the *)
(* dimension's set.  d maps names to the places of their types, scope by   *)
(* scope; <<>> for names without one.                                      *)

RECURSIVE Sources(_, _, _, _)

\* The place of the element type an index of n has, if a declaration says so.
IndexElement(d, all, idx) ==
  LET isTuple == idx.class \in {"NamedTupleReadExpr", "UnnamedTupleReadExpr"}
      var == IF isTuple THEN K(idx, "tuple") ELSE idx
      place == Lookup(d, var.data.ident)
      type == At(all[place[1]], place[2])
      named == {i \in DOMAIN type.kids.elems : K(type.kids.elems[i], "name") = K(idx, "elem")}
      step(p) == <<place[1], place[2] \o p>>
  IN  IF (~isTuple /\ idx.class # "VarExpr") \/ var.class # "VarExpr" THEN <<>>
      ELSE IF place = <<>> THEN <<>>
      ELSE CASE type.class = "ElementType" -> place
             [] type.class = "NamedTupleType" /\ idx.class = "NamedTupleReadExpr" ->
                  IF named = {} THEN <<>> ELSE step(<<<<"elems", CHOOSE i \in named : TRUE>>, <<"element", 1>>>>)
             [] type.class = "UnnamedTupleType" -> step(<<<<"element", 1>>>>)
             [] OTHER -> <<>>

SourceOf(d, all, n) ==
  LET base == K(n, "tensor")
      place == Lookup(d, base.data.ident)
      type == At(all[place[1]], place[2])
      fix(st, i) ==
        LET at == IndexElement(d, st, K(n.kids.indices[i], "expr"))
            elem == At(st[at[1]], at[2])
            set == type.kids.indexSets[i]
        IN  IF n.kids.indices[i].class # "ExprParam" THEN st
            ELSE IF at = <<>> THEN st
            ELSE IF elem.data.source # <<>> \/ set.class \notin SetRefs THEN st
            ELSE [st EXCEPT ![at[1]] = Put(@, at[2], [elem EXCEPT !.data.source = <<set>>])]
      known == base.class = "VarExpr"
  IN  IF ~known THEN all
      ELSE IF place = <<>> THEN all
      ELSE IF type.class # "NDTensorType" THEN all
      ELSE FoldLeft(fix, all, [i \in 1..(IF Len(type.kids.indexSets) < Len(n.kids.indices) THEN Len(type.kids.indexSets)
                                         ELSE Len(n.kids.indices)) |-> i])

Sources(d, all, cur, p) ==
  LET n == At(all[cur], p)
      name == K(n, "name").data.ident
      visit(acc, f) == FoldLeft(LAMBDA a, i : Sources(a.d, a.all, cur, Child(p, f, i)), acc, [i \in DOMAIN n.kids[f] |-> i])
      visitAll(acc, fields) == FoldLeft(visit, acc, fields)
      scoped(acc, f) == IF n.kids[f] = <<>> THEN acc
                        ELSE LET r == visit([acc EXCEPT !.d = Append(@, <<>>)], f) IN [r EXCEPT !.d = Front(@)]
      here == [d |-> d, all |-> all]
      close(acc) == [acc EXCEPT !.d = Front(@)]
  IN  CASE n.class \in {"IdentDecl", "Argument", "InOutArgument", "ExternDecl", "FieldDecl"} ->
             [here EXCEPT !.d = Bind(d, name, <<cur, Child(p, "type", 1)>>)]
        [] n.class \in {"VarDecl", "ConstDecl"} -> [here EXCEPT !.d = Bind(d, name, <<>>)]
        [] n.class = "FuncDecl" ->
             LET params == [x \in {n.kids.genericParams[i].data.name : i \in DOMAIN n.kids.genericParams} |-> <<>>]
             IN  close(visitAll([here EXCEPT !.d = Append(@, params)], Visits("FuncDecl")))
        [] n.class \in {"WhileStmt", "DoWhileStmt"} -> scoped(visit(here, "cond"), "body")
        [] n.class = "IfStmt" -> scoped(scoped(visit(here, "cond"), "ifBody"), "elseBody")
        [] n.class = "ForStmt" -> close(visit([here EXCEPT !.d = Append(@, (K(n, "loopVar").data.ident :> <<>>))], "body"))
        [] n.class = "AssignStmt" ->
             LET r == visitAll(here, <<"expr", "lhs">>)
             IN  [r EXCEPT !.d = FoldLeft(LAMBDA dd, l : IF l.class = "VarExpr" /\ ~Found(dd, l.data.ident)
                                                        THEN Bind(dd, l.data.ident, <<>>) ELSE dd, @, n.kids.lhs)]
        [] n.class = "TensorReadExpr" -> LET r == visitAll(here, Visits(n.class)) IN [r EXCEPT !.all = SourceOf(r.d, r.all, n)]
        [] OTHER -> visitAll(here, Visits(n.class))

infer(ids, all) ==
  FoldLeft(LAMBDA acc, id : Sources(acc.d, acc.all, id, <<>>), [d |-> <<<<>>>>, all |-> all], ids).all

-------------------------------------------------------------------------------
(* ConstChecker.                                                           *)

TensorLiterals == {"IntLiteral", "FloatLiteral", "BoolLiteral", "ComplexLiteral", "StringLiteral"} \union DenseLiterals

NotLiteral(n) ==
  \/ n.class = "ConstDecl" /\ K(n, "initVal").class \notin TensorLiterals
  \/ n.class = "Test" /\ \E i \in DOMAIN (n.kids.args \o n.kids.expected) : (n.kids.args \o n.kids.expected)[i].class \notin TensorLiterals
===============================================================================
