------------------------------- MODULE IREmitter -------------------------------
(***************************************************************************)
(* The IR emitter (src/frontend/ir_emitter.cpp) with the builder           *)
(* (src/ir_builder.cpp), the nodes' own checks (src/ir.cpp) and the        *)
(* program context (src/program_context.h), as functions on a record       *)
(*   decls    the checked program                                          *)
(*   syms     the symbol table, name -> [type, var];  sets  the set        *)
(*            definitions that have an expression (setExprs)               *)
(*   stmts    the statements of the open scopes;  calls  the calls waiting *)
(*            for the statement their expression is part of                *)
(*   tmp      the number of temporaries;  funcs  name -> result types      *)
(*   elems, setElems   the element types, and the element of each set      *)
(*   ivars, indexVars, index   index variables, indexVarMap and            *)
(*            insideIndexExprAssignStmt;  bodies  the functions emitted    *)
(*   types    the type emitted at each expression                          *)
(*   aborts   the assertions that failed                                   *)
(* A tensor type is [k, comp, dims, col]; an expression its type, the node *)
(* it is, the variable it names and the temporaries it reads; a statement  *)
(* what it writes and reads and the blocks inside it.                      *)
(***************************************************************************)
EXTENDS TypeRules

RECURSIVE Emit(_, _, _)
RECURSIVE EmitStmt(_, _, _)
RECURSIVE emitType(_)

Tensor(comp, dims, col) == [k |-> "tensor", comp |-> comp, dims |-> dims, col |-> col]
UndefinedType == [k |-> "undefined"]

emitIndexSet(set) ==
  IF set.class \in SetRefs THEN set.data.setDef ELSE IF set.class = "RangeIndexSet" THEN <<"range", set.data.range>> ELSE <<"dynamic">>

\* emitType
emitType(n) ==
  LET block == emitType(K(n, "blockType"))
      dims == [i \in DOMAIN n.kids.indexSets |->
                 <<emitIndexSet(n.kids.indexSets[i])>> \o (IF block.dims = <<>> THEN <<>> ELSE block.dims[i])]
      element == K(n, "element").data.ident
  IN  CASE n.class = "ScalarType" -> Tensor(n.data.type, <<>>, FALSE)
        [] n.class = "NDTensorType" -> IF dims = <<>> THEN block ELSE Tensor(block.comp, dims, Len(dims) = 1 /\ ~n.data.transposed)
        [] n.class = "OpaqueType" -> [k |-> "opaque"]
        [] n.class = "ElementType" -> [k |-> "element", name |-> n.data.ident]
        [] n.class = "GridSetType" -> [k |-> "grid", name |-> element, ends |-> <<emitIndexSet(K(K(n, "underlyingPointSet"), "set"))>>]
        [] n.class \in SetTypes ->
             [k |-> "set", name |-> element, ends |-> [i \in DOMAIN Endpoints(n) |-> emitIndexSet(K(Endpoints(n)[i], "set"))]]
        [] n.class = "NamedTupleType" ->
             [k |-> "named", elems |-> [i \in DOMAIN n.kids.elems |->
                                          <<n.kids.elems[i].kids.name, K(n.kids.elems[i], "element").data.ident>>]]
        [] n.class = "UnnamedTupleType" -> [k |-> "unnamed", name |-> element, size |-> K(n, "length").data.val]
        [] OTHER -> UndefinedType

\* The sets and elements a type names.
SetsOf(n) == UNION {{x.data.setDef : x \in Nodes(n, c)} : c \in SetRefs}
ElementsOf(n) == {x.data.ident : x \in Nodes(n, "ElementType")}

\* operator== on types takes no account of the orientation of vectors.
Same(a, b) == IF a.k = "tensor" /\ b.k = "tensor" THEN a.comp = b.comp /\ a.dims = b.dims ELSE a = b

IROrder(t) == Len(t.dims)
ScalarIR(t) == t.k = "tensor" /\ t.dims = <<>>

\* TensorType::getBlockType: the dimensions nested most lose their outer set.
getBlockType(t) ==
  LET nest == {Len(t.dims[i]) : i \in DOMAIN t.dims}
      most == CHOOSE m \in nest : \A k \in nest : k <= m
  IN  IF t.dims = <<>> \/ Len(t.dims[1]) = 1 THEN Tensor(t.comp, <<>>, FALSE)
      ELSE Tensor(t.comp, [i \in DOMAIN t.dims |-> IF Len(t.dims[i]) = most THEN Tail(t.dims[i]) ELSE t.dims[i]], t.col)

Expr(op, type, var, temps) == [op |-> op, t |-> type, var |-> var, temps |-> temps]
Of(op, type, operands) == Expr(op, type, <<>>, UNION {operands[i].temps : i \in DOMAIN operands})

\* An assertion of the emitter.
Need(e, cond, what) == IF cond THEN e ELSE Abort(e, what)

-------------------------------------------------------------------------------
(* IRBuilder: tensor operations as index expressions.                      *)

unaryElwiseExpr(e, x) ==
  IF x.t.k # "tensor" THEN [e |-> Abort(e, "not a tensor"), x |-> x]
  ELSE [e |-> e, x |-> Of("index", x.t, <<x>>)]

binaryElwiseExpr(e, l, r) ==
  LET tensor == IF IROrder(l.t) > 0 THEN l ELSE r
      both == IROrder(l.t) > 0 /\ IROrder(r.t) > 0
  IN  [e |-> Need(e, l.t.comp = r.t.comp /\ (both => Same(l.t, r.t)), "operands"), x |-> Of("index", tensor.t, <<l, r>>)]

\* Inside an index expression the operands are scalars already.
binaryTensorElwiseExpr(e, l, r) ==
  [e |-> Need(e, ScalarIR(l.t) /\ Same(l.t, r.t), "index operands"), x |-> Of("scalar", l.t, <<l, r>>)]

\* Mutant: the result of a vector-matrix product is a column vector.
productsColumn(l, r) ==
  LET ld == l.t.dims
      rd == r.t.dims
      type(dims, col) == Tensor(l.t.comp, dims, col)
  IN  CASE <<Len(ld), Len(rd)>> = <<1, 1>> -> IF l.t.col THEN type(<<ld[1], ld[1]>>, FALSE) ELSE type(<<>>, FALSE)
        [] <<Len(ld), Len(rd)>> = <<2, 1>> -> type(<<ld[1]>>, TRUE)
        [] <<Len(ld), Len(rd)>> = <<1, 2>> -> type(<<rd[2]>>, TRUE)
        [] OTHER -> type(<<ld[1], rd[2]>>, FALSE)

\* outerProduct, innerProduct, gemv, gevm and gemm
products(l, r) ==
  LET ld == l.t.dims
      rd == r.t.dims
      type(dims, col) == Tensor(l.t.comp, dims, col)
  IN  CASE <<Len(ld), Len(rd)>> = <<1, 1>> -> IF l.t.col THEN type(<<ld[1], ld[1]>>, FALSE) ELSE type(<<>>, FALSE)
        [] <<Len(ld), Len(rd)>> = <<2, 1>> -> type(<<ld[1]>>, TRUE)
        [] <<Len(ld), Len(rd)>> = <<1, 2>> -> type(<<rd[2]>>, FALSE)
        [] OTHER -> type(<<ld[1], rd[2]>>, FALSE)

EmitMul(e, l, r) ==
  LET inner == IF Len(l.t.dims) = 2 THEN l.t.dims[2] ELSE l.t.dims[1]
  IN  CASE e.index -> binaryTensorElwiseExpr(e, l, r)
        [] ~e.index /\ (IROrder(l.t) > 2 \/ IROrder(r.t) > 2) -> [e |-> Abort(e, "order"), x |-> l]
        [] ~e.index /\ (IROrder(l.t) = 0 \/ IROrder(r.t) = 0) -> binaryElwiseExpr(e, l, r)
        [] OTHER -> [e |-> Need(e, inner = r.t.dims[1] /\ l.t.comp = r.t.comp, "product"), x |-> Of("index", products(l, r), <<l, r>>)]

\* IRBuilder::temporary
Temporary(e) == <<"tmp", e.tmp>>
Taken(e) == [e EXCEPT !.tmp = @ + 1]

-------------------------------------------------------------------------------
(* Statements and symbols.                                                 *)

\* subs: the blocks inside, each with the statements it repeats or guards.
Stmt(op, writes, reads, subs) == [op |-> op, writes |-> writes, reads |-> reads, subs |-> subs]

addStatement(e, s) ==
  IF e.stmts = <<>> THEN Abort(e, "no block") ELSE [e EXCEPT !.stmts[Len(e.stmts)] = Append(@, s)]

Open(e) == [e EXCEPT !.syms = Append(@, <<>>), !.stmts = Append(@, <<>>)]
Close(e) == [e EXCEPT !.syms = Front(@), !.stmts = Front(@)]

hasSymbol(e, name) == \E i \in DOMAIN e.syms : name \in DOMAIN e.syms[i]
getSymbol(e, name) ==
  LET inner == {i \in DOMAIN e.syms : name \in DOMAIN e.syms[i]}
  IN  e.syms[CHOOSE i \in inner : \A j \in inner : j <= i][name]
AddSymbol(e, name, type, var) == [e EXCEPT !.syms[Len(e.syms)] = (name :> [type |-> type, var |-> var]) @@ @]

\* getCallStmts, added ahead of the statement that needs them.
FlushCalls(e) ==
  IF e.calls = <<>> THEN e
  ELSE [addStatement(e, Stmt(<<"block">>, {}, {}, <<e.calls>>)) EXCEPT !.calls = <<>>]

VarOf(e, name) ==
  IF hasSymbol(e, name)
  THEN LET sym == getSymbol(e, name) IN Expr("var", sym.type, sym.var, IF sym.var[1] = "tmp" THEN {sym.var} ELSE {})
  ELSE Expr("var", UndefinedType, <<"new", name>>, {})

-------------------------------------------------------------------------------
(* Expressions.                                                            *)

EmitAll(e, cur, p, f) ==
  FoldLeft(LAMBDA acc, i : LET r == Emit(acc.e, cur, Child(p, f, i)) IN [e |-> r.e, xs |-> Append(acc.xs, r.x)],
           [e |-> e, xs |-> <<>>], [i \in DOMAIN At(e.decls[cur], p).kids[f] |-> i])

TempsOf(xs) == UNION {xs[i].temps : i \in DOMAIN xs}

\* A call or a map waits in calls, and its value is read from a temporary.
EmitCall(e, cur, p) ==
  LET n == At(e.decls[cur], p)
      name == K(n, "func").data.ident
      isMap == n.class # "CallExpr"
      args == EmitAll(e, cur, p, IF isMap THEN "partialActuals" ELSE "args")
      results == e.funcs[name]
      tmp == Temporary(args.e)
      stmt == Stmt(<<IF isMap THEN "map" ELSE "call", name>>, {tmp}, TempsOf(args.xs), <<>>)
      e1 == IF isMap THEN Need(args.e, hasSymbol(args.e, K(n, "target").data.setName), "target") ELSE args.e
  IN  IF name \notin DOMAIN e.funcs THEN [e |-> Abort(e, "no function"), x |-> Expr("var", UndefinedType, <<>>, {})]
      ELSE [e |-> [Taken(e1) EXCEPT !.calls = Append(@, stmt)],
            x |-> Expr("var", IF Len(results) = 1 THEN results[1] ELSE UndefinedType, tmp, {tmp})]

\* Ax = b: both operands are emitted a second time.
EmitLeftDiv(e, cur, p) ==
  LET once == EmitAll(EmitAll(e, cur, p, "lhs").e, cur, p, "rhs")
      a == Emit(once.e, cur, Child(p, "lhs", 1))
      b == Emit(a.e, cur, Child(p, "rhs", 1))
      tmp == Temporary(b.e)
      e1 == addStatement(Taken(b.e), Stmt(<<"decl">>, {}, {}, <<>>))
      ok == a.x.t.k = "tensor" /\ Len(a.x.t.dims) = 2
  IN  IF ~ok THEN [e |-> Abort(e1, "solve"), x |-> a.x]
      ELSE [e |-> [e1 EXCEPT !.calls = Append(@, Stmt(<<"solve">>, {tmp}, a.x.temps \union b.x.temps, <<>>))],
            x |-> Expr("var", Tensor(a.x.t.comp, <<a.x.t.dims[2]>>, TRUE), tmp, {tmp})]

EmitTranspose(e, x) ==
  CASE x.t.k # "tensor" -> [e |-> Abort(e, "not a tensor"), x |-> x]
    [] x.t.k = "tensor" /\ Len(x.t.dims) = 0 -> unaryElwiseExpr(e, x)
    [] x.t.k = "tensor" /\ Len(x.t.dims) = 1 -> [e |-> e, x |-> Of("index", [x.t EXCEPT !.col = ~@], <<x>>)]
    [] x.t.k = "tensor" /\ Len(x.t.dims) = 2 ->
         [e |-> e, x |-> Of("index", Tensor(x.t.comp, <<x.t.dims[2], x.t.dims[1]>>, FALSE), <<x>>)]
    [] OTHER -> [e |-> Abort(e, "order"), x |-> x]

\* isIVarExpr
isIVarExpr(e, index) ==
  /\ index.class = "ExprParam" /\ K(index, "expr").class = "VarExpr"
  /\ hasSymbol(e, K(index, "expr").data.ident) /\ getSymbol(e, K(index, "expr").data.ident).var \in e.ivars

EmitTensorRead(e, cur, p) ==
  LET n == At(e.decls[cur], p)
      base == Emit(e, cur, Child(p, "tensor", 1))
      t == base.x.t
      all == [i \in DOMAIN n.kids.indices |-> i]
      ivar(i) == isIVarExpr(base.e, n.kids.indices[i])
      name(i) == K(n.kids.indices[i], "expr").data.ident
      slice(i) == n.kids.indices[i].class = "Slice"
      args == FoldLeft(LAMBDA acc, i : IF slice(i) \/ ivar(i) THEN [acc EXCEPT !.xs = Append(@, Expr("none", UndefinedType, <<>>, {}))]
                                       ELSE LET r == Emit(acc.e, cur, Child(p, "indices", i)) IN [e |-> r.e, xs |-> Append(acc.xs, r.x)],
                       [e |-> base.e, xs |-> <<>>], all)
      ivars == SelectSeq(all, ivar)
      mapped == FoldLeft(LAMBDA m, i : IF name(i) \in DOMAIN m THEN m ELSE (name(i) :> t.dims[i]) @@ m, e.indexVars, ivars)
      fits == \A i \in DOMAIN ivars : mapped[name(ivars[i])] = t.dims[ivars[i]]
      kept == SelectSeq(all, slice)
      col == IF Len(t.dims) < 2 THEN getBlockType(t).col ELSE slice(Len(all) - 1)
      reads == <<base.x>> \o args.xs
      index(i) == ScalarIR(args.xs[i].t) \/ args.xs[i].t.k = "element"
  IN  CASE t.k # "tensor" -> [e |-> Abort(base.e, "not a tensor"), x |-> base.x]
        [] t.k = "tensor" /\ Len(all) # Len(t.dims) -> [e |-> Abort(base.e, "indices"), x |-> base.x]
        [] OTHER ->
             IF ivars # <<>>
             THEN [e |-> Need([args.e EXCEPT !.indexVars = mapped], fits, "index variable domain"),
                   x |-> [Of("indexed", Tensor(t.comp, <<>>, FALSE), reads) EXCEPT !.var = <<base.x.op, base.x.var, n>>]]
             ELSE IF kept # <<>>
             THEN [e |-> args.e, x |-> Of("index", Tensor(t.comp, [k \in DOMAIN kept |-> t.dims[kept[k]]], Len(kept) = 1 /\ col), reads)]
             ELSE [e |-> Need(args.e, \A i \in DOMAIN all : index(i), "index"), x |-> Of("read", getBlockType(t), reads)]

\* getFieldType: the field of a set has the set outside the field's dimensions.
getFieldType(e, x, field) ==
  LET ft == e.elems[x.t.name][field]
      dims == IF ft.dims = <<>> THEN <<<<x.var[2]>>>>
              ELSE [i \in DOMAIN ft.dims |-> IF i = 1 THEN <<x.var[2]>> \o ft.dims[1] ELSE ft.dims[i]]
  IN  IF x.t.k = "element" THEN ft ELSE Tensor(ft.comp, dims, ft.dims = <<>> \/ ft.col)

EmitFieldRead(e, x, field) ==
  LET ok == x.t.k \in {"element", "set", "grid"} /\ x.t.name \in DOMAIN e.elems /\ field \in DOMAIN e.elems[x.t.name]
  IN  IF ~ok THEN [e |-> Abort(e, "field"), x |-> x] ELSE [e |-> e, x |-> Of("field", getFieldType(e, x, field), <<x>>)]

emitDenseTensorLiteral(lit) ==
  LET t == getDenseTensorType(lit)
  IN  Expr("literal", Tensor(t.kind, Reverse([i \in DOMAIN t.dims |-> <<<<"range", t.dims[i]>>>>]), lit.data.transposed), <<>>, {})

\* Comparisons are chained over operands emitted once.
EmitEq(e, xs) ==
  [e |-> Need(e, \A i \in 1..Len(xs) - 1 : Same(xs[i].t, xs[i + 1].t), "comparison"), x |-> Of("scalar", Tensor("BOOL", <<>>, FALSE), xs)]

EmitRead(e, cur, p) ==
  LET n == At(e.decls[cur], p)
      one(f) == Emit(e, cur, Child(p, f, 1))
      element(name) == [k |-> "element", name |-> name]
  IN  CASE n.class = "SetReadExpr" ->
             LET s == one("set")
                 args == EmitAll(s.e, cur, p, "indices")
                 fits == IF s.x.t.k = "set" THEN s.x.t.ends = <<>> ELSE s.x.t.k = "grid"
             IN  IF s.x.t.k \notin {"set", "grid"} THEN [e |-> Abort(s.e, "set"), x |-> s.x]
                 ELSE [e |-> Need(args.e, fits /\ \A i \in DOMAIN args.xs : ScalarIR(args.xs[i].t), "set read"),
                       x |-> Of("setread", element(s.x.t.name), <<s.x>> \o args.xs)]
        [] n.class = "NamedTupleReadExpr" ->
             LET s == one("tuple")
                 found == SelectSeq(s.x.t.elems, LAMBDA el : el[1] = n.kids.elem)
             IN  IF s.x.t.k # "named" THEN [e |-> Abort(s.e, "tuple"), x |-> s.x]
                 ELSE [e |-> s.e, x |-> Of("tuple", element(found[1][2]), <<s.x>>)]
        [] n.class = "UnnamedTupleReadExpr" ->
             LET s == one("tuple")
                 i == Emit(s.e, cur, Child(p, "index", 1))
             IN  IF s.x.t.k # "unnamed" THEN [e |-> Abort(i.e, "tuple"), x |-> s.x]
                 ELSE [e |-> i.e, x |-> Of("tuple", element(s.x.t.name), <<s.x, i.x>>)]
        [] n.class = "FieldReadExpr" -> LET s == one("setOrElem") IN EmitFieldRead(s.e, s.x, K(n, "field").data.ident)

EmitOperator(e, cur, p) ==
  LET n == At(e.decls[cur], p)
      l == Emit(e, cur, Child(p, "lhs", 1))
      r == Emit(l.e, cur, Child(p, "rhs", 1))
      bool == Tensor("BOOL", <<>>, FALSE)
  IN  CASE n.class \in {"OrExpr", "AndExpr", "XorExpr"} ->
             [e |-> Need(r.e, l.x.t = bool /\ r.x.t = bool, "boolean"), x |-> Of("scalar", bool, <<l.x, r.x>>)]
        [] n.class \in Restarts \ {"MulExpr", "LeftDivExpr"} ->
             IF r.e.index THEN binaryTensorElwiseExpr(r.e, l.x, r.x) ELSE binaryElwiseExpr(r.e, l.x, r.x)
        [] n.class = "MulExpr" -> EmitMul(r.e, l.x, r.x)

EmitUnary(e, cur, p) ==
  LET n == At(e.decls[cur], p)
      x == Emit(e, cur, Child(p, "operand", 1))
      bool == Tensor("BOOL", <<>>, FALSE)
  IN  CASE n.class = "NotExpr" -> [e |-> Need(x.e, x.x.t = bool, "boolean"), x |-> Of("scalar", bool, <<x.x>>)]
        [] n.class = "TransposeExpr" -> EmitTranspose(x.e, x.x)
        [] n.class = "NegExpr" ->
             LET e1 == Need(x.e, x.x.op # "literal", "negated literal")
             IN  IF ~n.data.negate THEN [e |-> e1, x |-> x.x]
                 ELSE IF e1.index THEN [e |-> Need(e1, ScalarIR(x.x.t), "index operands"), x |-> Of("scalar", x.x.t, <<x.x>>)]
                 ELSE unaryElwiseExpr(e1, x.x)

EmitClass(e, cur, p) ==
  LET n == At(e.decls[cur], p)
      kind == [IntLiteral |-> "INT", FloatLiteral |-> "FLOAT", BoolLiteral |-> "BOOL", ComplexLiteral |-> "COMPLEX",
               StringLiteral |-> "STRING"]
  IN  CASE n.class \in {"OrExpr", "AndExpr", "XorExpr"} \union (Restarts \ {"LeftDivExpr"}) -> EmitOperator(e, cur, p)
        [] n.class \in {"NotExpr", "NegExpr", "TransposeExpr"} -> EmitUnary(e, cur, p)
        [] n.class = "LeftDivExpr" -> EmitLeftDiv(e, cur, p)
        [] n.class = "EqExpr" -> LET r == EmitAll(e, cur, p, "operands") IN EmitEq(r.e, r.xs)
        [] n.class \in {"CallExpr", "ReducedMapExpr", "UnreducedMapExpr"} -> EmitCall(e, cur, p)
        [] n.class = "TensorReadExpr" -> EmitTensorRead(e, cur, p)
        [] n.class \in {"ParenExpr", "ExprParam"} -> Emit(e, cur, Child(p, "expr", 1))
        [] n.class = "VarExpr" -> [e |-> e, x |-> VarOf(e, n.data.ident)]
        [] n.class \in DOMAIN kind -> [e |-> e, x |-> Expr("literal", Tensor(kind[n.class], <<>>, FALSE), <<>>, {})]
        [] n.class \in {"IntVectorLiteral", "FloatVectorLiteral", "ComplexVectorLiteral", "NDTensorLiteral"} ->
             [e |-> e, x |-> emitDenseTensorLiteral(n)]
        [] n.class \in {"SetReadExpr", "NamedTupleReadExpr", "UnnamedTupleReadExpr", "FieldReadExpr"} -> EmitRead(e, cur, p)
        [] OTHER -> [e |-> Abort(e, "not supported"), x |-> Expr("none", UndefinedType, <<>>, {})]

\* emitExpr
Emit(e, cur, p) ==
  LET r == EmitClass(e, cur, p) IN [r EXCEPT !.e.types = (<<cur, p>> :> r.x.t) @@ @]

-------------------------------------------------------------------------------
(* Statements.                                                             *)

NeedType(e, n) == Need(e, SetsOf(n) \subseteq e.sets /\ ElementsOf(n) \subseteq DOMAIN e.elems, "type")

\* A block in a scope of its own: its statements are those of the scope.
EmitBlock(e, cur, p) ==
  LET r == EmitStmt(Open(e), cur, p) IN [e |-> Close(r), body |-> Last(r.stmts)]

Temps(vars) == {v \in vars : v[1] = "tmp"}

\* The variable an assignment writes, declared if it is new.
Target(e, x, type) ==
  IF x.var[1] # "new" THEN [e |-> e, var |-> x.var, type |-> x.t]
  ELSE [e |-> AddSymbol(e, x.var[2], type, <<"var", x.var[2]>>), var |-> <<"var", x.var[2]>>, type |-> type]

\* A call or map that is the whole right-hand side stores into the variables
\* assigned, and into temporaries for the other targets, copied afterwards.
AssignCall(e, lhs, call) ==
  LET values == e.funcs[call.op[2]]
      results == FoldLeft(LAMBDA acc, i :
                   LET old == Target(acc.e, lhs[i], values[i])
                   IN  IF i \in DOMAIN lhs /\ lhs[i].op = "var"
                       THEN [e |-> old.e, vars |-> Append(acc.vars, old.var), types |-> Append(acc.types, old.type)]
                       ELSE [e |-> addStatement(Taken(acc.e), Stmt(<<"decl">>, {}, {}, <<>>)),
                             vars |-> Append(acc.vars, Temporary(acc.e)), types |-> Append(acc.types, values[i])],
                   [e |-> e, vars |-> <<>>, types |-> <<>>], [i \in DOMAIN values |-> i])
      copied(i) == results.types[i].k \in {"tensor", "opaque"}
      called == addStatement(results.e, [call EXCEPT !.writes = Range(results.vars)])
  IN  IF Len(lhs) > Len(values) THEN Abort(e, "results")
      ELSE FoldLeft(LAMBDA acc, i :
             IF lhs[i].op \in {"field", "read"}
             THEN addStatement(acc, Stmt(<<"write">>, {}, {results.vars[i]} \union lhs[i].temps, <<>>)) ELSE acc,
             Need(called, \A i \in DOMAIN lhs : copied(i), "copy"), [i \in DOMAIN lhs |-> i])

AssignValue(e, l, x) ==
  LET value == IF x.op = "index" \/ ScalarIR(x.t) THEN [e |-> e, x |-> x] ELSE unaryElwiseExpr(e, x)
      target == Target(value.e, l, value.x.t)
      indexed == Target(value.e, [l EXCEPT !.var = l.var[2]], value.x.t)
  IN  CASE l.op \in {"field", "read"} -> addStatement(value.e, Stmt(<<"write">>, {}, x.temps \union l.temps, <<>>))
        [] l.op = "indexed" ->
             IF l.var[1] # "var" THEN Abort(value.e, "indexed target")
             ELSE addStatement(Need(indexed.e, ScalarIR(value.x.t), "index value"),
                               Stmt(<<"assign">>, {indexed.var}, x.temps \union l.temps, <<>>))
        [] l.op = "var" -> addStatement(target.e, Stmt(<<"assign">>, {target.var}, x.temps, <<>>))
        [] OTHER -> Abort(e, "target")

addAssign(e, lhs, x) ==
  LET call == Last(e.calls)
      top == x.op = "var" /\ e.calls # <<>> /\ call.op[1] # "solve" /\ x.var \in call.writes
      flushed == FlushCalls(IF top THEN [e EXCEPT !.calls = Front(@)] ELSE e)
  IN  CASE top -> AssignCall(flushed, lhs, call)
        [] ~top /\ Len(lhs) = 1 -> AssignValue(flushed, lhs[1], x)
        [] OTHER -> Need(flushed, lhs = <<>>, "targets")

\* HasIndexExpr: an index variable indexes a tensor, the outermost ones only.
RECURSIVE hasIndexExpr(_, _)
hasIndexExpr(e, n) ==
  IF n.class = "TensorReadExpr" THEN \E i \in DOMAIN n.kids.indices : isIVarExpr(e, n.kids.indices[i])
  ELSE \E f \in DOMAIN n.kids : \E i \in DOMAIN n.kids[f] : hasIndexExpr(e, n.kids[f][i])

EmitAssign(e, cur, p) ==
  LET n == At(e.decls[cur], p)
      has == hasIndexExpr(e, n)
      lhs == EmitAll([e EXCEPT !.indexVars = <<>>, !.index = has], cur, p, "lhs")
      x == Emit(lhs.e, cur, Child(p, "expr", 1))
      reduced == has /\ lhs.xs[1].op # "indexed"
      value == IF reduced THEN Of("index", x.x.t, <<x.x>>) ELSE x.x
  IN  addAssign([Need(x.e, reduced => ScalarIR(x.x.t), "index value") EXCEPT !.index = FALSE], lhs.xs, value)

addVarOrConst(e, cur, p) ==
  LET n == At(e.decls[cur], p)
      name == K(n, "name").data.ident
      init == EmitAll(e, cur, p, "initVal")
      type == IF n.kids.type # <<>> THEN emitType(K(n, "type")) ELSE init.xs[1].t
      typed == IF n.kids.type # <<>> THEN NeedType(init.e, K(n, "type")) ELSE init.e
      e1 == AddSymbol(typed, name, type, <<"var", name>>)
      constant == /\ n.class = "ConstDecl" /\ init.xs[1].op = "literal"
                  /\ ScalarIR(type) \/ ~ScalarIR(init.xs[1].t)
      e2 == addStatement(e1, Stmt(<<"decl">>, {}, {}, <<>>))
  IN  IF constant THEN e1
      ELSE IF init.xs = <<>> THEN Need(e2, n.class # "ConstDecl", "constant")
      ELSE [addAssign(e2, <<Expr("var", type, <<"var", name>>, {})>>, init.xs[1]) EXCEPT !.calls = <<>>]

\* Mutant: the calls of a condition run before the loop only.
addWhileOnce(e, cur, p, isDoWhile) ==
  LET cond == Emit(e, cur, Child(p, "cond", 1))
      calls == cond.e.calls
      block == EmitBlock([cond.e EXCEPT !.calls = <<>>], cur, Child(p, "body", 1))
      once == IF isDoWhile THEN addStatement(block.e, Stmt(<<"block">>, {}, {}, <<block.body>>)) ELSE block.e
      before == FlushCalls([once EXCEPT !.calls = calls])
  IN  addStatement(before, Stmt(<<"while">>, {}, cond.x.temps, <<block.body>>))

\* The calls of a condition run before the loop and at the end of its body.
addWhileOrDoWhile(e, cur, p, isDoWhile) ==
  LET cond == Emit(e, cur, Child(p, "cond", 1))
      calls == cond.e.calls
      block == EmitBlock([cond.e EXCEPT !.calls = <<>>], cur, Child(p, "body", 1))
      once == IF isDoWhile THEN addStatement(block.e, Stmt(<<"block">>, {}, {}, <<block.body>>)) ELSE block.e
      before == FlushCalls([once EXCEPT !.calls = calls])
  IN  addStatement(before, Stmt(<<"while">>, {}, cond.x.temps, <<block.body \o calls>>))

EmitIf(e, cur, p) ==
  LET n == At(e.decls[cur], p)
      cond == Emit(e, cur, Child(p, "cond", 1))
      then == EmitBlock([cond.e EXCEPT !.calls = <<>>], cur, Child(p, "ifBody", 1))
      else == IF n.kids.elseBody = <<>> THEN [e |-> then.e, body |-> <<>>] ELSE EmitBlock(then.e, cur, Child(p, "elseBody", 1))
  IN  addStatement(FlushCalls([else.e EXCEPT !.calls = cond.e.calls]), Stmt(<<"if">>, {}, cond.x.temps, <<then.body, else.body>>))

\* RangeDomain
EmitBounds(e, cur, p) ==
  LET lower == Emit(e, cur, Child(p, "lower", 1))
      upper == Emit(FlushCalls(lower.e), cur, Child(p, "upper", 1))
  IN  [e |-> FlushCalls(upper.e), temps |-> lower.x.temps \union upper.x.temps]

\* The scope of the body is open when the domain is emitted.
EmitFor(e, cur, p) ==
  LET n == At(e.decls[cur], p)
      var == K(n, "loopVar").data.ident
      d == K(n, "domain")
      range == d.class = "RangeDomain"
      bounds == IF range THEN EmitBounds(Open(e), cur, Child(p, "domain", 1)) ELSE [e |-> NeedType(Open(e), d), temps |-> {}]
      type == IF range THEN Tensor("INT", <<>>, FALSE) ELSE [k |-> "element", name |-> e.setElems[K(d, "set").data.setDef]]
      body == EmitStmt(AddSymbol(bounds.e, var, type, <<"var", var>>), cur, Child(p, "body", 1))
  IN  addStatement(Close(body), Stmt(<<"for">>, {}, bounds.temps, <<Last(body.stmts)>>))

EmitStmt(e, cur, p) ==
  LET n == At(e.decls[cur], p)
      each(f) == [i \in DOMAIN n.kids[f] |-> i]
      print(acc, x) == addStatement(FlushCalls(acc), Stmt(<<"print">>, {}, x.temps, <<>>))
  IN  CASE n.class = "StmtBlock" -> FoldLeft(LAMBDA acc, i : EmitStmt(acc, cur, Child(p, "stmts", i)), e, each("stmts"))
        [] n.class \in {"VarDecl", "ConstDecl"} -> addVarOrConst(e, cur, p)
        [] n.class = "IVarDecl" ->
             [AddSymbol(e, K(n, "name").data.ident, UndefinedType, <<"ivar", cur, p>>) EXCEPT !.ivars = @ \union {<<"ivar", cur, p>>}]
        [] n.class \in {"WhileStmt", "DoWhileStmt"} -> addWhileOrDoWhile(e, cur, p, n.class = "DoWhileStmt")
        [] n.class = "IfStmt" -> EmitIf(e, cur, p)
        [] n.class = "ForStmt" -> EmitFor(e, cur, p)
        [] n.class = "PrintStmt" ->
             FoldLeft(LAMBDA acc, i : LET r == Emit(acc, cur, Child(p, "args", i)) IN print(r.e, r.x), e, each("args"))
        [] n.class = "AssignStmt" -> EmitAssign(e, cur, p)
        [] n.class = "ExprStmt" -> LET r == Emit(e, cur, Child(p, "expr", 1)) IN addAssign(r.e, <<>>, r.x)
        [] n.class = "ApplyStmt" -> LET r == Emit(e, cur, Child(p, "map", 1)) IN addAssign(r.e, <<>>, r.x)

-------------------------------------------------------------------------------
(* The elements of the program.                                            *)

\* Arguments and results get a symbol, and sets their expression.
EmitVar(e, cur, n) ==
  LET name == K(n, "name").data.ident
      type == K(n, "type")
      isSet == type.class \in SetTypes
      e1 == AddSymbol(NeedType(e, type), name, emitType(type), IF isSet THEN <<"set", <<cur, name>>>> ELSE <<"var", name>>)
  IN  IF isSet THEN [e1 EXCEPT !.sets = @ \union {<<cur, name>>}, !.setElems = (<<cur, name>> :> K(type, "element").data.ident) @@ @]
      ELSE e1

EmitFunc(e, cur) ==
  LET n == e.decls[cur]
      name == K(n, "name").data.ident
      vars == FoldLeft(LAMBDA acc, v : EmitVar(acc, cur, v), Open(e), n.kids.args \o n.kids.results)
      body == IF n.kids.body = <<>> THEN vars ELSE EmitStmt(vars, cur, Child(<<>>, "body", 1))
      results == [i \in DOMAIN n.kids.results |-> emitType(K(n.kids.results[i], "type"))]
      e1 == Need(Close(body), name \notin DOMAIN e.funcs, "function")
  IN  IF n.kids.genericParams # <<>> THEN e
      ELSE [e1 EXCEPT !.funcs = (name :> results) @@ @, !.bodies = (name :> Last(body.stmts)) @@ @]

EmitElement(e, cur) ==
  LET n == e.decls[cur]
      name == K(n, "name").data.ident
      field(i) == K(n.kids.fields[i], "name").data.ident
      fields == [f \in {field(i) : i \in DOMAIN n.kids.fields} |->
                   emitType(K(n.kids.fields[CHOOSE i \in DOMAIN n.kids.fields : field(i) = f], "type"))]
  IN  CASE n.class = "ElementTypeDecl" -> [Need(e, name \notin DOMAIN e.elems, "element") EXCEPT !.elems = (name :> fields) @@ @]
        [] n.class = "ExternDecl" -> EmitVar(e, cur, n)
        [] n.class = "ConstDecl" -> addVarOrConst(e, cur, <<>>)
        [] n.class = "FuncDecl" -> EmitFunc(e, cur)
        [] n.class = "Test" -> LET r == EmitAll(EmitAll(e, cur, <<>>, "args").e, cur, <<>>, "expected")
                               IN  Need(r.e, r.e.calls = <<>>, "test")
===============================================================================
