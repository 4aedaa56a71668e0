------------------------------- MODULE TypeRules -------------------------------
(***************************************************************************)
(* The rules of the type checker (src/frontend/type_checker.cpp): what     *)
(* each visit method does with the checker's state.  Infer(s, cur, p) is   *)
(* inferType of the expression at path p of element cur, Visit what        *)
(* typeCheck visits, Check typeCheck itself, which keeps the caller's      *)
(* verdict.                                                                *)
(***************************************************************************)
EXTENDS TypeChecker

RECURSIVE Infer(_, _, _)
RECURSIVE Visit(_, _, _)

When(cond, what) == IF cond THEN {what} ELSE {}

\* reportError, once for each kind of error.
Report(s, errs) == IF errs = {} THEN s ELSE [s EXCEPT !.errors = @ \union errs, !.ok = FALSE]

NoValue == Undef(NONE)
Verdict(errs, t) == [errs |-> errs, t |-> t]

-------------------------------------------------------------------------------
(* Operators, as verdicts on the types of their operands.                  *)

NotNumeric(t) == t.def /\ ~IsNumericTensor(t)
NotScalarOf(t, kind) == t.def /\ ~IsScalarOf(t, kind)

typeCheckBinaryElwise(s, allowString, l, r) ==
  LET wrong(t) == NotNumeric(t) /\ ~(allowString /\ IsScalarOf(t, "STRING"))
      lt == l.types[1]
      rt == r.types[1]
      compatible == IF Order(lt) = 0 \/ Order(rt) = 0 THEN getComponentType(lt) = getComponentType(rt)
                    ELSE compareTypes(s, lt, rt, FALSE)
  IN  CASE wrong(l) \/ wrong(r) -> Verdict({"operand"}, NoValue)
        [] ~l.def \/ ~r.def -> Verdict({}, NoValue)
        [] ~compatible -> Verdict({"elementwise"}, NoValue)
        [] OTHER -> Verdict({}, Value(IF Order(lt) > 0 THEN lt ELSE rt))

\* Mutant: a row vector times a column vector of another length.
MulTypeUnchecked(s, l, r) ==
  LET lt == l.types[1]
      rt == r.types[1]
  IN  IF NotNumeric(l) \/ NotNumeric(r) THEN Verdict({"operand"}, NoValue)
      ELSE IF ~l.def \/ ~r.def THEN Verdict({}, NoValue)
      ELSE Verdict({}, Value(IF Order(lt) > 0 THEN lt ELSE rt))

MulType(s, l, r) ==
  LET lt == l.types[1]
      rt == r.types[1]
      ld == getDimensions(lt)
      rd == getDimensions(rt)
      orders == <<Len(ld), Len(rd)>>
      lrow == getTransposed(lt)
      rrow == getTransposed(rt)
      comp == getComponentType(lt)
      inner == IF Len(ld) = 2 THEN ld[2] ELSE ld[1]
      product(dims, row) == Value(makeTensorType(comp, dims, row))
  IN  CASE NotNumeric(l) \/ NotNumeric(r) -> Verdict({"operand"}, NoValue)
        [] ~l.def \/ ~r.def -> Verdict({}, NoValue)
        [] comp # getComponentType(rt) -> Verdict({"component"}, NoValue)
        [] Len(ld) = 0 \/ Len(rd) = 0 -> Verdict({}, Value(IF Len(ld) > 0 THEN lt ELSE rt))
        [] Len(ld) > 2 \/ Len(rd) > 2 -> Verdict({"order"}, NoValue)
        [] orders = <<1, 1>> /\ lrow = rrow -> Verdict({"vectors"}, NoValue)
        [] ~compareDomains(s, inner, rd[1]) -> Verdict({"dimensions"}, NoValue)
        [] orders = <<1, 1>> -> Verdict({}, product(IF lrow THEN <<>> ELSE <<ld[1], rd[1]>>, FALSE))
        [] orders = <<2, 1>> -> Verdict(When(rrow, "row vector"), product(<<ld[1]>>, FALSE))
        [] orders = <<1, 2>> -> Verdict(When(~lrow, "column vector"), product(<<rd[2]>>, TRUE))
        [] orders = <<2, 2>> -> Verdict({}, product(<<ld[1], rd[2]>>, FALSE))

\* Neither division takes index expressions.
DivType(s, l, r) ==
  LET lt == l.types[1]
      rt == r.types[1]
      index == When(s.has, "index expression")
  IN  CASE NotNumeric(l) \/ NotNumeric(r) -> Verdict({"operand"} \union index, NoValue)
        [] ~l.def \/ ~r.def \/ s.has -> Verdict(index, NoValue)
        [] getComponentType(lt) # getComponentType(rt) -> Verdict({"component"}, NoValue)
        [] Order(lt) > 0 /\ Order(rt) > 0 -> Verdict({"division"}, NoValue)
        [] OTHER -> Verdict({}, Value(IF Order(lt) > 0 THEN lt ELSE rt))

LeftDivType(s, l, r) ==
  LET lt == l.types[1]
      rt == r.types[1]
      ld == getDimensions(lt)
      rd == getDimensions(rt)
      index == When(s.has, "index expression")
      shape == When(getComponentType(lt) # getComponentType(rt), "component") \union When(Len(ld) # 2, "matrix")
               \union When(Len(rd) # 1 \/ getTransposed(rt), "column vector")
  IN  CASE NotNumeric(l) \/ NotNumeric(r) -> Verdict({"operand"} \union index, NoValue)
        [] ~l.def \/ ~r.def \/ s.has -> Verdict(index, NoValue)
        [] shape # {} -> Verdict(shape, NoValue)
        [] ~compareDomains(s, ld[1], rd[1]) -> Verdict({"dimensions"}, NoValue)
        [] OTHER -> Verdict({}, Value(makeTensorType(getComponentType(lt), <<ld[2]>>, FALSE)))

typeCheckBinaryBoolean(s, l, r) ==
  Verdict(When(NotScalarOf(l, "BOOL") \/ NotScalarOf(r, "BOOL"), "boolean"), Value(Scalar("BOOL")))

NegType(t) ==
  IF ~t.def THEN Verdict({}, NoValue) ELSE IF NotNumeric(t) THEN Verdict({"operand"}, NoValue) ELSE Verdict({}, Value(t.types[1]))

TransposeType(t) ==
  LET type == t.types[1]
      d == getDimensions(type)
      comp == getComponentType(type)
  IN  CASE ~t.def -> Verdict({}, NoValue)
        [] Len(d) > 2 -> Verdict({"order"}, NoValue)
        [] Len(d) = 0 -> Verdict({}, Value(type))
        [] Len(d) = 1 -> Verdict({}, Value(makeTensorType(comp, d, ~getTransposed(type))))
        [] Len(d) = 2 -> Verdict({}, Value(makeTensorType(comp, <<d[2], d[1]>>, FALSE)))

\* The operands of a comparison have the type of the first scalar one.
EqType(s, ts) ==
  LET scalars == SelectSeq(ts, LAMBDA t : t.def /\ IsScalar(t))
  IN  Verdict(When(\E i \in DOMAIN ts : ts[i].def /\ ~IsScalar(ts[i]), "comparison")
              \union When(\E i \in DOMAIN scalars : ~compareTypes(s, scalars[1].types[1], scalars[i].types[1], FALSE), "comparison"),
              Value(Scalar("BOOL")))

BinaryType(s, class, l, r) ==
  CASE class \in {"OrExpr", "AndExpr", "XorExpr"} -> typeCheckBinaryBoolean(s, l, r)
    [] class \in {"AddExpr", "SubExpr", "ElwiseMulExpr", "ElwiseDivExpr"} -> typeCheckBinaryElwise(s, class = "AddExpr", l, r)
    [] class = "MulExpr" -> MulType(s, l, r)
    [] class = "DivExpr" -> DivType(s, l, r)
    [] class = "LeftDivExpr" -> LeftDivType(s, l, r)

\* These start their verdict from their operands'.
Restarts == {"AddExpr", "SubExpr", "ElwiseMulExpr", "ElwiseDivExpr", "MulExpr", "DivExpr", "LeftDivExpr"}

RECURSIVE getDenseTensorType(_)

\* The type of a dense literal: its dimensions, innermost first, or an error.
getDenseTensorType(lit) ==
  IF lit.class # "NDTensorLiteral"
  THEN [kind |-> CASE lit.class = "IntVectorLiteral" -> "INT" [] lit.class = "FloatVectorLiteral" -> "FLOAT" [] OTHER -> "COMPLEX",
        dims |-> <<Len(lit.data.vals)>>, valid |-> TRUE]
  ELSE LET parts == [i \in DOMAIN lit.kids.elems |-> getDenseTensorType(lit.kids.elems[i])]
       IN  [kind |-> parts[1].kind, dims |-> Append(parts[1].dims, Len(parts)),
            valid |-> \A i \in DOMAIN parts : parts[i] = [parts[1] EXCEPT !.valid = TRUE]]

typeCheckDenseTensorLiteral(lit) ==
  LET t == getDenseTensorType(lit)
  IN  IF ~t.valid THEN Verdict({"literal"}, NoValue)
      ELSE Verdict({}, Value(NDTensor(Reverse([i \in DOMAIN t.dims |-> RangeSet(t.dims[i])]), Scalar(t.kind),
                                      Len(t.dims) = 1 /\ ~lit.data.transposed)))

-------------------------------------------------------------------------------
(* Sequences of expressions and statements.                                *)

Child(p, f, i) == Append(p, <<f, i>>)
Indices(s, cur, p, f) == [i \in DOMAIN At(s.decls[cur], p).kids[f] |-> i]

InferAll(s, cur, p, f) ==
  FoldLeft(LAMBDA acc, i : LET r == Infer(acc.s, cur, Child(p, f, i)) IN [s |-> r.s, ts |-> Append(acc.ts, r.t)],
           [s |-> s, ts |-> <<>>], Indices(s, cur, p, f))

\* typeCheck
Check(s, cur, p) ==
  LET v == Visit([s EXCEPT !.ok = TRUE], cur, p) IN [s |-> [v EXCEPT !.ok = s.ok], ok |-> v.ok]

CheckAll(s, cur, p, f) ==
  FoldLeft(LAMBDA acc, i : LET r == Check(acc.s, cur, Child(p, f, i)) IN [s |-> r.s, oks |-> Append(acc.oks, r.ok)],
           [s |-> s, oks |-> <<>>], Indices(s, cur, p, f))

Good(oks) == \A i \in DOMAIN oks : oks[i]

\* Children that are checked one after the other, all of them deciding.
Conjoin(s, cur, p, fields) ==
  FoldLeft(LAMBDA acc, f : LET r == CheckAll(acc, cur, p, f) IN [r.s EXCEPT !.ok = acc.ok /\ Good(r.oks)], s, fields)

\* A block in a scope of its own.
Scoped(s, cur, p, f) == Unscope(CheckAll(Scope(s), cur, p, f).s)

-------------------------------------------------------------------------------
(* Calls and maps.                                                         *)

\* The function a call site gets, for the types of its arguments.  A generic
\* original is only a signature; a clone becomes an instance the first time its
\* signature is met, and later clones give way to the first.
Specialise(s, cur, p, id, valid, argTypes) ==
  LET site == At(s.decls[cur], p)
      f == s.decls[id]
      original == f.data.originalName = ""
      sig == IF original THEN f ELSE s.decls[s.funcs[f.data.originalName]]
      sub == Deduced(sig, site.kids.genericArgs, valid, argTypes)
      new == Substituted(IF original THEN [clone(f) EXCEPT !.kids.body = <<>>] ELSE f, sub)
      key == getConcretizedTypeSignatureString(new)
      asked == [s EXCEPT !.decls[id] = new, !.calls = (<<cur, p>> :> sub) @@ @]
      shared == [asked EXCEPT !.decls[cur] = Put(@, p, [site EXCEPT !.kids.func[1].data.ident =
                                                          K(s.decls[s.repl[key]], "name").data.ident])]
      fresh == [asked EXCEPT !.repl = (key :> id) @@ @, !.decls[id].kids.genericParams = <<>>, !.inst = (id :> sub) @@ @]
  IN  CASE DOMAIN sub # {sig.kids.genericParams[i].data.name : i \in DOMAIN sig.kids.genericParams} ->
             [s |-> Err(s, "type parameter"), func |-> <<>>]
        [] original -> [s |-> s, func |-> <<new>>]
        [] ~original /\ key \in DOMAIN s.repl -> [s |-> shared, func |-> <<shared.decls[s.repl[key]]>>]
        [] OTHER -> LET done == IF s.errors = {} THEN Check(fresh, id, <<>>).s ELSE fresh
                    IN  [s |-> done, func |-> <<done.decls[id]>>]

ResultTypes(f) == [i \in DOMAIN f.kids.results |-> K(f.kids.results[i], "type")]

\* typeCheckOrder and typeCheckIsOpaque, on the arguments of some intrinsics; 0 is opaque.
IntrinsicShapes == ("norm" :> <<1>>) @@ ("dot" :> <<1, 1>>) @@ ("lu" :> <<2>>) @@ ("chol" :> <<2>>)
  @@ ("lusolve" :> <<0, 1>>) @@ ("lltsolve" :> <<0, 1>>)
  @@ ("lumatsolve" :> <<0, 2>>) @@ ("lltmatsolve" :> <<0, 2>>)

typeCheckIntrinsic(s, name, ts) ==
  LET shape == IntrinsicShapes[name]
      tensor(i) == ts[i].def /\ IsTensor(ts[i])
      wrong(i) == IF shape[i] = 0 THEN ~IsOpaque(ts[i])
                  ELSE ~IsNumericTensor(ts[i]) \/ Order(ts[i].types[1]) # shape[i]
      unsafe == \/ Len(ts) # Len(shape)
                \/ \E i \in DOMAIN ts : IF shape[i] = 0 THEN ~ts[i].def \/ ts[i].types = <<>> ELSE ~tensor(i)
  IN  IF unsafe THEN Abort(s, "intrinsic")
      ELSE Report(s, When(\E i \in DOMAIN ts : wrong(i), "argument")
                     \union When(name = "dot" /\ ~compareTypes(s, ts[1].types[1], ts[2].types[1], TRUE), "argument"))

\* The type of a parameter; one that is a set is its own elements' source
\* once addSymbol has seen it.
ParamType(s, f, i) ==
  LET type == K(f.kids.args[i], "type")
      def == <<s.funcs[K(f, "name").data.ident], K(f.kids.args[i], "name").data.ident>>
  IN  IF type.class \in SetTypes /\ def \in DOMAIN s.defs THEN s.defs[def] ELSE type

\* The arguments against the parameters of the function.
CheckArguments(s, f, ts) ==
  LET passed == {i \in DOMAIN ts : ts[i].def /\ IsSingle(ts[i])}
  IN  Report(s, When(\E i \in passed : ~compareTypes(s, ts[i].types[1], ParamType(s, f, i), FALSE), "argument")
                \union When(\E i \in passed : f.kids.args[i].class = "InOutArgument" /\ ~IsWritable(ts[i]), "inout"))

NotSingle(ts) == \E i \in DOMAIN ts : ts[i].def /\ ~IsSingle(ts[i])

CallType(s, cur, p) ==
  LET n == At(s.decls[cur], p)
      name == K(n, "func").data.ident
      generic == CheckAll(s, cur, p, "genericArgs")
      args == InferAll(generic.s, cur, p, "args")
      s1 == Report(args.s, When(NotSingle(args.ts), "argument value") \union When(name \notin DOMAIN args.s.funcs, "undeclared function"))
      id == s1.funcs[name]
      f == s1.decls[id]
      funcName == IF f.data.originalName = "" THEN name ELSE f.data.originalName
      s2 == Report(s1, When(Len(n.kids.genericArgs) > Len(f.kids.genericParams), "generic arguments")
                       \union When(Len(n.kids.args) # Len(f.kids.args), "arguments"))
      spec == IF f.kids.genericParams = <<>> THEN [s |-> s2, func |-> <<f>>]
              ELSE Specialise(s2, cur, p, id, generic.oks, args.ts)
      callee == spec.func[1]
      checked == IF ~spec.s.ok THEN spec.s
                 ELSE IF funcName \in DOMAIN IntrinsicShapes THEN typeCheckIntrinsic(spec.s, funcName, args.ts)
                 ELSE CheckArguments(spec.s, callee, args.ts)
  IN  CASE name \notin DOMAIN s1.funcs -> [s |-> s1, t |-> NoValue]
        [] name \in DOMAIN s1.funcs /\ s1.funcs[name] = Null -> [s |-> s1, t |-> NoValue]
        [] OTHER -> IF spec.func = <<>> THEN [s |-> spec.s, t |-> NoValue]
                    ELSE [s |-> checked, t |-> Values(ResultTypes(callee))]

\* The arguments a map passes besides the actuals: the element, the element's
\* endpoints when the function takes them, and the grid it goes through.
AssemblyTypes(s, f, target, through, given) ==
  LET ends == Endpoints(target)
      wants == Len(given) + 1 < Len(f.kids.args) /\ target.class # "GridSetType" /\ Len(ends) > 0
      named == ~IsHomogeneous(target) \/ K(f.kids.args[Len(given) + 2], "type").class = "NamedTupleType"
      elem(i) == Node("TupleElement", [element |-> <<EndpointElement(s, ends[i])>>], <<>>)
      tuple == IF named THEN Node("NamedTupleType", [elems |-> [i \in DOMAIN ends |-> elem(i)]], <<>>)
               ELSE Node("UnnamedTupleType", [element |-> <<EndpointElement(s, ends[1])>>,
                                              length |-> <<Node("TupleLength", <<>>, [val |-> Len(ends)])>>], <<>>)
  IN  given \o <<Typed(K(target, "element"), "READ_WRITE")>>
            \o (IF wants THEN <<Typed(tuple, "READ_WRITE")>> ELSE <<>>)
            \o (IF through = <<>> THEN <<>> ELSE <<Typed(through[1], "READ")>>)

\* A set a map names: declared, valid, and not a parameter.
CheckSet(s, cur, p) ==
  LET set == At(s.decls[cur], p)
      r == Check(s, cur, p)
      known == Declared(r.s, set.data.setName) /\ Symbol(r.s, set.data.setName).type # NoType
  IN  IF ~r.ok \/ ~known THEN [s |-> [r.s EXCEPT !.ok = FALSE], set |-> <<>>]
      ELSE IF set.class = "GenericIndexSet" THEN [s |-> Err(r.s, "generic set"), set |-> <<>>]
      ELSE [s |-> r.s, set |-> <<r.s.defs[set.data.setDef]>>]

typeCheckMapOrApply(s, cur, p, isApply) ==
  LET n == At(s.decls[cur], p)
      name == K(n, "func").data.ident
      generic == CheckAll(s, cur, p, "genericArgs")
      actuals == InferAll(generic.s, cur, p, "partialActuals")
      plain(t) == t.def /\ IsSingle(t) /\ ~IsTensor(t) /\ ~IsOpaque(t)
      s1 == Report(actuals.s, When(NotSingle(actuals.ts), "argument value")
                     \union When(\E i \in DOMAIN actuals.ts : plain(actuals.ts[i]), "argument")
                     \union When(name \notin DOMAIN actuals.s.funcs, "undeclared function"))
      target == CheckSet(s1, cur, Child(p, "target", 1))
      through == IF n.kids.through = <<>> THEN [s |-> target.s, set |-> <<>>] ELSE CheckSet(target.s, cur, Child(p, "through", 1))
      misfit == /\ through.set # <<>>
                /\ \/ through.set[1].class # "GridSetType"
                   \/ K(K(through.set[1], "underlyingPointSet"), "set").data.setName # K(n, "target").data.setName
      s2 == Report(through.s, When(misfit, "through"))
      known == name \in DOMAIN s2.funcs /\ s2.funcs[name] # Null
      id == s2.funcs[name]
      f == s2.decls[id]
      s3 == Report(s2, When(isApply /\ f.kids.results # <<>>, "apply")
                       \union When(Len(n.kids.genericArgs) > Len(f.kids.genericParams), "generic arguments"))
      early == IF f.kids.genericParams = <<>> THEN Values(ResultTypes(f)) ELSE NoValue
      ts == AssemblyTypes(s3, f, target.set[1], through.set, actuals.ts)
      s4 == Report(s3, When(Len(ts) # Len(f.kids.args), "arguments"))
      spec == IF f.kids.genericParams = <<>> THEN [s |-> s4, func |-> <<f>>]
              ELSE Specialise(s4, cur, p, id, generic.oks, ts)
  IN  CASE ~known -> [s |-> s2, t |-> NoValue]
        [] known /\ ~s3.ok -> [s |-> s3, t |-> early]
        [] OTHER -> IF spec.func = <<>> THEN [s |-> spec.s, t |-> early]
                    ELSE [s |-> IF spec.s.ok THEN CheckArguments(spec.s, spec.func[1], ts) ELSE spec.s,
                          t |-> Values(ResultTypes(spec.func[1]))]

-------------------------------------------------------------------------------
(* Reads.                                                                  *)

\* What is wrong with an index of type t into the set a dimension starts with.
IndexErrors(s, set, t) ==
  CASE ~t.def -> {}
    [] t.def /\ ~IsSingle(t) -> {"index value"}
    [] t.def /\ IsIndexVar(t) -> {}
    [] set.class = "RangeIndexSet" \/ (set.class = "GenericIndexSet" /\ set.data.type = "RANGE") ->
         When(~IsScalarOf(t, "INT"), "index")
    [] OTHER ->
         LET e == t.types[1]
             domain == K(s.defs[set.data.setDef], "element").data.ident
         IN  When(\/ e.class # "ElementType"
                  \/ e.class = "ElementType" /\ domain # "" /\ domain # e.data.ident
                  \/ e.class = "ElementType" /\ e.data.source # <<>> /\ ~compareIndexSets(s, set, e.data.source[1]), "index")

TensorReadType(s, cur, p) ==
  LET n == At(s.decls[cur], p)
      base == K(n, "tensor")
      slice(i) == n.kids.indices[i].class = "Slice"
      all == [i \in DOMAIN n.kids.indices |-> i]
      exprs == SelectSeq(all, LAMBDA i : ~slice(i))
      maybeCall == base.class = "VarExpr" /\ exprs = all
      lhs == IF ~maybeCall THEN Infer(s, cur, Child(p, "tensor", 1))
             ELSE IF ~Declared(s, base.data.ident)
                  THEN [s |-> ErrIf(s, ~s.skip, "undeclared"), t |-> Undef("READ_WRITE")]
             ELSE [s |-> s, t |-> LET sym == Symbol(s, base.data.ident)
                                  IN  IF sym.type = NoType THEN Undef(sym.access) ELSE Typed(sym.type, sym.access)]
      failed(st) == [s |-> st, t |-> Undef(lhs.t.access)]
      type == lhs.t.types[1]
      dims == getDimensions(type)
      infer(st, i) == Infer(st, cur, Child(Child(p, "indices", i), "expr", 1))
      \* the first index that is an index variable ends the search
      search == FoldLeft(LAMBDA acc, i : IF acc.found THEN acc
                                         ELSE LET r == infer(acc.s, i) IN [s |-> r.s, found |-> r.t.def /\ IsIndexVar(r.t)],
                         [s |-> lhs.s, found |-> FALSE], exprs)
      s1 == [search.s EXCEPT !.has = @ \/ search.found]
      nested == FoldLeft(LAMBDA st, i : infer(st, i).s, [s1 EXCEPT !.allow = FALSE], exprs)
      last == FoldLeft(LAMBDA st, i : LET r == infer(st, i) IN Report(r.s, IndexErrors(r.s, dims[i][1], r.t)),
                       [nested EXCEPT !.allow = s1.allow], exprs)
      kept == SelectSeq(all, slice)
      block == K(type, "blockType")
      row == /\ Len(kept) = 1
             /\ IF Len(getDimensions(block)) = 1 THEN type.data.transposed ELSE ~slice(Len(all) - 1)
      outside == Len(kept) = 1 /\ Len(getDimensions(block)) # 1 /\ Len(all) = 1
  IN  CASE ~lhs.t.def -> failed(lhs.s)
        [] lhs.t.def /\ ~IsTensor(lhs.t) -> failed(Err(lhs.s, "tensor read"))
        [] lhs.t.def /\ IsTensor(lhs.t) /\ Len(all) # Len(dims) -> failed(Err(lhs.s, "indices"))
        [] OTHER ->
             IF search.found /\ (~s1.allow \/ kept # <<>>) THEN failed(Err(s1, "index expression"))
             ELSE IF type.class = "ScalarType" \/ outside THEN failed(Abort(last, "tensor read"))
             ELSE [s |-> last, t |-> Typed(IF kept = <<>> THEN block
                                           ELSE makeTensorType(getComponentType(type), [k \in DOMAIN kept |-> dims[kept[k]]], row),
                                           lhs.t.access)]

SetReadType(s, cur, p) ==
  LET lhs == Infer(s, cur, Child(p, "set", 1))
      indices == InferAll(lhs.s, cur, p, "indices")
      n == At(s.decls[cur], p)
      s1 == Report(indices.s, When(\E i \in DOMAIN indices.ts : NotScalarOf(indices.ts[i], "INT"), "index"))
      type == lhs.t.types[1]
      misfit == IF type.class = "GridSetType" THEN Len(n.kids.indices) # 2 * type.data.dimensions ELSE Endpoints(type) # <<>>
  IN  CASE ~lhs.t.def -> [s |-> s1, t |-> Undef(lhs.t.access)]
        [] lhs.t.def /\ ~IsSingle(lhs.t) -> [s |-> Err(s1, "set read"), t |-> Undef(lhs.t.access)]
        [] lhs.t.def /\ IsSingle(lhs.t) /\ type.class \notin SetTypes -> [s |-> Err(s1, "set read"), t |-> NoValue]
        [] OTHER -> [s |-> Report(s1, When(misfit, "set read")), t |-> Typed(K(type, "element"), lhs.t.access)]

NamedTupleReadType(s, cur, p) ==
  LET lhs == Infer(s, cur, Child(p, "tuple", 1))
      name == K(At(s.decls[cur], p), "elem")
      elems == lhs.t.types[1].kids.elems
      found == SelectSeq(elems, LAMBDA e : K(e, "name") = name)
  IN  CASE ~lhs.t.def -> [s |-> lhs.s, t |-> Undef(lhs.t.access)]
        [] lhs.t.def /\ ~IsSingle(lhs.t) -> [s |-> Abort(lhs.s, "tuple"), t |-> NoValue]
        [] OTHER ->
             IF lhs.t.types[1].class # "NamedTupleType" \/ found = <<>> THEN [s |-> Err(lhs.s, "tuple"), t |-> Undef(lhs.t.access)]
             ELSE [s |-> lhs.s, t |-> Typed(K(found[1], "element"), lhs.t.access)]

UnnamedTupleReadType(s, cur, p) ==
  LET lhs == Infer(s, cur, Child(p, "tuple", 1))
      index == Infer(lhs.s, cur, Child(p, "index", 1))
      s1 == Report(index.s, When(NotScalarOf(index.t, "INT"), "index"))
  IN  CASE ~lhs.t.def -> [s |-> s1, t |-> Undef(lhs.t.access)]
        [] lhs.t.def /\ ~IsSingle(lhs.t) -> [s |-> Abort(s1, "tuple"), t |-> NoValue]
        [] OTHER ->
             IF lhs.t.types[1].class # "UnnamedTupleType" THEN [s |-> Err(s1, "tuple"), t |-> Undef(lhs.t.access)]
             ELSE [s |-> s1, t |-> Typed(K(lhs.t.types[1], "element"), lhs.t.access)]

\* A field of a set has the set for an outer dimension.
FieldReadType(s, cur, p) ==
  LET n == At(s.decls[cur], p)
      lhs == Infer(s, cur, Child(p, "setOrElem", 1))
      type == lhs.t.types[1]
      isSet == type.class \in SetTypes
      elem == IF isSet THEN K(type, "element") ELSE type
      field == K(n, "field").data.ident
      ft == s.elems[elem.data.ident][field]
      set == SetRef("SetIndexSet", K(n, "setOrElem").data.ident, elem.data.source[1].data.setDef)
      failed(st) == [s |-> st, t |-> Undef(lhs.t.access)]
  IN  CASE ~lhs.t.def -> failed(lhs.s)
        [] lhs.t.def /\ ~IsSingle(lhs.t) -> failed(Err(lhs.s, "field"))
        [] OTHER ->
             IF type.class # "ElementType" /\ ~isSet THEN failed(Err(lhs.s, "field"))
             ELSE IF elem.data.ident \notin DOMAIN s.elems THEN failed(Abort(lhs.s, "element type"))
             ELSE IF field \notin DOMAIN s.elems[elem.data.ident] THEN failed(Err(lhs.s, "field"))
             ELSE IF ft.class \notin TensorTypes THEN failed(Abort(lhs.s, "field type"))
             ELSE IF ~isSet THEN [s |-> lhs.s, t |-> Typed(ft, lhs.t.access)]
             ELSE IF Order(ft) > 1 THEN failed(Err(lhs.s, "field"))
             ELSE IF K(n, "setOrElem").class # "VarExpr" THEN failed(Abort(lhs.s, "set field"))
             ELSE [s |-> lhs.s, t |-> Typed(NDTensor(<<set>>, ft, getTransposed(ft)), lhs.t.access)]

VarType(s, name) ==
  IF ~Declared(s, name) THEN [s |-> ErrIf(s, ~s.skip, "undeclared"), t |-> Undef("READ_WRITE")]
  ELSE [s |-> s, t |-> LET sym == Symbol(s, name) IN IF sym.type = NoType THEN Undef(sym.access) ELSE Typed(sym.type, sym.access)]

-------------------------------------------------------------------------------
(* inferType.                                                              *)

InferClass(s, cur, p) ==
  LET n == At(s.decls[cur], p)
      one(f) == Infer(s, cur, Child(p, f, 1))
      by(st, v) == [s |-> Report(st, v.errs), t |-> v.t]
      literal == [IntLiteral |-> "INT", FloatLiteral |-> "FLOAT", BoolLiteral |-> "BOOL",
                  ComplexLiteral |-> "COMPLEX", StringLiteral |-> "STRING"]
  IN  CASE n.class \in {"OrExpr", "AndExpr", "XorExpr"} \union Restarts ->
             LET l == one("lhs")
                 r == Infer(l.s, cur, Child(p, "rhs", 1))
                 st == IF n.class \in Restarts THEN [r.s EXCEPT !.ok = l.t.def /\ r.t.def] ELSE r.s
             IN  by(st, BinaryType(st, n.class, l.t, r.t))
        [] n.class = "EqExpr" -> LET r == InferAll(s, cur, p, "operands") IN by(r.s, EqType(r.s, r.ts))
        [] n.class = "NotExpr" ->
             LET r == one("operand") IN by(r.s, Verdict(When(NotScalarOf(r.t, "BOOL"), "boolean"), Value(Scalar("BOOL"))))
        [] n.class = "NegExpr" -> LET r == one("operand") IN by(r.s, NegType(r.t))
        [] n.class = "TransposeExpr" ->
             LET r == one("operand")
             IN  IF r.t.def /\ ~IsTensor(r.t) THEN [s |-> Abort(r.s, "transpose"), t |-> NoValue] ELSE by(r.s, TransposeType(r.t))
        [] n.class = "ExpExpr" -> [s |-> Abort(s, "not supported"), t |-> NoValue]
        [] n.class = "CallExpr" -> CallType(s, cur, p)
        [] n.class \in {"ReducedMapExpr", "UnreducedMapExpr"} -> typeCheckMapOrApply(s, cur, p, FALSE)
        [] n.class = "TensorReadExpr" -> TensorReadType(s, cur, p)
        [] n.class = "SetReadExpr" -> SetReadType(s, cur, p)
        [] n.class = "NamedTupleReadExpr" -> NamedTupleReadType(s, cur, p)
        [] n.class = "UnnamedTupleReadExpr" -> UnnamedTupleReadType(s, cur, p)
        [] n.class = "FieldReadExpr" -> FieldReadType(s, cur, p)
        [] n.class \in {"ParenExpr", "ExprParam"} -> one("expr")
        [] n.class = "VarExpr" -> VarType(s, n.data.ident)
        [] n.class = "RangeConst" -> [s |-> s, t |-> NoValue]
        [] n.class \in DOMAIN literal -> [s |-> s, t |-> Value(Scalar(literal[n.class]))]
        [] OTHER -> by(s, typeCheckDenseTensorLiteral(n))

Infer(s, cur, p) ==
  LET r == InferClass(s, cur, p) IN [r EXCEPT !.s.types = (<<cur, p>> :> r.t) @@ @]

-------------------------------------------------------------------------------
(* Types and declarations.                                                 *)

VisitSet(s, n) ==
  IF ~Declared(s, n.data.setName) THEN Err(s, "undeclared set")
  ELSE ErrIf(s, n.data.setDef = <<>> /\ Symbol(s, n.data.setName).type.class \notin SetTypes, "set")

VisitType(s, cur, p) ==
  LET n == At(s.decls[cur], p)
      all(fields) == Conjoin(s, cur, p, fields)
      point == s.defs[K(K(n, "underlyingPointSet"), "set").data.setDef]
      names == {n.kids.elems[i].kids.name : i \in DOMAIN n.kids.elems}
  IN  CASE n.class = "SetIndexSet" -> VisitSet(s, n)
        [] n.class = "ElementType" -> ErrIf(s, n.data.ident \notin DOMAIN s.elems, "undeclared element type")
        [] n.class = "Endpoint" -> all(<<"set">>)
        [] n.class = "HomogeneousEdgeSetType" -> ErrIf(all(<<"element", "endpoint">>), K(n, "arity").data.val < 1, "arity")
        [] n.class = "HeterogeneousEdgeSetType" -> all(<<"element", "endpoints">>)
        [] n.class = "GridSetType" ->
             LET s1 == all(<<"element", "underlyingPointSet">>)
             IN  IF ~s1.ok THEN s1 ELSE ErrIf(s1, point.class = "GridSetType" \/ Endpoints(point) # <<>>, "point set")
        [] n.class = "TupleElement" -> all(<<"element">>)
        [] n.class = "NamedTupleType" -> ErrIf(all(<<"elems">>), Cardinality(names) # Len(n.kids.elems), "redefinition")
        [] n.class = "UnnamedTupleType" -> ErrIf(all(<<"element">>), K(n, "length").data.val < 1, "tuple length")
        [] n.class = "NDTensorType" ->
             LET block == K(n, "blockType")
             IN  Report(all(<<"blockType", "indexSets">>),
                        When(block.class = "NDTensorType" /\ Len(n.kids.indexSets) # Len(block.kids.indexSets), "blocks")
                        \union When(n.data.transposed /\ Len(n.kids.indexSets) # 1, "row vector"))
        [] OTHER -> s

\* Names the arguments or the results of a function, in the current scope.
Declare(s, cur, p, f) ==
  FoldLeft(LAMBDA st, i :
    LET n == At(st.decls[cur], Child(p, f, i))
        name == K(n, "name").data.ident
        r == Check(st, cur, Child(p, f, i))
        s1 == [r.s EXCEPT !.ok = @ /\ r.ok]
        access == IF f = "args" /\ n.class # "InOutArgument" THEN "READ" ELSE "READ_WRITE"
    IN  addSymbol(ErrIf(s1, DeclaredHere(s1, name), "redefinition"), cur, name, IF r.ok THEN K(n, "type") ELSE NoType, access),
    s, Indices(s, cur, p, f))

VisitFunc(s, cur) ==
  LET n == s.decls[cur]
      name == K(n, "name").data.ident
      clonedFrom == n.data.originalName
      s1 == Scope(ErrIf(s, n.data.type = "EXPORTED" /\ n.kids.genericParams # <<>>, "exported"))
      params == FoldLeft(LAMBDA st, g :
                           addSymbol(ErrIf(st, DeclaredHere(st, g.data.name), "redefinition"), cur, g.data.name,
                                     IF g.data.type = "RANGE" THEN Scalar("INT") ELSE st.defs[<<cur, g.data.name>>], "READ"),
                         s1, n.kids.genericParams)
      s2 == Unscope(Scoped(Declare(Declare(params, cur, <<>>, "args"), cur, <<>>, "results"), cur, <<>>, "body"))
      s3 == ErrIf(s2, name \in DOMAIN s2.funcs /\ clonedFrom = "", "redefinition")
      add(st, id) == [st EXCEPT !.funcs = (name :> id) @@ @]
  IN  IF clonedFrom # "" /\ n.kids.genericParams # <<>>
      THEN IF clonedFrom \notin DOMAIN s.funcs THEN Abort(s, "no original")
           ELSE add(s, IF s.funcs[clonedFrom] = Null THEN Null ELSE cur)
      ELSE add(s3, IF s2.ok THEN cur ELSE Null)

\* A constant's dimensions, from the first that is not trivial.
NonTrivial(sets) ==
  LET lead == {i \in DOMAIN sets : \A j \in 1..i : sets[j].class = "RangeIndexSet" /\ sets[j].data.range = 1}
  IN  SubSeq(sets, Cardinality(lead) + 1, Len(sets))

typeCheckVarOrConstDecl(s, cur, p, isConst, isGlobal) ==
  LET n == At(s.decls[cur], p)
      name == K(n, "name").data.ident
      type == IF n.kids.type = <<>> THEN [s |-> s, ok |-> FALSE] ELSE Check(s, cur, Child(p, "type", 1))
      init == IF n.kids.initVal = <<>> THEN [s |-> type.s, t |-> NoValue] ELSE Infer(type.s, cur, Child(p, "initVal", 1))
      varType == CASE type.ok -> K(n, "type")
                   [] ~type.ok /\ n.kids.type = <<>> /\ init.t.def /\ Len(init.t.types) = 1 -> init.t.types[1]
                   [] OTHER -> NoType
      s1 == addSymbol(ErrIf(init.s, DeclaredHere(init.s, name), "redefinition"), cur, name, varType,
                      IF isConst THEN "READ" ELSE "READ_WRITE")
      it == init.t.types[1]
      same(a, b) == compareTypes(s1, a, b, FALSE)
      equivalent == /\ isConst /\ varType.class = "NDTensorType" /\ it.class = "NDTensorType"
                    /\ same(K(varType, "blockType"), K(it, "blockType"))
                    /\ compareDomains(s1, NonTrivial(varType.kids.indexSets), NonTrivial(it.kids.indexSets))
  IN  CASE varType = NoType -> s1
        [] varType # NoType /\ varType.class \notin TensorTypes -> Err(s1, "non-tensor variable")
        [] OTHER ->
             IF ~init.t.def THEN s1
             ELSE IF ~IsTensor(init.t) THEN Err(s1, "initial value")
             ELSE IF same(varType, it) THEN s1
             ELSE IF it.class = "ScalarType" /\ it.data.type = getComponentType(varType) THEN ErrIf(s1, isGlobal, "global constant")
             ELSE ErrIf(s1, ~equivalent, "initial value")

VisitDecl(s, cur, p) ==
  LET n == At(s.decls[cur], p)
      name == K(n, "name").data.ident
      checked == Conjoin(s, cur, p, <<"type">>)
      fields == CheckAll(s, cur, p, "fields")
      fieldName(i) == K(n.kids.fields[i], "name").data.ident
      latest(f) == CHOOSE i \in DOMAIN fields.oks : fieldName(i) = f /\ \A j \in DOMAIN fields.oks : fieldName(j) = f => j <= i
      table == [f \in {fieldName(i) : i \in DOMAIN fields.oks} |->
                  IF fields.oks[latest(f)] THEN K(n.kids.fields[latest(f)], "type") ELSE NoType]
  IN  CASE n.class \in {"IdentDecl", "FieldDecl", "Argument", "InOutArgument"} -> checked
        [] n.class = "ElementTypeDecl" ->
             [Report(fields.s, When(Cardinality(DOMAIN table) # Len(n.kids.fields) \/ name \in DOMAIN s.elems, "redefinition"))
               EXCEPT !.elems = (name :> table) @@ @]
        [] n.class = "ExternDecl" ->
             addSymbol(ErrIf(checked, DeclaredHere(s, name), "redefinition"), cur, name,
                       IF checked.ok THEN K(n, "type") ELSE NoType, "READ_WRITE")
        [] n.class = "FuncDecl" -> VisitFunc(s, cur)
        [] n.class = "VarDecl" -> typeCheckVarOrConstDecl(s, cur, p, FALSE, FALSE)
        [] n.class = "ConstDecl" -> typeCheckVarOrConstDecl(s, cur, p, TRUE, p = <<>>)
        [] n.class = "IVarDecl" ->
             addSymbol(ErrIf(s, DeclaredHere(s, name), "redefinition"), cur, name, Node("IVarType", <<>>, <<>>), NONE)

-------------------------------------------------------------------------------
(* Statements.                                                             *)

\* What is wrong with assigning a value of type v to a target of type l.
AssignErrors(s, l, v) ==
  LET fits == \/ compareTypes(s, l.types[1], v, FALSE)
              \/ /\ v.class = "ScalarType" /\ l.types[1].class \in TensorTypes
                 /\ v.data.type = getComponentType(l.types[1])
  IN  When(l.def /\ ~(IsSingle(l) /\ fits), "assignment") \union When(v.class \notin TensorTypes \union {"OpaqueType"}, "assignment")
      \union When(~IsWritable(l), "not writable")

\* A variable may be assigned without a declaration, and is then read only.
VisitAssign(s, cur, p) ==
  LET n == At(s.decls[cur], p)
      rhs == Infer([s EXCEPT !.allow = TRUE], cur, Child(p, "expr", 1))
      values == rhs.t.types
      lhs == FoldLeft(LAMBDA acc, i :
                        LET r == Infer([acc.s EXCEPT !.skip = n.kids.lhs[i].class = "VarExpr"], cur, Child(p, "lhs", i))
                        IN  [s |-> [r.s EXCEPT !.skip = FALSE], ts |-> Append(acc.ts, r.t)],
                      [s |-> [rhs.s EXCEPT !.ok = rhs.t.def], ts |-> <<>>], [i \in DOMAIN n.kids.lhs |-> i])
      s1 == ErrIf(lhs.s, lhs.s.ok /\ Len(values) # Len(lhs.ts), "assignment")
      s2 == IF s1.ok THEN Report(s1, UNION {AssignErrors(s1, lhs.ts[i], values[i]) : i \in DOMAIN lhs.ts}) ELSE s1
      s3 == FoldLeft(LAMBDA st, i :
                       IF n.kids.lhs[i].class # "VarExpr" \/ Declared(st, n.kids.lhs[i].data.ident) THEN st
                       ELSE IF rhs.t.def /\ i > Len(values) THEN Abort(st, "assignment")
                       ELSE addSymbol(st, cur, n.kids.lhs[i].data.ident, IF rhs.t.def THEN values[i] ELSE NoType, "READ"),
                     s2, [i \in DOMAIN n.kids.lhs |-> i])
  IN  [s3 EXCEPT !.allow = FALSE, !.has = FALSE]

VisitFor(s, cur, p) ==
  LET n == At(s.decls[cur], p)
      domain == Check(Scope(s), cur, Child(p, "domain", 1))
      var == IF K(n, "domain").class = "RangeDomain" THEN Scalar("INT")
             ELSE IF domain.ok THEN K(domain.s.defs[K(K(n, "domain"), "set").data.setDef], "element") ELSE NoType
  IN  Unscope(Check(addSymbol(domain.s, cur, K(n, "loopVar").data.ident, var, "READ"), cur, Child(p, "body", 1)).s)

VisitStmt(s, cur, p) ==
  LET n == At(s.decls[cur], p)
      cond == Infer(s, cur, Child(p, "cond", 1))
      expects(r, kind, what) == When(NotScalarOf(r.t, kind), what)
  IN  CASE n.class \in {"WhileStmt", "DoWhileStmt"} -> Report(Scoped(cond.s, cur, p, "body"), expects(cond, "BOOL", "condition"))
        [] n.class = "IfStmt" ->
             Report(Scoped(Scoped(cond.s, cur, p, "ifBody"), cur, p, "elseBody"), expects(cond, "BOOL", "condition"))
        [] n.class = "IndexSetDomain" -> Conjoin(s, cur, p, <<"set">>)
        [] n.class = "RangeDomain" ->
             LET lower == Infer(s, cur, Child(p, "lower", 1))
                 upper == Infer(lower.s, cur, Child(p, "upper", 1))
             IN  Report(upper.s, expects(lower, "INT", "bound") \union expects(upper, "INT", "bound"))
        [] n.class = "ForStmt" -> VisitFor(s, cur, p)
        [] n.class = "PrintStmt" ->
             LET args == InferAll(s, cur, p, "args")
             IN  Report(args.s, When(\E i \in DOMAIN args.ts : args.ts[i].def /\ ~IsTensor(args.ts[i]), "print"))
        [] n.class = "ExprStmt" -> Infer(s, cur, Child(p, "expr", 1)).s
        [] n.class = "AssignStmt" -> VisitAssign(s, cur, p)
        [] n.class = "ApplyStmt" -> typeCheckMapOrApply(s, cur, Child(p, "map", 1), TRUE).s
        [] n.class = "Test" -> Infer(InferAll(s, cur, p, "args").s, cur, Child(p, "expected", 1)).s

Visit(s, cur, p) ==
  LET class == At(s.decls[cur], p).class
  IN  CASE class = "StmtBlock" -> CheckAll(s, cur, p, "stmts").s
        [] class \in DOMAIN DeclNodes \union {"VarDecl", "ConstDecl", "IVarDecl"} -> VisitDecl(s, cur, p)
        [] class \in DOMAIN VarNodes \union DOMAIN StmtNodes \union {"ApplyStmt", "Test"} -> VisitStmt(s, cur, p)
        [] OTHER -> VisitType(s, cur, p)

\* TypeChecker::check, for one element of the program.
TypeCheckElement(s, cur) == LET checked == Check(s, cur, <<>>) IN checked.s
===============================================================================
