----------------------------- MODULE TypeChecker ------------------------------
(***************************************************************************)
(* The type checker of the front end (src/frontend/type_checker.cpp) as    *)
(* functions on its state, a record                                        *)
(*   decls   the program's elements, by identity (functions are shared)    *)
(*   funcs   Environment::funcDecls, name -> identity, Null for an invalid *)
(*           function;  repl  funcReplace, signature -> identity           *)
(*   elems   element type -> field -> type;  scopes  the symbol table      *)
(*   defs    set definitions;  errors  the kinds of errors reported        *)
(*   ok, skip, allow, has   retTypeChecked, skipCheckDeclared,             *)
(*           allowIndexExpr, hasIndexExpr                                  *)
(*   types   the type inferred at each expression                         *)
(*   inst    the parameters each instance was made with, and calls, the    *)
(*           ones each call asked for                                      *)
(* An expression's type is [def, types, access].                           *)
(***************************************************************************)
EXTENDS Fir

Null == "null"
NoType == [class |-> Null, kids |-> <<>>, data |-> <<>>]

SetRefs == {"SetIndexSet", "GenericIndexSet"}
SetTypes == {"HomogeneousEdgeSetType", "HeterogeneousEdgeSetType", "GridSetType"}
TensorTypes == {"ScalarType", "NDTensorType"}
Expressions == DOMAIN (OperatorNodes @@ ArithmeticNodes @@ ReadNodes @@ LiteralNodes) \union {"ReducedMapExpr", "UnreducedMapExpr"}

Scalar(kind) == Node("ScalarType", <<>>, [type |-> kind])
RangeSet(n) == Node("RangeIndexSet", <<>>, [range |-> n])

Undef(access) == [def |-> FALSE, types |-> <<>>, access |-> access]
Values(types) == [def |-> TRUE, types |-> types, access |-> "READ"]
Typed(type, access) == [def |-> TRUE, types |-> <<type>>, access |-> access]
Value(type) == Typed(type, "READ")
NONE == "NONE"

-------------------------------------------------------------------------------
(* Properties of types.                                                    *)

RECURSIVE getComponentType(_)
getComponentType(t) == IF t.class = "NDTensorType" THEN getComponentType(K(t, "blockType")) ELSE t.data.type

\* One sequence of nested index sets for each dimension.
RECURSIVE getDimensions(_)
getDimensions(t) ==
  IF t.class = "ScalarType" THEN <<>>
  ELSE LET inner == getDimensions(K(t, "blockType"))
       IN  [i \in DOMAIN t.kids.indexSets |->
              <<t.kids.indexSets[i]>> \o (IF i \in DOMAIN inner THEN inner[i] ELSE <<>>)]

Order(t) == Len(getDimensions(t))
getTransposed(t) == t.class = "NDTensorType" /\ t.data.transposed

NDTensor(sets, block, transposed) ==
  Node("NDTensorType", [indexSets |-> sets, blockType |-> <<block>>], [transposed |-> transposed])

makeTensorType(comp, dims, transposed) ==
  IF dims = <<>> THEN Scalar(comp)
  ELSE LET level[l \in 1..Len(dims[1])] ==
             NDTensor([j \in DOMAIN dims |-> dims[j][l]], IF l = Len(dims[1]) THEN Scalar(comp) ELSE level[l + 1],
                      l = 1 /\ transposed)
       IN  level[1]

IsSingle(t) == Len(t.types) = 1
IsTensor(t) == IsSingle(t) /\ t.types[1].class \in TensorTypes
IsScalar(t) == IsSingle(t) /\ t.types[1].class = "ScalarType"
IsScalarOf(t, kind) == IsScalar(t) /\ t.types[1].data.type = kind
IsNumericTensor(t) == IsTensor(t) /\ getComponentType(t.types[1]) \in {"INT", "FLOAT", "COMPLEX"}
IsIndexVar(t) == IsSingle(t) /\ t.types[1].class = "IVarType"
IsOpaque(t) == t.types[1].class = "OpaqueType"
IsWritable(t) == t.access \in {"WRITE", "READ_WRITE"}

Endpoints(t) ==
  IF t.class = "HomogeneousEdgeSetType"
  THEN [i \in 1..K(t, "arity").data.val |-> K(t, "endpoint")] ELSE t.kids.endpoints

IsHomogeneous(t) == \A i \in DOMAIN Endpoints(t) :
                      K(Endpoints(t)[i], "set").data.setName = K(Endpoints(t)[1], "set").data.setName

-------------------------------------------------------------------------------
(* The environment.                                                        *)

Err(s, what) == [s EXCEPT !.errors = @ \union {what}, !.ok = FALSE]
ErrIf(s, cond, what) == IF cond THEN Err(s, what) ELSE s
Abort(s, what) == [s EXCEPT !.aborts = @ \union {what}]

Scope(s) == [s EXCEPT !.scopes = Append(@, <<>>)]
Unscope(s) == [s EXCEPT !.scopes = Front(@)]

Declared(s, name) == \E i \in DOMAIN s.scopes : name \in DOMAIN s.scopes[i]
DeclaredHere(s, name) == name \in DOMAIN Last(s.scopes)
Symbol(s, name) ==
  LET inner == CHOOSE i \in DOMAIN s.scopes : /\ name \in DOMAIN s.scopes[i]
                                             /\ \A j \in (i + 1)..Len(s.scopes) : name \notin DOMAIN s.scopes[j]
  IN  s.scopes[inner][name]

SetRef(class, name, def) == Node(class, <<>>, [setName |-> name, setDef |-> def])

\* Environment::addSymbol: a set's elements come from the set.
addSymbol(s, cur, name, type, access) ==
  LET isSet == type.class \in SetTypes
      class == IF K(type, "element").data.ident = "" THEN "GenericIndexSet" ELSE "SetIndexSet"
      from == [type EXCEPT !.kids["element"][1].data.source = <<SetRef(class, name, <<cur, name>>)>>]
      stored == IF isSet THEN from ELSE type
      defined == IF isSet THEN (<<cur, name>> :> from) @@ s.defs ELSE s.defs
  IN  [s EXCEPT !.scopes[Len(s.scopes)] = (name :> [type |-> stored, access |-> access]) @@ @, !.defs = defined]

RECURSIVE compareIndexSets(_, _, _)
compareIndexSets(s, l, r) ==
  \/ /\ l.class \in SetRefs /\ r.class \in SetRefs
     /\ l.data.setDef # <<>> /\ r.data.setDef # <<>>
     /\ LET lt == s.defs[l.data.setDef]
            rt == s.defs[r.data.setDef]
        IN  IF lt.class # "GridSetType" THEN l.data.setDef = r.data.setDef
            ELSE /\ rt.class = "GridSetType" /\ lt.data.dimensions = rt.data.dimensions
                 /\ compareIndexSets(s, K(K(lt, "underlyingPointSet"), "set"), K(K(rt, "underlyingPointSet"), "set"))
  \/ l.class = "RangeIndexSet" /\ r.class = "RangeIndexSet" /\ l.data.range = r.data.range

compareDomains(s, l, r) == Len(l) = Len(r) /\ \A i \in DOMAIN l : compareIndexSets(s, l[i], r[i])

\* The element an edge set's endpoint has, once the set is declared.
EndpointElement(s, end) == K(s.defs[K(end, "set").data.setDef], "element")

RECURSIVE compareTypes(_, _, _, _)
compareTypes(s, l, r, ignoreTranspose) ==
  LET same(a, b) == compareTypes(s, a, b, FALSE)
      sets == l.class \in SetTypes /\ r.class \in SetTypes /\ same(K(l, "element"), K(r, "element"))
  IN  CASE l.class = "ScalarType" -> r.class = "ScalarType" /\ l.data.type = r.data.type
        [] l.class = "NDTensorType" ->
             /\ r.class = "NDTensorType"
             /\ l.data.transposed = r.data.transposed \/ ignoreTranspose
             /\ compareDomains(s, l.kids.indexSets, r.kids.indexSets)
             /\ same(K(l, "blockType"), K(r, "blockType"))
        [] l.class = "ElementType" ->
             /\ r.class = "ElementType"
             /\ IF l.data.source = <<>> \/ r.data.source = <<>> THEN l.data.ident = r.data.ident
                ELSE compareIndexSets(s, l.data.source[1], r.data.source[1])
        [] l.class = "GridSetType" ->
             /\ sets /\ r.class = "GridSetType" /\ l.data.dimensions = r.data.dimensions
             /\ LET lp == K(l, "underlyingPointSet")
                    rp == K(r, "underlyingPointSet")
                IN  /\ same(EndpointElement(s, lp), EndpointElement(s, rp))
                    /\ K(lp, "set").data.setName = K(rp, "set").data.setName
                    /\ same(s.defs[K(lp, "set").data.setDef], s.defs[K(rp, "set").data.setDef])
        [] l.class \in SetTypes ->
             /\ sets /\ r.class # "GridSetType" /\ Len(Endpoints(l)) = Len(Endpoints(r))
             /\ \A i \in DOMAIN Endpoints(l) :
                  same(EndpointElement(s, Endpoints(l)[i]), EndpointElement(s, Endpoints(r)[i]))
        [] l.class = "NamedTupleType" ->
             /\ r.class = "NamedTupleType" /\ Len(l.kids.elems) = Len(r.kids.elems)
             /\ \A i \in DOMAIN l.kids.elems :
                  LET le == l.kids.elems[i]
                      re == r.kids.elems[i]
                  IN  /\ le.kids.name # <<>> /\ re.kids.name # <<>> => K(le, "name") = K(re, "name")
                      /\ same(K(le, "element"), K(re, "element"))
        [] l.class = "UnnamedTupleType" ->
             r.class = "UnnamedTupleType" /\ K(l, "length") = K(r, "length") /\ same(K(l, "element"), K(r, "element"))
        [] l.class = "OpaqueType" -> r.class = "OpaqueType"
        [] OTHER -> FALSE

-------------------------------------------------------------------------------
(* Generic functions.                                                      *)

\* GenericCallTypeChecker::unify: the first argument to fix a parameter wins,
\* and a range parameter takes no set.  Dynamic index sets are not supported.
unifySets(sub, param, arg) ==
  IF param.class # "GenericIndexSet" \/ param.data.setName \in DOMAIN sub THEN sub
  ELSE LET rangeWanted == param.data.type = "RANGE"
           rangeGiven == arg.class = "GenericIndexSet" /\ arg.data.type = "RANGE"
       IN  IF arg.class = "RangeIndexSet" \/ (arg.class \in SetRefs /\ (~rangeWanted \/ rangeGiven))
           THEN (param.data.setName :> arg) @@ sub ELSE sub

RECURSIVE unify(_, _, _)
unify(sub, param, arg) ==
  LET both(class) == param.class = class /\ arg.class = class
      least(f) == IF Len(param.kids[f]) < Len(arg.kids[f]) THEN Len(param.kids[f]) ELSE Len(arg.kids[f])
      element(elem) == K(elem, "element")
  IN  CASE both("NDTensorType") ->
             LET outer == FoldLeft(LAMBDA d, i : unifySets(d, param.kids.indexSets[i], arg.kids.indexSets[i]), sub,
                                   [i \in 1..least("indexSets") |-> i])
             IN  unify(outer, K(param, "blockType"), K(arg, "blockType"))
        [] both("ElementType") ->
             IF /\ arg.data.source # <<>> /\ param.data.source # <<>>
                /\ param.data.source[1].class = "GenericIndexSet" /\ param.data.source[1].data.setName \notin DOMAIN sub
             THEN (param.data.source[1].data.setName :> arg.data.source[1]) @@ sub ELSE sub
        [] both("UnnamedTupleType") -> unify(sub, K(param, "element"), K(arg, "element"))
        [] param.class = "UnnamedTupleType" /\ arg.class = "NamedTupleType" ->
             unify(sub, K(param, "element"), element(arg.kids.elems[1]))
        [] both("NamedTupleType") ->
             FoldLeft(LAMBDA d, i : unify(d, element(param.kids.elems[i]), element(arg.kids.elems[i])), sub,
                      [i \in 1..least("elems") |-> i])
        [] param.class = "NamedTupleType" /\ arg.class = "UnnamedTupleType" ->
             FoldLeft(LAMBDA d, e : unify(d, element(e), K(arg, "element")), sub, param.kids.elems)
        [] OTHER -> sub

\* The parameters a call of signature f deduces, from its generic arguments and
\* then from the types of its arguments.
Deduced(f, genericArgs, valid, argTypes) ==
  LET param(i) == Node("GenericIndexSet", <<>>, [setName |-> f.kids.genericParams[i].data.name,
                                                 type |-> f.kids.genericParams[i].data.type])
      both(a, b) == [i \in 1..(IF Len(a) < Len(b) THEN Len(a) ELSE Len(b)) |-> i]
      fromArgs == FoldLeft(LAMBDA d, i : IF valid[i] THEN unifySets(d, param(i), genericArgs[i]) ELSE d, <<>>,
                           both(genericArgs, f.kids.genericParams))
  IN  FoldLeft(LAMBDA d, i : IF argTypes[i].def /\ IsSingle(argTypes[i])
                             THEN unify(d, K(f.kids.args[i], "type"), argTypes[i].types[1]) ELSE d,
               fromArgs, both(argTypes, f.kids.args))

\* ReplaceTypeParams: parameters become their sets, loops over ranges loops
\* over integers, and range constants literals.
RECURSIVE Substituted(_, _)
Substituted(n, sub) ==
  LET below == [n EXCEPT !.kids = [f \in DOMAIN n.kids |->
                  IF f \in Rewrites(n.class) THEN [i \in DOMAIN n.kids[f] |-> Substituted(n.kids[f][i], sub)] ELSE n.kids[f]]]
      literal(v) == Node("IntLiteral", <<>>, [val |-> v])
  IN  CASE n.class = "GenericIndexSet" -> sub[n.data.setName]
        [] n.class = "IndexSetDomain" /\ K(below, "set").class = "RangeIndexSet" ->
             Node("RangeDomain", [lower |-> <<literal(0)>>, upper |-> <<literal(K(below, "set").data.range)>>], <<>>)
        [] n.class = "RangeConst" -> literal(sub[n.data.ident].data.range)
        [] OTHER -> below

\* getConcretizedTypeSignatureString prints sets by their definition, and
\* element types without their source.
RECURSIVE Printed(_)
Printed(n) ==
  IF n.class \in SetRefs THEN SetRef("SetIndexSet", "", n.data.setDef)
  ELSE [class |-> n.class, kids |-> [f \in DOMAIN n.kids |-> [i \in DOMAIN n.kids[f] |-> Printed(n.kids[f][i])]],
        data |-> [f \in DOMAIN n.data \ {"source"} |-> n.data[f]]]

\* Mutant: the signature leaves the results out.
SignatureOfArgs(f) ==
  <<f.data.type, f.data.originalName, [i \in DOMAIN f.kids.args |-> Printed(f.kids.args[i])]>>

getConcretizedTypeSignatureString(f) ==
  <<f.data.type, f.data.originalName, [i \in DOMAIN f.kids.args |-> Printed(f.kids.args[i])],
    [i \in DOMAIN f.kids.results |-> Printed(f.kids.results[i])]>>

-------------------------------------------------------------------------------
(* ComputeSetDefinitions: every set is bound to its declaration.  d is the *)
(* scoped map from names to definitions, <<>> for what is not a set.       *)

RECURSIVE Resolve(_, _, _)

Bind(d, name, def) == [d EXCEPT ![Len(d)] = (name :> def) @@ @]
Found(d, name) == \E i \in DOMAIN d : name \in DOMAIN d[i]
Lookup(d, name) ==
  LET inner == {i \in DOMAIN d : name \in DOMAIN d[i]}
  IN  IF inner = {} THEN <<>> ELSE d[CHOOSE i \in inner : \A j \in inner : j <= i][name]

\* The fields of n, in the order they are visited; body(f) is in a scope of its own.
ResolveFields(cur, d, n, fields, scoped) ==
  FoldLeft(LAMBDA acc, f :
    LET into == IF f \in scoped THEN Append(acc.d, <<>>) ELSE acc.d
        r == FoldLeft(LAMBDA a, i : LET x == Resolve(cur, a.d, a.n.kids[f][i])
                                    IN  [d |-> x.d, n |-> [a.n EXCEPT !.kids[f][i] = x.n]],
                      [d |-> into, n |-> acc.n], [i \in DOMAIN acc.n.kids[f] |-> i])
    IN  [d |-> IF f \in scoped THEN Front(r.d) ELSE r.d, n |-> r.n],
    [d |-> d, n |-> n], fields)

Resolve(cur, d, n) ==
  LET plain == ResolveFields(cur, d, n, Visits(n.class), {})
      names(decl) == Bind(plain.d, K(n, "name").data.ident,
                          IF n.kids.type # <<>> /\ K(n, "type").class \in SetTypes
                          THEN <<cur, K(n, "name").data.ident>> ELSE <<>>)
  IN  CASE n.class \in SetRefs -> [d |-> d, n |-> [n EXCEPT !.data.setDef = Lookup(d, n.data.setName)]]
        [] n.class = "ElementType" /\ n.data.source # <<>> ->
             [d |-> d, n |-> [n EXCEPT !.data.source[1].data.setDef = Lookup(d, n.data.source[1].data.setName)]]
        [] n.class \in {"IdentDecl", "Argument", "InOutArgument", "ExternDecl", "VarDecl", "ConstDecl"} ->
             [d |-> names(n), n |-> plain.n]
        [] n.class = "FuncDecl" ->
             LET outer == Bind(d, K(n, "name").data.ident, <<>>)
                 params == [p \in {n.kids.genericParams[i].data.name : i \in DOMAIN n.kids.genericParams} |-> <<cur, p>>]
                 r == ResolveFields(cur, Append(outer, params), n, Visits("FuncDecl"), {})
             IN  [d |-> outer, n |-> r.n]
        [] n.class \in {"WhileStmt", "DoWhileStmt", "IfStmt"} ->
             ResolveFields(cur, d, n, Visits(n.class), {"body", "ifBody", "elseBody"})
        [] n.class = "ForStmt" ->
             LET domain == ResolveFields(cur, Append(d, <<>>), n, <<"domain">>, {})
                 body == ResolveFields(cur, Bind(domain.d, K(n, "loopVar").data.ident, <<>>), domain.n, <<"body">>, {})
             IN  [d |-> d, n |-> body.n]
        [] n.class = "AssignStmt" ->
             LET r == ResolveFields(cur, d, n, <<"expr", "lhs">>, {})
             IN  [r EXCEPT !.d = FoldLeft(LAMBDA dd, l : IF l.class = "VarExpr" /\ ~Found(dd, l.data.ident)
                                                        THEN Bind(dd, l.data.ident, <<>>) ELSE dd, @, n.kids.lhs)]
        [] OTHER -> plain

UndefinedSet == Node("HeterogeneousEdgeSetType", [element |-> <<Node("ElementType", <<>>, <<>>)>>], <<>>)

\* The sets an element of the program declares, and their types.
DefinedSets(cur, n) ==
  LET declared == UNION {Nodes(n, c) : c \in {"IdentDecl", "Argument", "InOutArgument", "ExternDecl", "VarDecl", "ConstDecl"}}
      sets == {x \in declared : x.kids.type # <<>> /\ K(x, "type").class \in SetTypes}
      params == IF n.class = "FuncDecl" THEN {n.kids.genericParams[i].data.name : i \in DOMAIN n.kids.genericParams} ELSE {}
  IN  [def \in {<<cur, K(x, "name").data.ident>> : x \in sets} |->
         K(CHOOSE x \in sets : K(x, "name").data.ident = def[2], "type")]
      @@ [def \in {<<cur, p>> : p \in params} |-> UndefinedSet]

\* Every element of the program, in order.
computeSetDefinitions(elems, decls) ==
  LET all == FoldLeft(LAMBDA acc, id : LET r == Resolve(id, acc.d, acc.decls[id])
                                       IN  [d |-> r.d, decls |-> [acc.decls EXCEPT ![id] = r.n]],
                      [d |-> <<<<>>>>, decls |-> decls], elems)
  IN  [decls |-> all.decls,
       defs |-> FoldLeft(LAMBDA m, id : DefinedSets(id, all.decls[id]) @@ m, <<>>, elems)]
===============================================================================
