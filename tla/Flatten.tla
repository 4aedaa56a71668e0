-------------------------------- MODULE Flatten --------------------------------
(***************************************************************************)
(* The passes before storage is decided: inlineCalls (src/inline.cpp),     *)
(* flattenIndexExpressions (src/flatten.cpp) and insertTemporaries         *)
(* (src/temps.cpp).  A rewriter that spills returns                        *)
(*     [e |-> the expression, pre |-> the spilled statements, n |-> count] *)
(* where n numbers the temporaries (the static counter of tmpNameGen).     *)
(***************************************************************************)
EXTENDS Ir

Done(e, n) == [e |-> e, pre |-> <<>>, n |-> n]

-------------------------------------------------------------------------------
(* inlineCalls.  A function is [args |-> Vars, results |-> Vars, body].    *)

\* ReadWriteAnalysis::getWrites (nothing is stored before lowering).
Writes(n) == CASE n.o \in {"AssignStmt", "VarDecl"} -> {n.d.x}
               [] n.o = "CallStmt" -> ToSet(n.d.rs)
               [] n.o = "FieldWrite" /\ Isa(n.k[1], "VarExpr") -> {n.k[1].d}
               [] OTHER -> {}
GetWrites(s) == UNION {Writes(n) : n \in ToSet(Nodes(s))}

\* shouldInline: system tensors or sets in the signature, a written parameter
\* whose actual is not a variable, or sets in the body.
ShouldInline(s, f) ==
  \/ \E i \in DOMAIN f.args : HasSystemDimensions(f.args[i].t)
  \/ \E i \in DOMAIN f.results : HasSystemDimensions(f.results[i].t)
  \/ \E i \in DOMAIN s.k : ~Isa(s.k[i], "VarExpr") /\ f.args[i] \in GetWrites(f.body)
  \/ \E i \in DOMAIN Nodes(f.body) : LET n == Nodes(f.body)[i] IN
       n.o \in {"SetExpr", "For"} \/ (n.o = "VarDecl" /\ HasSystemDimensions(n.d.x.t))

\* replaceVarByExpr: a parameter by the actual, where it is read and where it
\* is written.
RECURSIVE ReplaceVarByExpr(_, _, _)
ReplaceVarByExpr(e, x, v) ==
  LET kids == MapKids(e, LAMBDA c : ReplaceVarByExpr(c, x, v))
      written == e.o = "AssignStmt" /\ e.d.x = x
      Sub(y) == IF y = x THEN v.d ELSE y
  IN CASE e = VarE(x) -> v
       [] written /\ Isa(v, "VarExpr") -> [kids EXCEPT !.d.x = v.d]
       [] written /\ Isa(v, "FieldRead") -> FieldWrite(v.k[1], v.d.f, v.d.t, kids.k[1], e.d.c)
       [] written /\ Isa(v, "TensorRead") -> TensorWrite(v.k[1], Tail(v.k), kids.k[1], e.d.c)
       [] e.o \in {"CallStmt", "Map"} -> [kids EXCEPT !.d.rs = [i \in DOMAIN @ |-> Sub(@[i])]]
       [] OTHER -> kids

\* Mutant: no actual is looked at.
ReferencedVarsNone(as) == {}

ReferencedVars(as) ==
  UNION {{NodesOf(as[i], "VarExpr")[j].d : j \in DOMAIN NodesOf(as[i], "VarExpr")} : i \in DOMAIN as}

InlineId == 200

\* CallRewriter::visit(CallStmt): parameters become the actuals; a result the
\* actuals mention is computed into a temporary and copied afterwards.
InlineCall(s, f) ==
  LET body == FoldLeft(LAMBDA b, i : ReplaceVarByExpr(b, f.args[i], s.k[i]), f.body, [i \in DOMAIN f.args |-> i])
      Result(b, i) ==
        IF s.d.rs[i] \in ReferencedVars(s.k)
          THEN LET tmp == Var(<<"inline", i>>, s.d.rs[i].t)
               IN Block(<<VarDecl(tmp), ReplaceVar(b, f.results[i], tmp),
                          Assign(s.d.rs[i], UnaryElwise(InlineId + i, "Copy", VarE(tmp)), "")>>)
          ELSE ReplaceVar(b, f.results[i], s.d.rs[i])
  IN FoldLeft(Result, Scope(body), [i \in DOMAIN s.d.rs |-> i])

RECURSIVE InlineCalls(_, _)
InlineCalls(s, funcs) ==
  IF s.o = "CallStmt" /\ s.d.f \in DOMAIN funcs
    THEN IF ShouldInline(s, funcs[s.d.f]) THEN InlineCall(s, funcs[s.d.f]) ELSE s
    ELSE IF s.o \in {"Block", "Scope", "For"} THEN MapKids(s, LAMBDA c : InlineCalls(c, funcs)) ELSE s

-------------------------------------------------------------------------------
(* flattenIndexExpressions.                                                *)

IsPermutation(as, bs) == Len(as) = Len(bs) /\ \A i \in DOMAIN as :
  Cardinality({j \in DOMAIN as : as[j] = as[i]}) = Cardinality({j \in DOMAIN bs : bs[j] = as[i]})

IsTransposeOfTensorElwise(ie) ==
  LET ts == IndexedTensors(ie.k[1])
      first == CHOOSE i \in DOMAIN ts : ts[i].d.iv # <<>> /\ \A j \in 1..i - 1 : ts[j].d.iv = <<>>
  IN /\ Len(ie.d.rv) >= 2 /\ ~Isa(ie.k[1], "IndexedTensor")
     /\ \A i \in first..Len(ts) : ts[i].d.iv = ts[first].d.iv
     /\ ts[first].d.iv # ie.d.rv /\ IsPermutation(ts[first].d.iv, ie.d.rv)

SpillId == 100
SpilledTmp(n, t) == Var(<<"spilledTmp", n>>, t)

\* spill: an index expression, or a whole tensor, is assigned to a temporary.
Spill(a, n) ==
  IF ContainsIndexedTensor(a)
    THEN LET fv == GetFreeVars(a)
             v == IF Isa(a, "IndexExpr") THEN a ELSE IndexExpr(fv, a)
             tmp == SpilledTmp(n, Type(v))
         IN [e |-> IndexedTensor(VarE(tmp), fv), pre |-> <<Assign(tmp, v, "")>>, n |-> n + 1]
  ELSE IF ~IsScalar(Type(a))
    THEN LET tmp == SpilledTmp(n, Type(a))
         IN [e |-> VarE(tmp), pre |-> <<Assign(tmp, UnaryElwise(SpillId + n, "Copy", a), "")>>, n |-> n + 1]
  ELSE Done(a, n)

IsAnyInputSparse(e) == \E i \in DOMAIN IndexedTensors(e) : IsSparseType(Type(IndexedTensors(e)[i].k[1]))

\* spillAsNeeded
NeedsNoSpill(a, b) ==
  /\ CountIndexVars(a) = CountIndexVars(b) /\ ~IsAnyInputSparse(a) /\ ~IsAnyInputSparse(b)
  /\ Cardinality(ToSet(GetReductionVars(a)) \cup ToSet(GetReductionVars(b))) < 2

\* A result with the statements that were spilled before it.
After(pre, r) == [r EXCEPT !.pre = pre \o @]

SpillOperand(a, n) == IF Isa(a, "IndexedTensor") THEN Done(a, n) ELSE Spill(a, n)

\* The second of two matrices indexed in opposite orders is transposed.
Turned(a, b) == /\ Len(a.d.iv) >= 2 /\ Len(b.d.iv) >= 2
                /\ a.d.iv # b.d.iv /\ IsPermutation(a.d.iv, b.d.iv)
SpillTransposed(op, a, t) == [t EXCEPT !.e = Binary(op, a, IndexedTensor(@.k[1], a.d.iv))]
SpillBoth(op, a, sb) ==
  After(sb.pre, IF Turned(a, sb.e) THEN SpillTransposed(op, a, Spill(TransposedMatrix(SpillId + sb.n, sb.e.k[1]), sb.n))
                ELSE Done(Binary(op, a, sb.e), sb.n))
SpillSecond(op, sa, b) == After(sa.pre, SpillBoth(op, sa.e, SpillOperand(b, sa.n)))
SpillAsNeeded(op, a, b, n) ==
  IF NeedsNoSpill(a, b) THEN Done(Binary(op, a, b), n) ELSE SpillSecond(op, SpillOperand(a, n), b)

\* visit(IndexedTensor): an index expression below is spilled when one of the
\* variables that index it is reduced, and otherwise substituted.
FlattenIndexed(e, t) ==
  LET ie == t.e
      sub == [v \in ToSet(ie.d.rv) |-> e.d.iv[CHOOSE i \in DOMAIN ie.d.rv : ie.d.rv[i] = v]]
      tmp == SpilledTmp(t.n, Type(ie))
  IN IF ~Isa(ie, "IndexExpr") THEN [t EXCEPT !.e = IndexedTensor(ie, e.d.iv)]
     ELSE IF \E i \in DOMAIN e.d.iv : e.d.iv[i].r
       THEN [e |-> IndexedTensor(VarE(tmp), e.d.iv), pre |-> Append(t.pre, Assign(tmp, ie, "")), n |-> t.n + 1]
       ELSE [t EXCEPT !.e = SubstIVars(ie.k[1], sub)]

\* visit(IndexExpr): an element-wise expression that is turned as a whole is
\* spilled and then turned.
FlattenIndexExpr(e, v) ==
  LET ie == IndexExpr(e.d.rv, v.e)
      Turn(s) == [s EXCEPT !.e = IndexExpr(e.d.rv, @)]
  IN IF IsTransposeOfTensorElwise(ie) /\ HasSystemDimensions(Type(ie)) THEN After(v.pre, Turn(Spill(v.e, v.n)))
     ELSE [v EXCEPT !.e = ie]

RECURSIVE FlattenExpr(_, _)
FlattenSecond(e, a) ==
  LET Both(b) == After(a.pre, After(b.pre, SpillAsNeeded(e.o, a.e, b.e, b.n)))
  IN Both(FlattenExpr(e.k[2], a.n))
FlattenExpr(e, n) ==
  CASE e.o \in BinaryOps -> FlattenSecond(e, FlattenExpr(e.k[1], n))
    [] e.o = "IndexedTensor" -> FlattenIndexed(e, FlattenExpr(e.k[1], n))
    [] e.o = "IndexExpr" -> FlattenIndexExpr(e, FlattenExpr(e.k[1], n))
    [] e.o = "Neg" -> [FlattenExpr(e.k[1], n) EXCEPT !.e = Unary("Neg", @)]
    [] OTHER -> Done(e, n)

\* visit(CallStmt): actuals that are tensors but not variables are spilled.
FlattenActual(r) ==
  IF Isa(r.e, "VarExpr") \/ Isa(r.e, "SetExpr") THEN r
  ELSE After(r.pre, [Spill(r.e, r.n) EXCEPT !.e = IF Isa(@, "IndexedTensor") THEN @.k[1] ELSE @])

\* The operands of a statement, left to right, with what they spill before it.
FlattenKids(s, n) ==
  LET Operand(r) == IF s.o = "CallStmt" THEN FlattenActual(r) ELSE r
      Add(acc, r) == [ks |-> Append(acc.ks, r.e), pre |-> acc.pre \o r.pre, n |-> r.n]
  IN FoldLeft(LAMBDA acc, e : Add(acc, Operand(FlattenExpr(e, acc.n))), [ks |-> <<>>, pre |-> <<>>, n |-> n], s.k)

\* Statements: the spilled statements go before the statement.
RECURSIVE FlattenStmt(_, _)
FlattenStmt(s, n) ==
  LET WithKids(r) == [s |-> Block(Append(r.pre, [s EXCEPT !.k = r.ks])), n |-> r.n]
      Add(acc, r) == [ss |-> Append(acc.ss, r.s), n |-> r.n]
      WithStmts(r) == [s |-> IF s.o = "Block" THEN Block(r.ss) ELSE [s EXCEPT !.k = r.ss], n |-> r.n]
  IN CASE s.o \in {"Block", "Scope", "For"} ->
            WithStmts(FoldLeft(LAMBDA acc, c : Add(acc, FlattenStmt(c, acc.n)), [ss |-> <<>>, n |-> n], s.k))
       [] s.o \in {"CallStmt", "AssignStmt", "FieldWrite"} -> WithKids(FlattenKids(s, n))
       [] OTHER -> [s |-> s, n |-> n]

\* NormAndDotRewriter
NormId == 300
RECURSIVE NormAndDot(_)
NormAndDot(s) ==
  CASE s.o = "CallStmt" /\ s.d.f = "norm" ->
         LET tmp == Var(<<"normrewrite", 0>>, <<>>)
         IN Block(<<Assign(tmp, InnerProduct(NormId, s.k[1], s.k[1]), ""), CallStmt(s.d.rs, "sqrt", <<VarE(tmp)>>)>>)
    [] s.o = "CallStmt" /\ s.d.f = "dot" -> Assign(s.d.rs[1], InnerProduct(NormId, s.k[1], s.k[2]), "")
    [] s.o = "Block" -> Block([i \in DOMAIN s.k |-> NormAndDot(s.k[i])])
    [] s.o \in {"Scope", "For"} -> MapKids(s, NormAndDot)
    [] OTHER -> s

FlattenIndexExpressions(s) == InsertVarDecls(FlattenStmt(NormAndDot(s), 0).s, {}).s

-------------------------------------------------------------------------------
(* insertTemporaries.                                                      *)

\* GetFieldRead: the last read, in the order of the visitor, of the field that a
\* statement writes, as a sequence of at most one node.
GetFieldRead(s) ==
  LET reads == SelectSeq(NodesOf(s.k[2], "FieldRead"), LAMBDA n : n.k[1] = s.k[1] /\ n.d.f = s.d.f)
  IN IF reads = <<>> THEN <<>> ELSE <<Last(reads)>>

\* Mutant: the field is written in place.
IsFieldReducedNever(s, read) == FALSE

\* IsFieldReduced: that very node is indexed by a reduction variable.
IsFieldReduced(s, read) == \E i \in DOMAIN IndexedTensors(s.k[2]) : LET t == IndexedTensors(s.k[2])[i] IN
  t.k[1] = read /\ \E j \in DOMAIN t.d.iv : t.d.iv[j].r

NeedsTemporary(s) == \E read \in ToSet(GetFieldRead(s)) : IsFieldReduced(s, read)

RECURSIVE InsertTemps(_, _)
InsertTemps(s, n) ==    \* [s |-> statement, n |-> number of temporaries]
  CASE s.o = "FieldWrite" /\ NeedsTemporary(s) ->
         LET tmp == Var(<<"fieldTmp", n>>, s.d.t)
         IN [s |-> Block(<<Assign(tmp, s.k[2], ""), FieldWrite(s.k[1], s.d.f, s.d.t, VarE(tmp), "")>>), n |-> n + 1]
    [] s.o \in {"Block", "Scope", "For"} ->
         LET r == FoldLeft(LAMBDA acc, c : LET f == InsertTemps(c, acc.n) IN [ss |-> Append(acc.ss, f.s), n |-> f.n],
                           [ss |-> <<>>, n |-> n], s.k)
         IN [s |-> IF s.o = "Block" THEN Block(r.ss) ELSE [s EXCEPT !.k = r.ss], n |-> r.n]
    [] OTHER -> [s |-> s, n |-> n]

InsertTemporaries(s) == InsertVarDecls(InsertTemps(s, 0).s, {}).s
===============================================================================
