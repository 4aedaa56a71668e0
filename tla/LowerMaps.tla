------------------------------- MODULE LowerMaps -------------------------------
(***************************************************************************)
(* lowerMaps (src/lower/lower_maps.cpp, src/inline.cpp): a map becomes a   *)
(* loop over its target set with the mapped function inlined.  A mapped    *)
(* function is [params |-> the partial parameters, target |-> the target   *)
(* element, nbrs |-> the tuple of its endpoints, card |-> their number,    *)
(* results, body].  Edge sets are homogeneous: all endpoints are in "V".   *)
(***************************************************************************)
EXTENDS Storage

LoopVar == Var(<<"lv">>, <<>>)
Eps == Var(<<"eps">>, <<"R2">>)
LocVar == Var(<<"locVar">>, <<>>)
IntVar(n) == Var(<<n>>, <<>>)
Plus(a, b) == Binary("Add", a, b)
Times(a, b) == Binary("Mul", a, b)

\* The loc intrinsic: the place of column j in row i.
LocCall(x, i, j, p) == CallStmt(<<x>>, "loc", <<i, j, Rowptr(p), Colidx(p)>>)

-------------------------------------------------------------------------------
(* MapFunctionRewriter.  m is the record of its members.                   *)

NeighborIndex(m, i) ==
  Load(Endpoints(m.set), Plus(IF m.card = 1 THEN VarE(LoopVar) ELSE Times(VarE(LoopVar), Lit(m.card)), i))

\* makeCompoundTensorWrite
CompoundWrite(m, a, is, v) == TensorWrite(a, is, v, IF m.red THEN "+" ELSE "")

TupleIndices(is) == LET ts == SelectSeq(is, LAMBDA i : i.o = "TupleRead") IN [i \in DOMAIN ts |-> ts[i].k[2]]

RECURSIVE RewriteKernel(_, _)
RewriteKernel(e, m) ==
  LET R(x) == RewriteKernel(x, m)
      OfTarget(b) == b = VarE(m.target)
      SetOf(b) == IF OfTarget(b) THEN m.set ELSE "V"
      Field(b, f) == FieldRead(SetE(SetOf(b)), f, <<SetOf(b)>>)
      x == e.k[1].d
      mv == m.res[x]
  IN CASE e.o = "FieldWrite" -> TensorWrite(Field(e.k[1], e.d.f), <<R(e.k[1])>>, R(e.k[2]), "")
       [] e.o = "FieldRead" -> TensorRead(Field(e.k[1], e.d.f), <<R(e.k[1])>>)
       [] e.o = "TupleRead" -> NeighborIndex(m, e.k[2])
       [] e.o = "VarExpr" -> IF OfTarget(e) THEN VarE(LoopVar)
                             ELSE IF e.d \in DOMAIN m.res THEN VarE(m.res[e.d]) ELSE e
       [] e.o = "TensorWrite" /\ x \in DOMAIN m.res ->
            IF mv \in DOMAIN m.locs
              THEN CompoundWrite(m, VarE(mv), <<TensorRead(VarE(m.locs[mv]), TupleIndices(SubSeq(e.k, 3, 4)))>>, R(e.k[2]))
              ELSE CompoundWrite(m, VarE(mv), [i \in 1..Len(e.k) - 2 |-> R(e.k[i + 2])], R(e.k[2]))
       [] OTHER -> MapKids(e, R)

-------------------------------------------------------------------------------
(* inlineMapFunction: the endpoints and the locations of the entries of    *)
(* the mapped edge are gathered first.                                     *)

GatherEps(set, card) ==
  LET i == IntVar("i")
  IN Block(<<VarDecl(Eps), ForRange(i, Lit(0), Lit(card),
       TensorWrite(VarE(Eps), <<VarE(i)>>, Load(Endpoints(set), Plus(Times(VarE(LoopVar), Lit(card)), VarE(i))), ""))>>)

Loop2(i, j, card, s) == ForRange(i, Lit(0), Lit(card), ForRange(j, Lit(0), Lit(card), s))

GatherVVLocs(p, card, locs) ==
  LET i == IntVar("i")
      j == IntVar("j")
  IN Block(<<VarDecl(locs), Loop2(i, j, card,
       Block(<<LocCall(LocVar, Load(VarE(Eps), VarE(i)), Load(VarE(Eps), VarE(j)), p),
               TensorWrite(VarE(locs), <<VarE(i), VarE(j)>>, VarE(LocVar), "")>>))>>)

GatherVELocs(p, card, locs) ==
  LET i == IntVar("i")
  IN Block(<<VarDecl(locs), ForRange(i, Lit(0), Lit(card),
       Block(<<LocCall(LocVar, Load(VarE(Eps), VarE(i)), VarE(LoopVar), p),
               TensorWrite(VarE(locs), <<VarE(i)>>, VarE(LocVar), "")>>))>>)

GatherEVLocs(card, locs) ==
  LET i == IntVar("i")
  IN Block(<<VarDecl(locs), ForRange(i, Lit(0), Lit(card),
       TensorWrite(VarE(locs), <<VarE(i)>>, Plus(Times(VarE(LoopVar), Lit(card)), VarE(i)), ""))>>)

\* One locs variable for the results that share an index.
LocsName(q, p) == CHOOSE i \in DOMAIN q.reg : Structure(q.reg[i]) = Structure(p)
LocsVar(q, x, set) == Var(<<"locs", LocsName(q, q.st[x].p)>>, IF set \in ToSet(x.t) THEN <<"R2">> ELSE <<"R2", "R2">>)

GatherLocs(q, x, set, card) ==
  LET locs == LocsVar(q, x, set)
  IN CASE x.t[1] # set /\ x.t[2] # set -> GatherVVLocs(q.st[x].p, card, locs)
       [] x.t[1] # set /\ x.t[2] = set -> GatherVELocs(q.st[x].p, card, locs)
       [] OTHER -> GatherEVLocs(card, locs)

InlineMapFunction(s, f, q) ==
  LET set == s.d.s
      rs == s.d.rs
      indexed == {x \in ToSet(rs) : q.st[x].k = "Indexed"}
      needed == SelectSeq([i \in DOMAIN rs |-> i], LAMBDA i : rs[i] \in indexed /\
                  \A j \in 1..i - 1 : rs[j] \in indexed => LocsVar(q, rs[j], set) # LocsVar(q, rs[i], set))
      m == [target |-> f.target, set |-> set, card |-> f.card, red |-> s.d.red,
            res |-> [x \in ToSet(f.results) |-> rs[CHOOSE i \in DOMAIN rs : f.results[i] = x]],
            locs |-> [x \in indexed |-> LocsVar(q, x, set)]]
      init == <<GatherEps(set, f.card)>> \o [i \in DOMAIN needed |-> GatherLocs(q, rs[needed[i]], set, f.card)]
      returnsMatrix == \E i \in DOMAIN f.results : Len(f.results[i].t) = 2
  IN IF returnsMatrix /\ f.card > 0 THEN Block(Append(init, RewriteKernel(f.body, m)))
     ELSE RewriteKernel(f.body, m)

\* inlineMap: partial actuals are assigned to the parameters first, and the
\* results of a reduction start at zero.
InlineMap(s, f, q) ==
  LET inits == [i \in DOMAIN f.params |-> Assign(f.params[i], s.k[i], "")]
      loop == For(LoopVar, s.d.s, InlineMapFunction(s, f, q))
      zeros == IF s.d.red THEN Reverse([i \in DOMAIN s.d.rs |-> Assign(s.d.rs[i], Lit(0), "")]) ELSE <<>>
  IN Block(zeros \o inits \o <<loop>>)

RECURSIVE LowerMapStmts(_, _, _)
LowerMapStmts(s, kernels, q) ==
  CASE s.o = "Map" -> InlineMap(s, kernels[s.d.f], q)
    [] s.o = "Block" -> Block([i \in DOMAIN s.k |-> LowerMapStmts(s.k[i], kernels, q)])
    [] s.o \in {"Scope", "For"} -> MapKids(s, LAMBDA c : LowerMapStmts(c, kernels, q))
    [] OTHER -> s
===============================================================================
