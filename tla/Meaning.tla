-------------------------------- MODULE Meaning --------------------------------
(***************************************************************************)
(* What a procedure of the language computes, without storage, indices,    *)
(* temporaries or loops: the abstract specification of lowering and code   *)
(* generation.  A tensor is a function from index tuples to values, zero   *)
(* where nothing was assembled; an index expression sums its own reduction *)
(* variables; a map applies its function to the elements in turn.          *)
(*                                                                         *)
(* v maps variables (and the fields, see FieldVar) to tensors; c is        *)
(* [g, funcs, kernels, elems |-> the set of each element variable,         *)
(* nbrs |-> the edge an endpoint tuple belongs to, add |-> writes add up]. *)
(***************************************************************************)
EXTENDS Codegen

Tuples(t, g) ==
  LET R(s) == 0..SizeOf(s, g) - 1
  IN CASE Len(t) = 0 -> {<<>>} [] Len(t) = 1 -> {<<i>> : i \in R(t[1])} [] Len(t) = 2 -> {<<i, j>> : i \in R(t[1]), j \in R(t[2])}

Names(vs) == {vs[i].n : i \in DOMAIN vs}
\* The values of reduction variables.
Assignments(vs, g) ==
  {r \in [Names(vs) -> 0..Max({SizeOf(vs[i].s, g) : i \in DOMAIN vs} \cup {1}) - 1] :
     \A i \in DOMAIN vs : r[vs[i].n] < SizeOf(vs[i].s, g)}

RECURSIVE MeanAt(_, _, _, _)
RECURSIVE MeanOf(_, _, _, _)

\* The entry of a tensor expression at an index tuple.
MeanAt(e, ix, v, c) ==
  LET red == GetReductionVars(e.k[1])
      env == [n \in Names(e.d.rv) |-> ix[CHOOSE i \in DOMAIN ix : e.d.rv[i].n = n]]
  IN CASE e.o = "VarExpr" -> v[e.d][ix]
       [] e.o = "FieldRead" /\ Isa(e.k[1], "SetExpr") -> v[FieldVar(e.k[1].d.s, e.d.f)][ix]
       [] e.o = "IndexExpr" -> FoldSet(LAMBDA r, sum : sum + MeanOf(e.k[1], r @@ env, v, c), 0, Assignments(red, c.g))
       [] OTHER -> MeanOf(e, <<>>, v, c)

Endpoint(x, i, v, c) == c.g.ends[c.nbrs[x].set][v[c.nbrs[x].of][<<>>] + 1][i + 1]

\* A scalar expression, with the values r of the index variables.
MeanOf(e, r, v, c) ==
  LET b == e.k[1]
      i == MeanOf(b, r, v, c)
  IN CASE e.o = "Literal" -> e.d.v
       [] e.o = "VarExpr" -> v[e.d][<<>>]
       [] e.o = "IndexedTensor" -> MeanAt(b, [n \in DOMAIN e.d.iv |-> r[e.d.iv[n].n]], v, c)
       [] e.o = "IndexExpr" -> MeanAt(e, <<>>, v, c)
       [] e.o = "TupleRead" -> Endpoint(b.d, e.k[2].d.v, v, c)
       [] e.o = "FieldRead" -> v[FieldVar(IF Isa(b, "TupleRead") THEN "V" ELSE c.elems[b.d], e.d.f)][<<i>>]
       [] e.o = "TensorRead" -> MeanAt(b, [n \in 1..Len(e.k) - 1 |-> MeanOf(e.k[n + 1], r, v, c)], v, c)
       [] e.o = "Neg" -> 0 - i
       [] OTHER -> Arith(e.o, i, MeanOf(e.k[2], r, v, c))

Zeros(t, g) == [ix \in Tuples(t, g) |-> 0]
WriteAt(v, x, ix, new, add) == [v EXCEPT ![x][ix] = IF add THEN @ + new ELSE new]

RECURSIVE Mean(_, _, _)
Mean(s, v, c) ==
  LET Whole(x, t, e, cop) == Put(v, x, [ix \in Tuples(t, c.g) |-> (IF cop = "+" THEN v[x][ix] ELSE 0) + MeanAt(e, ix, v, c)])
      base == s.k[1]
      at == MeanOf(base, <<>>, v, c)
      f == c.funcs[s.d.f]
      Bound(args, as) == [x \in ToSet(args) |-> LET a == as[CHOOSE i \in DOMAIN args : args[i] = x]
                                                IN [ix \in Tuples(x.t, c.g) |-> MeanAt(a, ix, v, c)]]
      called == Mean(f.body, Bound(f.args, s.k) @@ v, c)
      \* A parameter that the function writes is written to the actual.
      Back(w, i) ==
        LET a == s.k[i]
            new == called[f.args[i]]
        IN IF f.args[i] \notin GetWrites(f.body) THEN w
           ELSE CASE a.o = "VarExpr" -> Put(w, a.d, new)
                  [] a.o = "FieldRead" -> Put(w, FieldVar(a.k[1].d.s, a.d.f), new)
                  [] a.o = "TensorRead" -> WriteAt(w, a.k[1].d, [n \in 1..Len(a.k) - 1 |-> MeanOf(a.k[n + 1], <<>>, v, c)], new[<<>>], FALSE)
      k == c.kernels[s.d.f]
      Old(x, y) == IF ~s.d.red /\ x \in DOMAIN v THEN v[x] ELSE Zeros(y.t, c.g)
      kc == [c EXCEPT !.elems = Put(@, k.target, s.d.s), !.nbrs = Put(@, k.nbrs, [of |-> k.target, set |-> s.d.s]), !.add = s.d.red]
      mapped == FoldLeft(LAMBDA w, i : Mean(k.body, Put(w, k.target, (<<>> :> i)), kc),
                         [y \in ToSet(k.results) |-> Old(s.d.rs[CHOOSE i \in DOMAIN k.results : k.results[i] = y], y)]
                           @@ Bound(k.params, s.k) @@ v,
                         [i \in 1..SizeOf(s.d.s, c.g) |-> i - 1])
      Results(rs, from, w) == [x \in ToSet(rs) |-> w[from[CHOOSE i \in DOMAIN rs : rs[i] = x]]] @@ v
      Fields(w) == [x \in {y \in DOMAIN w : y.n[1] = "field"} |-> w[x]]
      loop == FoldLeft(LAMBDA w, i : Mean(s.k[1], Put(w, s.d.x, (<<>> :> i)), [c EXCEPT !.elems = Put(@, s.d.x, s.d.s)]),
                       v, [i \in 1..SizeOf(s.d.s, c.g) |-> i - 1])
  IN CASE s.o \in {"Block", "Scope"} -> FoldLeft(LAMBDA w, t : Mean(t, w, c), v, s.k)
       [] s.o = "VarDecl" -> v
       [] s.o = "AssignStmt" -> Whole(s.d.x, s.d.x.t, s.k[1], s.d.c)
       [] s.o = "FieldWrite" /\ Isa(base, "SetExpr") -> Whole(FieldVar(base.d.s, s.d.f), s.d.t, s.k[2], s.d.c)
       [] s.o = "FieldWrite" -> WriteAt(v, FieldVar(IF Isa(base, "TupleRead") THEN "V" ELSE c.elems[base.d], s.d.f),
                                        <<at>>, MeanOf(s.k[2], <<>>, v, c), FALSE)
       [] s.o = "TensorWrite" -> WriteAt(v, base.d, [i \in 1..Len(s.k) - 2 |-> MeanOf(s.k[i + 2], <<>>, v, c)],
                                         MeanOf(s.k[2], <<>>, v, c), c.add)
       [] s.o = "For" -> loop
       [] s.o = "CallStmt" /\ s.d.f = "dot" ->
            Put(v, s.d.rs[1], (<<>> :> FoldSet(LAMBDA ix, sum : sum + MeanAt(s.k[1], ix, v, c) * MeanAt(s.k[2], ix, v, c),
                                               0, Tuples(Type(s.k[1]), c.g))))
       [] s.o = "CallStmt" -> FoldLeft(Back, Fields(called) @@ Results(s.d.rs, f.results, called), [i \in DOMAIN s.k |-> i])
       [] s.o = "Map" -> Fields(mapped) @@ Results(s.d.rs, k.results, mapped)
===============================================================================
