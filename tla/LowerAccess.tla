------------------------------ MODULE LowerAccess ------------------------------
(***************************************************************************)
(* lowerFieldAccesses and lowerTensorAccesses                              *)
(* (src/lower/lower_accesses.cpp), which turn tensor reads and writes into *)
(* loads and stores, and lowerUnroll (src/lower/lower_unroll.cpp).         *)
(***************************************************************************)
EXTENDS LowerIndex, Flatten

\* lowerFieldAccesses: a field of a loop's element is an entry of the set's field.
RECURSIVE LowerFieldAccesses(_, _)
LowerFieldAccesses(s, elemVars) ==
  LET x == s.k[1].d
  IN CASE s.o = "For" -> MapKids(s, LAMBDA c : LowerFieldAccesses(c, Put(elemVars, s.d.x, s.d.s)))
       [] s.o = "FieldRead" /\ Isa(s.k[1], "VarExpr") /\ x \in DOMAIN elemVars ->
            TensorRead(FieldRead(SetE(elemVars[x]), s.d.f, <<elemVars[x]>>), <<VarE(x)>>)
       [] OTHER -> MapKids(s, LAMBDA c : LowerFieldAccesses(c, elemVars))

\* createLengthComputation
RangeSize == 2
LengthOf(s) == IF s \in Ranges THEN Lit(RangeSize) ELSE Length(s)

AccessKind(a, q) == IF Isa(a, "VarExpr") /\ a.d \in DOMAIN q.st THEN q.st[a.d].k ELSE "Dense"

\* flattenIndices: the place of an entry in its buffer.  An entry of an indexed
\* matrix given by two coordinates is searched by loc, in a spilled statement.
FlattenIndices(a, is, q) ==
  LET kind == AccessKind(a, q)
      Place(e) == [e |-> e, pre |-> <<>>]
  IN CASE kind = "Diagonal" \/ Len(is) = 1 -> Place(is[1])
       [] kind = "Indexed" -> [e |-> VarE(LocVar), pre |-> <<VarDecl(LocVar), LocCall(LocVar, is[1], is[2], q.st[a.d].p)>>]
       [] OTHER -> Place(Plus(Times(is[1], LengthOf(Type(a)[2])), is[2]))

RECURSIVE LowerReads(_, _)
LowerReads(e, q) ==     \* [e |-> expression, pre |-> spilled statements]
  LET ks == [i \in DOMAIN e.k |-> LowerReads(e.k[i], q)]
      pre == FlattenSeq([i \in DOMAIN ks |-> ks[i].pre])
      es == [i \in DOMAIN ks |-> ks[i].e]
      at == FlattenIndices(e.k[1], Tail(es), q)
  IN IF Isa(e, "TensorRead") THEN [e |-> Load(es[1], at.e), pre |-> pre \o at.pre]
     ELSE [e |-> [e EXCEPT !.k = es], pre |-> pre]

RECURSIVE LowerTensorAccesses(_, _)
LowerTensorAccesses(s, q) ==
  LET r == LowerReads(s, q)
      at == FlattenIndices(s.k[1], SubSeq(r.e.k, 3, Len(r.e.k)), q)
      L(c) == LowerTensorAccesses(c, q)
  IN CASE s.o = "Block" -> Block([i \in DOMAIN s.k |-> L(s.k[i])])
       [] s.o \in {"For", "ForRange", "Scope", "While"} -> [s EXCEPT !.k[Len(s.k)] = L(@)]
       [] s.o = "IfThenElse" -> [s EXCEPT !.k[2] = L(@), !.k[3] = L(@)]
       [] s.o = "TensorWrite" -> Block(r.pre \o at.pre \o <<Store(r.e.k[1], at.e, r.e.k[2], s.d.c)>>)
       [] OTHER -> Block(Append(r.pre, r.e))

-------------------------------------------------------------------------------
(* LowerUnroll: the copies are of the body as it was before this pass, so  *)
(* each pass unrolls one level of a nest.                                  *)

UnrollMax == 4
Unrolled(body, x, n) == Block([i \in 1..n |-> ReplaceVarByExpr(body, x, Lit(i - 1))])

RECURSIVE LowerUnroll(_)
LowerUnroll(s) ==
  LET n == IF s.o = "For" THEN RangeSize ELSE s.k[2].d.v - s.k[1].d.v
      fixed == \/ s.o = "For" /\ s.d.s \in Ranges
               \/ s.o = "ForRange" /\ Isa(s.k[1], "Literal") /\ Isa(s.k[2], "Literal")
  IN IF s.o = "Block" THEN Block([i \in DOMAIN s.k |-> LowerUnroll(s.k[i])])
     ELSE IF fixed /\ n > 0 /\ n <= UnrollMax THEN Unrolled(s.k[Len(s.k)], s.d.x, n)
     ELSE MapKids(s, LowerUnroll)
===============================================================================
