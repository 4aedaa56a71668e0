-------------------------------- MODULE Codegen --------------------------------
(***************************************************************************)
(* What the code LLVMBackend (src/backend/llvm/llvm_backend.cpp) generates *)
(* for a lowered procedure does.  c is the context of a run: c.g the graph *)
(* (see Storage), c.q the storage, c.idx the arrays of the tensor indices, *)
(* c.funcs the functions.  m is the memory: m.sc the scalars on the stack, *)
(* m.buf the buffers, [0..n-1 -> value], and m.fault, "" or the first      *)
(* thing that went wrong.  Undef is the value of memory nobody wrote, and  *)
(* of a load outside a buffer.                                             *)
(***************************************************************************)
EXTENDS LowerAccess

CONSTANT Undef

FieldVar(s, f) == Var(<<"field", s, f>>, <<s>>)
SizeOf(s, g) == IF s \in Ranges THEN RangeSize ELSE g.size[s]

-------------------------------------------------------------------------------
(* Expressions.                                                            *)

At(a, i) == IF i # Undef /\ i \in DOMAIN a THEN a[i] ELSE Undef
FromSeq(s) == [i \in 0..Len(s) - 1 |-> s[i + 1]]

\* The buffer an expression points to.
BufferOf(e, m, c) ==
  CASE e.o = "VarExpr" -> m.buf[e.d]
    [] e.o = "FieldRead" -> m.buf[FieldVar(e.k[1].d.s, e.d.f)]
    [] e.o = "Rowptr" -> c.idx[LocsName(c.q, e.d.p)].rowptr
    [] e.o = "Colidx" -> c.idx[LocsName(c.q, e.d.p)].colidx
    [] e.o = "Endpoints" -> FromSeq(FlattenSeq(c.g.ends[e.d.s]))

Arith(o, a, b) ==
  CASE o = "And" -> IF FALSE \in {a, b} THEN FALSE ELSE IF Undef \in {a, b} THEN Undef ELSE TRUE
    [] o # "And" /\ Undef \in {a, b} -> Undef
    [] o = "Add" -> a + b
    [] o = "Sub" -> a - b
    [] o = "Mul" -> a * b
    [] o = "Lt" -> a < b
    [] o = "Gt" -> a > b
    [] o = "Eq" -> a = b

RECURSIVE Eval(_, _, _)
Eval(e, m, c) ==
  CASE e.o = "Literal" -> e.d.v
    [] e.o = "VarExpr" -> IF e.d \in DOMAIN m.sc THEN m.sc[e.d] ELSE Undef
    [] e.o = "Load" -> At(BufferOf(e.k[1], m, c), Eval(e.k[2], m, c))
    [] e.o = "Length" -> SizeOf(e.d.s, c.g)
    [] e.o = "Neg" -> Arith("Sub", 0, Eval(e.k[1], m, c))
    [] OTHER -> Arith(e.o, Eval(e.k[1], m, c), Eval(e.k[2], m, c))

-------------------------------------------------------------------------------
(* Statements.                                                             *)

Fault(m, why) == [m EXCEPT !.fault = IF @ = "" THEN why ELSE @]
SetScalar(m, x, v) == [m EXCEPT !.sc = Put(@, x, v)]
BufferVar(e) == IF Isa(e, "VarExpr") THEN e.d ELSE FieldVar(e.k[1].d.s, e.d.f)

\* compile(Store)
ExecStore(s, m, c) ==
  LET x == BufferVar(s.k[1])
      i == Eval(s.k[2], m, c)
      v == Eval(s.k[3], m, c)
      new == CASE s.d.c = "" -> v [] s.d.c = "+" -> Arith("Add", At(m.buf[x], i), v) [] s.d.c = "-" -> Arith("Sub", At(m.buf[x], i), v)
  IN IF i = Undef \/ i \notin DOMAIN m.buf[x] THEN Fault(m, "store outside the buffer")
     ELSE IF new = Undef THEN Fault(m, "store of an undefined value")
     ELSE [m EXCEPT !.buf[x][i] = new]

\* emitAssign: a scalar, zero to a tensor (memset), or a tensor (memcpy).
Fill(b, v) == [i \in DOMAIN b |-> v]
Copy(dst, src) == [i \in DOMAIN dst |-> At(src, i)]
WriteAll(m, x, v) == [m EXCEPT !.buf[x] = IF Isa(v, "Literal") THEN Fill(@, v.d.v) ELSE Copy(@, m.buf[BufferVar(v)])]
ExecAssign(s, m, c) ==
  LET x == s.d.x
      v == Eval(s.k[1], m, c)
  IN IF ~IsScalar(x.t) THEN WriteAll(m, x, s.k[1])
     ELSE SetScalar(m, x, IF s.d.c = "+" THEN Arith("Add", Eval(VarE(x), m, c), v) ELSE v)

\* The loc intrinsic (runtime.cpp) scans from the start of the row, without end.
Loc(i, j, rowptr, colidx) ==
  LET found == {l \in DOMAIN colidx : l >= rowptr[i] /\ colidx[l] = j}
  IN IF found = {} THEN Undef ELSE Min(found)

RECURSIVE Exec(_, _, _)
RECURSIVE ExecWhile(_, _, _)

\* A call: arguments by value, results through their addresses.
ExecCall(s, m, c) ==
  LET as == [i \in DOMAIN s.k |-> Eval(s.k[i], m, c)]
      f == c.funcs[s.d.f]
      args == [x \in ToSet(f.args) |-> as[CHOOSE i \in DOMAIN f.args : f.args[i] = x]]
      after == Exec(f.body, [m EXCEPT !.sc = args], c)
      at == Loc(as[1], as[2], BufferOf(s.k[3], m, c), BufferOf(s.k[4], m, c))
  IN IF s.d.f = "loc"
       THEN IF at = Undef THEN Fault(m, "loc past the end of the index") ELSE SetScalar(m, s.d.rs[1], at)
       ELSE SetScalar(m, s.d.rs[1], Eval(VarE(f.results[1]), after, c))

Exec(s, m, c) ==
  LET Loop(lo, hi) == FoldLeft(LAMBDA acc, i : Exec(s.k[Len(s.k)], SetScalar(acc, s.d.x, i), c), m, [i \in 1..hi - lo |-> lo + i - 1])
      test == Eval(s.k[1], m, c)
  IN CASE m.fault # "" -> m
       [] s.o \in {"Block", "Scope"} -> FoldLeft(LAMBDA acc, t : Exec(t, acc, c), m, s.k)
       [] s.o = "VarDecl" -> m
       [] s.o = "AssignStmt" -> ExecAssign(s, m, c)
       [] s.o = "FieldWrite" -> WriteAll(m, FieldVar(s.k[1].d.s, s.d.f), s.k[2])
       [] s.o = "Store" -> ExecStore(s, m, c)
       [] s.o = "CallStmt" -> ExecCall(s, m, c)
       [] s.o = "For" -> Loop(0, SizeOf(s.d.s, c.g))
       [] s.o = "ForRange" -> IF Undef \in {test, Eval(s.k[2], m, c)} THEN Fault(m, "undefined loop bound")
                              ELSE Loop(test, Eval(s.k[2], m, c))
       [] s.o = "IfThenElse" -> IF test = Undef THEN Fault(m, "branch on an undefined value")
                                ELSE Exec(IF test THEN s.k[2] ELSE s.k[3], m, c)
       [] s.o = "While" -> ExecWhile(s, m, c)

ExecWhile(s, m, c) ==
  LET test == Eval(s.k[1], m, c)
  IN IF m.fault # "" THEN m
     ELSE IF test = Undef THEN Fault(m, "branch on an undefined value")
     ELSE IF test THEN ExecWhile(s, Exec(s.k[2], m, c), c) ELSE m

-------------------------------------------------------------------------------
(* Initialization.                                                         *)

\* initIndices
IndexArrays(q, g) ==
  [n \in DOMAIN q.reg |-> LET index == BuildSegmented(q.reg[n], q.reg, g)
                          IN [rowptr |-> RowptrOf(index), colidx |-> FromSeq(ColidxOf(index))]]

\* emitComputeLen
BufferLen(x, c) ==
  CASE Kind(c.q, x) = "Indexed" -> LET r == c.idx[LocsName(c.q, c.q.st[x].p)].rowptr IN r[SizeOf(x.t[1], c.g)]
    [] Kind(c.q, x) = "Diagonal" -> SizeOf(x.t[1], c.g)
    [] OTHER -> FoldLeft(LAMBDA n, s : n * SizeOf(s, c.g), 1, x.t)

\* The tensors of a procedure: the buffers of its declarations and temporaries.
TensorVars(s) ==
  {x \in UNION {IF n.o = "VarExpr" THEN {n.d} ELSE IF n.o \in {"VarDecl", "AssignStmt"} THEN {n.d.x} ELSE {} : n \in ToSet(Nodes(s))}
     : ~IsScalar(x.t)}
IsWorkspace(x) == x.n[1] = "workspace"

\* Workspaces are temporaries of the environment, which come from calloc; the
\* other buffers come from malloc.
InitBuffers(s, fields, c) ==
  [x \in TensorVars(s) |-> [i \in 0..BufferLen(x, c) - 1 |-> IF IsWorkspace(x) THEN 0 ELSE Undef]] @@ fields
===============================================================================
