---------------------------------- MODULE Ir -----------------------------------
(***************************************************************************)
(* The intermediate representation (src/ir.h) the lowering passes rewrite. *)
(* A node, expression or statement, is                                     *)
(*     [o |-> class, k |-> its child nodes in order, d |-> its other data] *)
(* A tensor type is the sequence of the index sets of its dimensions: names *)
(* of sets for system dimensions, "R2" for the range 0:2.  Tensors are not *)
(* blocked.  A variable is [n |-> name, t |-> type]; an index variable is  *)
(* [n |-> name, s |-> index set, r |-> is a reduction variable]; two index *)
(* variables are equal when their names are (the source compares their     *)
(* addresses).  The reduction operator is always the sum.                  *)
(***************************************************************************)
EXTENDS Integers, Sequences, FiniteSets, SequencesExt, FiniteSetsExt

Ranges == {"R2"}
Node(o, k, d) == [o |-> o, k |-> k, d |-> d]
None == [none |-> TRUE]

-------------------------------------------------------------------------------
(* Expressions.                                                            *)

Lit(v) == Node("Literal", <<>>, [v |-> v])
VarE(x) == Node("VarExpr", <<>>, x)
SetE(s) == Node("SetExpr", <<>>, [s |-> s])
\* A read of a field is one node, which insertTemporaries compares by address:
\* at tells the reads of a procedure apart, and is 0 in those that passes make.
FieldReadAt(b, f, t, at) == Node("FieldRead", <<b>>, [f |-> f, t |-> t, at |-> at])
FieldRead(b, f, t) == FieldReadAt(b, f, t, 0)
TupleRead(x, i) == Node("TupleRead", <<VarE(x), i>>, None)
Load(a, i) == Node("Load", <<a, i>>, None)
Length(s) == Node("Length", <<>>, [s |-> s])
Rowptr(p) == Node("Rowptr", <<>>, [p |-> p])
Colidx(p) == Node("Colidx", <<>>, [p |-> p])
Endpoints(s) == Node("Endpoints", <<>>, [s |-> s])
Unary(o, a) == Node(o, <<a>>, None)
Binary(o, a, b) == Node(o, <<a, b>>, None)
IndexedTensor(a, iv) == Node("IndexedTensor", <<a>>, [iv |-> iv])
IndexExpr(rv, a) == Node("IndexExpr", <<a>>, [rv |-> rv])
TensorRead(a, is) == Node("TensorRead", <<a>> \o is, None)

(* Statements.  cop is "" or "+": the compound operator.                   *)

Assign(x, v, c) == Node("AssignStmt", <<v>>, [x |-> x, c |-> c])
FieldWrite(b, f, t, v, c) == Node("FieldWrite", <<b, v>>, [f |-> f, t |-> t, c |-> c])
TensorWrite(a, is, v, c) == Node("TensorWrite", <<a, v>> \o is, [c |-> c])
Store(a, i, v, c) == Node("Store", <<a, i, v>>, [c |-> c])
VarDecl(x) == Node("VarDecl", <<>>, [x |-> x])
CallStmt(rs, f, as) == Node("CallStmt", as, [rs |-> rs, f |-> f])
MapStmt(rs, f, s, as, red) == Node("Map", as, [rs |-> rs, f |-> f, s |-> s, red |-> red])
For(x, s, b) == Node("For", <<b>>, [x |-> x, s |-> s])
ForRange(x, lo, hi, b) == Node("ForRange", <<lo, hi, b>>, [x |-> x])
While(c, b) == Node("While", <<c, b>>, None)
IfThenElse(c, a, b) == Node("IfThenElse", <<c, a, b>>, None)
Scope(s) == Node("Scope", <<s>>, None)

\* Block::make: undefined statements are left out, nested blocks are one block.
Pass == Node("Block", <<>>, None)
Block(ss) == Node("Block", FlattenSeq([i \in DOMAIN ss |-> IF ss[i].o = "Block" THEN ss[i].k ELSE <<ss[i]>>]), None)
Statements(s) == IF s.o = "Block" THEN s.k ELSE <<s>>

-------------------------------------------------------------------------------
(* Visitors and rewriters.                                                 *)

BinaryOps == {"Add", "Sub", "Mul"}

\* IRRewriter: the node remade from its rewritten children.
Remade(e, kids) == [e EXCEPT !.k = kids]
MapKids(e, F(_)) == Remade(e, [i \in DOMAIN e.k |-> F(e.k[i])])

\* IRVisitor: the nodes of a tree, in preorder.
RECURSIVE Nodes(_)
Nodes(e) == <<e>> \o FlattenSeq([i \in DOMAIN e.k |-> Nodes(e.k[i])])
NodesOf(e, o) == SelectSeq(Nodes(e), LAMBDA n : n.o = o)

Isa(e, o) == e.o = o
Var(n, t) == [n |-> n, t |-> t]
IVar(n, s, r) == [n |-> n, s |-> s, r |-> r]
Uniq(s) == FoldLeft(LAMBDA acc, x : IF Contains(acc, x) THEN acc ELSE Append(acc, x), <<>>, s)

\* Expr::type
Type(e) ==
  CASE e.o \in {"VarExpr", "FieldRead"} -> e.d.t
    [] e.o = "IndexExpr" -> [i \in DOMAIN e.d.rv |-> e.d.rv[i].s]
    [] OTHER -> <<>>

IsScalar(t) == t = <<>>
HasSystemDimensions(t) == \E i \in DOMAIN t : t[i] \notin Ranges
IsSparseType(t) == Len(t) >= 2 /\ HasSystemDimensions(t)

\* The index variables of the IndexedTensors of an expression, in order.  The
\* queries do not look below an IndexedTensor.
RECURSIVE IndexedTensors(_)
IndexedTensors(e) == IF e.o = "IndexedTensor" THEN <<e>>
                     ELSE FlattenSeq([i \in DOMAIN e.k |-> IndexedTensors(e.k[i])])
IndexVars(e) == Uniq(FlattenSeq([i \in DOMAIN IndexedTensors(e) |-> IndexedTensors(e)[i].d.iv]))
GetFreeVars(e) == IF e.o = "IndexExpr" THEN e.d.rv ELSE SelectSeq(IndexVars(e), LAMBDA v : ~v.r)
GetReductionVars(e) == SelectSeq(IndexVars(e), LAMBDA v : v.r)
CountIndexVars(e) == Len(IndexVars(e))
ContainsIndexedTensor(e) == IndexedTensors(e) # <<>>

\* substitute(map<IndexVar,IndexVar>, Expr)
RECURSIVE SubstIVars(_, _)
SubstIVars(e, sub) ==
  LET Sub(v) == IF v \in DOMAIN sub THEN sub[v] ELSE v
  IN IF e.o = "IndexedTensor" THEN [e EXCEPT !.d.iv = [i \in DOMAIN @ |-> Sub(@[i])]]
     ELSE MapKids(e, LAMBDA c : SubstIVars(c, sub))

\* substitute(Expr, Expr, .): the expressions equal to old become new.
RECURSIVE Substitute(_, _, _)
Substitute(e, old, new) == IF e = old THEN new ELSE MapKids(e, LAMBDA c : Substitute(c, old, new))

\* replaceVar: a variable by another one, where it is declared and assigned too.
RECURSIVE ReplaceVar(_, _, _)
ReplaceVar(e, old, new) ==
  LET kids == MapKids(e, LAMBDA c : ReplaceVar(c, old, new))
      Sub(x) == IF x = old THEN new ELSE x
  IN CASE e.o = "VarExpr" -> IF e.d = old THEN VarE(new) ELSE e
       [] e.o \in {"VarDecl", "AssignStmt", "For", "ForRange"} -> [kids EXCEPT !.d.x = Sub(@)]
       [] e.o \in {"CallStmt", "Map"} -> [kids EXCEPT !.d.rs = [i \in DOMAIN @ |-> Sub(@[i])]]
       [] OTHER -> kids

-------------------------------------------------------------------------------
(* IRBuilder.  id makes the names of the index variables unique.           *)

IName(id, i) == <<id, i>>
FreshVars(id, t) == [i \in DOMAIN t |-> IVar(IName(id, i), t[i], FALSE)]

UnaryElwise(id, op, e) ==
  LET iv == FreshVars(id, Type(e))
      a == IndexedTensor(e, iv)
  IN IndexExpr(iv, IF op = "Copy" THEN a ELSE Unary(op, a))

BinaryElwise(id, op, l, r) ==
  LET iv == FreshVars(id, IF Type(l) # <<>> THEN Type(l) ELSE Type(r))
      Of(e) == IndexedTensor(e, IF Type(e) = <<>> THEN <<>> ELSE iv)
  IN IndexExpr(iv, Binary(op, Of(l), Of(r)))

InnerProduct(id, l, r) ==
  LET i == IVar(IName(id, 1), Type(l)[1], TRUE)
  IN IndexExpr(<<>>, Binary("Mul", IndexedTensor(l, <<i>>), IndexedTensor(r, <<i>>)))

Gemv(id, l, r) ==
  LET i == IVar(IName(id, 1), Type(l)[1], FALSE)
      j == IVar(IName(id, 2), Type(l)[2], TRUE)
  IN IndexExpr(<<i>>, Binary("Mul", IndexedTensor(l, <<i, j>>), IndexedTensor(r, <<j>>)))

Gemm(id, l, r) ==
  LET i == IVar(IName(id, 1), Type(l)[1], FALSE)
      j == IVar(IName(id, 2), Type(r)[2], FALSE)
      k == IVar(IName(id, 3), Type(l)[2], TRUE)
  IN IndexExpr(<<i, j>>, Binary("Mul", IndexedTensor(l, <<i, k>>), IndexedTensor(r, <<k, j>>)))

TransposedMatrix(id, m) ==
  LET iv == FreshVars(id, Type(m))
  IN IndexExpr(<<iv[2], iv[1]>>, IndexedTensor(m, iv))

-------------------------------------------------------------------------------
(* Variable declarations (ir_transforms.cpp).                              *)

\* insertVarDecls: a declaration before the first statement that defines an
\* undeclared variable.
Defines(s) == CASE s.o = "AssignStmt" -> <<s.d.x>> [] s.o \in {"CallStmt", "Map"} -> s.d.rs [] OTHER -> <<>>

RECURSIVE InsertVarDecls(_, _)
InsertVarDecls(s, declared) ==     \* [s |-> statement, dec |-> declared afterwards]
  CASE s.o = "VarDecl" -> [s |-> s, dec |-> declared \cup {s.d.x}]
    [] Defines(s) # <<>> ->
         LET new == SelectSeq(Defines(s), LAMBDA x : x \notin declared)
         IN [s |-> Block(Reverse([i \in DOMAIN new |-> VarDecl(new[i])]) \o <<s>>), dec |-> declared \cup ToSet(new)]
    [] s.o = "Block" ->
         LET r == FoldLeft(LAMBDA acc, c : LET d == InsertVarDecls(c, acc.dec) IN [ss |-> Append(acc.ss, d.s), dec |-> d.dec],
                           [ss |-> <<>>, dec |-> declared], s.k)
         IN [s |-> Block(r.ss), dec |-> r.dec]
    [] s.o \in {"Scope", "For"} ->
         LET r == InsertVarDecls(s.k[1], declared) IN [s |-> [s EXCEPT !.k = <<r.s>>], dec |-> r.dec]
    [] OTHER -> [s |-> s, dec |-> declared]
===============================================================================
