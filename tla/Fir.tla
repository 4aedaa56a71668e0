---------------------------------- MODULE Fir ----------------------------------
(***************************************************************************)
(* The front end's syntax tree (src/frontend/fir.h): the fields of every   *)
(* class, the fields its copy() fills, the children FIRVisitor visits and  *)
(* FIRRewriter replaces, in their order.  A node is                        *)
(*     [class |-> c, kids |-> [field -> Seq(node)], data |-> [field -> v]] *)
(* where a pointer is a sequence of at most one node and a null pointer is *)
(* the empty one.  A set's definition (SetIndexSet::setDef) is the place of *)
(* its declaration, <<element, name>>.  Source locations are left out.     *)
(***************************************************************************)
EXTENDS Integers, Sequences, FiniteSets, SequencesExt

Fields(kids, data) == [kids |-> kids, data |-> data]
Leaf(data) == Fields({}, data)
Inner(kids) == Fields(kids, {})

-------------------------------------------------------------------------------
(* The classes.                                                            *)

ProgramNodes == [
  Program |-> Inner({"elems"}), StmtBlock |-> Inner({"stmts"}), RangeIndexSet |-> Leaf({"range"})]

SetNodes == [
  SetIndexSet |-> Leaf({"setName", "setDef"}), GenericIndexSet |-> Leaf({"setName", "setDef", "type"}), DynamicIndexSet |-> Leaf({}),
  ElementType |-> Leaf({"ident", "source"}), Endpoint |-> Inner({"set", "element"}), TupleLength |-> Leaf({"val"}),
  HomogeneousEdgeSetType |-> Inner({"element", "endpoint", "arity"}),
  HeterogeneousEdgeSetType |-> Inner({"element", "endpoints"})]

TypeNodes == [
  GridSetType |-> Fields({"element", "underlyingPointSet"}, {"dimensions"}), Identifier |-> Leaf({"ident"}),
  TupleElement |-> Inner({"name", "element"}), NamedTupleType |-> Inner({"elems"}),
  UnnamedTupleType |-> Inner({"element", "length"}), ScalarType |-> Leaf({"type"}),
  NDTensorType |-> Fields({"indexSets", "blockType"}, {"transposed"}), OpaqueType |-> Leaf({}), IVarType |-> Leaf({})]

DeclNodes == [
  IdentDecl |-> Inner({"name", "type"}), FieldDecl |-> Inner({"name", "type"}),
  ElementTypeDecl |-> Inner({"name", "fields"}), Argument |-> Inner({"name", "type"}),
  InOutArgument |-> Inner({"name", "type"}), ExternDecl |-> Inner({"name", "type"}),
  GenericParam |-> Leaf({"name", "type"}),
  FuncDecl |-> Fields({"name", "genericParams", "args", "results", "body"}, {"type", "originalName"})]

VarNodes == [
  VarDecl |-> Inner({"name", "type", "initVal"}), ConstDecl |-> Inner({"name", "type", "initVal"}),
  IVarDecl |-> Inner({"name"}), WhileStmt |-> Inner({"cond", "body"}), DoWhileStmt |-> Inner({"cond", "body"}),
  IfStmt |-> Inner({"cond", "ifBody", "elseBody"}), IndexSetDomain |-> Inner({"set"}),
  RangeDomain |-> Inner({"lower", "upper"}), ForStmt |-> Inner({"loopVar", "domain", "body"})]

StmtNodes == [
  PrintStmt |-> Fields({"args"}, {"printNewline"}), ExprStmt |-> Inner({"expr"}), AssignStmt |-> Inner({"expr", "lhs"}),
  Slice |-> Leaf({}), ExprParam |-> Inner({"expr"}),
  ReducedMapExpr |-> Fields({"func", "genericArgs", "partialActuals", "target", "through"}, {"op"}),
  UnreducedMapExpr |-> Inner({"func", "genericArgs", "partialActuals", "target", "through"})]

Unary == Inner({"operand"})
BinaryFields == Inner({"lhs", "rhs"})

OperatorNodes == [
  OrExpr |-> BinaryFields, AndExpr |-> BinaryFields, XorExpr |-> BinaryFields, EqExpr |-> Fields({"operands"}, {"ops"}),
  NotExpr |-> Unary, AddExpr |-> BinaryFields, SubExpr |-> BinaryFields, MulExpr |-> BinaryFields]

ArithmeticNodes == [
  DivExpr |-> BinaryFields, ElwiseMulExpr |-> BinaryFields, ElwiseDivExpr |-> BinaryFields, LeftDivExpr |-> BinaryFields,
  NegExpr |-> Fields({"operand"}, {"negate"}), ExpExpr |-> BinaryFields, TransposeExpr |-> Unary,
  CallExpr |-> Inner({"func", "genericArgs", "args"}), TensorReadExpr |-> Inner({"tensor", "indices"})]

ReadNodes == [
  SetReadExpr |-> Inner({"set", "indices"}), NamedTupleReadExpr |-> Inner({"tuple", "elem"}),
  UnnamedTupleReadExpr |-> Inner({"tuple", "index"}), FieldReadExpr |-> Inner({"setOrElem", "field"}),
  ParenExpr |-> Inner({"expr"}), VarExpr |-> Leaf({"ident"}), RangeConst |-> Leaf({"ident"}),
  IntLiteral |-> Leaf({"val"})]

LiteralNodes == [
  FloatLiteral |-> Leaf({"val"}), BoolLiteral |-> Leaf({"val"}), ComplexLiteral |-> Leaf({"val"}),
  StringLiteral |-> Leaf({"val"}), IntVectorLiteral |-> Leaf({"vals", "transposed"}),
  FloatVectorLiteral |-> Leaf({"vals", "transposed"}), ComplexVectorLiteral |-> Leaf({"vals", "transposed"}),
  NDTensorLiteral |-> Fields({"elems"}, {"transposed"})]

EndNodes == [
  ApplyStmt |-> Inner({"map"}), Test |-> Inner({"func", "args", "expected"})]

Classes == ProgramNodes @@ SetNodes @@ TypeNodes @@ DeclNodes @@ VarNodes @@ StmtNodes @@ OperatorNodes
           @@ ArithmeticNodes @@ ReadNodes @@ LiteralNodes @@ EndNodes

-------------------------------------------------------------------------------
(* copy(): the fields each class takes over, cloning the nodes they point  *)
(* to.                                                                     *)

CopiedSets == [
  Program |-> {"elems"}, StmtBlock |-> {"stmts"}, RangeIndexSet |-> {"range"}, SetIndexSet |-> {"setName"},
  GenericIndexSet |-> {"setName", "type"}, DynamicIndexSet |-> {}, ElementType |-> {"ident"},
  Endpoint |-> {"set", "element"}]

CopiedTypes == [
  TupleLength |-> {"val"}, HomogeneousEdgeSetType |-> {"element", "endpoint", "arity"},
  HeterogeneousEdgeSetType |-> {"element", "endpoints"},
  GridSetType |-> {"element", "underlyingPointSet", "dimensions"}, Identifier |-> {"ident"},
  TupleElement |-> {"name", "element"}, NamedTupleType |-> {"elems"}, UnnamedTupleType |-> {"element", "length"},
  ScalarType |-> {"type"}]

CopiedDecls == [
  NDTensorType |-> {"indexSets", "blockType", "transposed"}, OpaqueType |-> {}, IVarType |-> {},
  IdentDecl |-> {"name", "type"}, FieldDecl |-> {"name", "type"}, ElementTypeDecl |-> {"name", "fields"},
  Argument |-> {"name", "type"}, InOutArgument |-> {"name", "type"}, ExternDecl |-> {"name", "type"},
  GenericParam |-> {"name", "type"},
  FuncDecl |-> {"name", "genericParams", "args", "results", "body", "type", "originalName"}]

CopiedStmts == [
  VarDecl |-> {"name", "type", "initVal"}, ConstDecl |-> {"name", "type", "initVal"}, IVarDecl |-> {"name"},
  WhileStmt |-> {"cond", "body"}, DoWhileStmt |-> {"cond", "body"}, IfStmt |-> {"cond", "ifBody", "elseBody"},
  IndexSetDomain |-> {"set"}, RangeDomain |-> {"lower", "upper"}, ForStmt |-> {"loopVar", "domain", "body"},
  PrintStmt |-> {"args", "printNewline"}, ExprStmt |-> {"expr"}]

\* Mutant: a reduced map is copied without its reduction.
CopiedMapsNoOp == [
  AssignStmt |-> {"expr", "lhs"}, Slice |-> {}, ExprParam |-> {"expr"},
  ReducedMapExpr |-> {"func", "partialActuals", "target"}, UnreducedMapExpr |-> {"func", "partialActuals", "target"},
  OrExpr |-> {"lhs", "rhs"}, AndExpr |-> {"lhs", "rhs"}, XorExpr |-> {"lhs", "rhs"}, EqExpr |-> {"operands", "ops"},
  NotExpr |-> {"operand"}, AddExpr |-> {"lhs", "rhs"}, SubExpr |-> {"lhs", "rhs"}, MulExpr |-> {"lhs", "rhs"}]

\* A map loses its generic arguments and the set it goes through.
CopiedMaps == [
  AssignStmt |-> {"expr", "lhs"}, Slice |-> {}, ExprParam |-> {"expr"},
  ReducedMapExpr |-> {"func", "partialActuals", "target", "op"}, UnreducedMapExpr |-> {"func", "partialActuals", "target"},
  OrExpr |-> {"lhs", "rhs"}, AndExpr |-> {"lhs", "rhs"}, XorExpr |-> {"lhs", "rhs"}, EqExpr |-> {"operands", "ops"},
  NotExpr |-> {"operand"}, AddExpr |-> {"lhs", "rhs"}, SubExpr |-> {"lhs", "rhs"}, MulExpr |-> {"lhs", "rhs"}]

CopiedExprs == [
  DivExpr |-> {"lhs", "rhs"}, ElwiseMulExpr |-> {"lhs", "rhs"}, ElwiseDivExpr |-> {"lhs", "rhs"},
  LeftDivExpr |-> {"lhs", "rhs"}, NegExpr |-> {"operand", "negate"}, ExpExpr |-> {"lhs", "rhs"},
  TransposeExpr |-> {"operand"}, CallExpr |-> {"func", "genericArgs", "args"}, TensorReadExpr |-> {"tensor", "indices"},
  SetReadExpr |-> {"set", "indices"}, NamedTupleReadExpr |-> {"tuple", "elem"}, UnnamedTupleReadExpr |-> {"tuple", "index"}]

CopiedLiterals == [
  FieldReadExpr |-> {"setOrElem", "field"}, ParenExpr |-> {"expr"}, VarExpr |-> {"ident"}, RangeConst |-> {"ident"},
  IntLiteral |-> {"val"}, FloatLiteral |-> {"val"}, BoolLiteral |-> {"val"}, ComplexLiteral |-> {"val"},
  StringLiteral |-> {"val"}, IntVectorLiteral |-> {"vals", "transposed"}]

CopiedEnd == [
  FloatVectorLiteral |-> {"vals", "transposed"}, ComplexVectorLiteral |-> {"vals", "transposed"},
  NDTensorLiteral |-> {"elems", "transposed"}, ApplyStmt |-> {"map"}, Test |-> {"func", "args", "expected"}]

Copied == CopiedSets @@ CopiedTypes @@ CopiedDecls @@ CopiedStmts @@ CopiedMaps @@ CopiedExprs @@ CopiedLiterals @@ CopiedEnd

-------------------------------------------------------------------------------
(* FIRVisitor and FIRRewriter: children in the order they are visited.     *)

VisitsTypes == [
  Program |-> <<"elems">>, StmtBlock |-> <<"stmts">>, Endpoint |-> <<"set", "element">>,
  HomogeneousEdgeSetType |-> <<"element", "endpoint", "arity">>, HeterogeneousEdgeSetType |-> <<"element", "endpoints">>,
  GridSetType |-> <<"element", "underlyingPointSet">>, TupleElement |-> <<"name", "element">>, NamedTupleType |-> <<"elems">>,
  UnnamedTupleType |-> <<"element", "length">>, NDTensorType |-> <<"indexSets", "blockType">>,
  IdentDecl |-> <<"name", "type">>, FieldDecl |-> <<"name", "type">>, ElementTypeDecl |-> <<"name", "fields">>,
  Argument |-> <<"name", "type">>, InOutArgument |-> <<"name", "type">>, ExternDecl |-> <<"name", "type">>,
  FuncDecl |-> <<"name", "genericParams", "args", "results", "body">>]

VisitsStmts == [
  VarDecl |-> <<"name", "type", "initVal">>, ConstDecl |-> <<"name", "type", "initVal">>, IVarDecl |-> <<"name">>,
  WhileStmt |-> <<"cond", "body">>, DoWhileStmt |-> <<"cond", "body">>, IfStmt |-> <<"cond", "ifBody", "elseBody">>,
  IndexSetDomain |-> <<"set">>, RangeDomain |-> <<"lower", "upper">>, ForStmt |-> <<"loopVar", "domain", "body">>,
  PrintStmt |-> <<"args">>, ExprStmt |-> <<"expr">>, AssignStmt |-> <<"lhs", "expr">>, ExprParam |-> <<"expr">>,
  ReducedMapExpr |-> <<"func", "genericArgs", "partialActuals", "target", "through">>,
  UnreducedMapExpr |-> <<"func", "genericArgs", "partialActuals", "target", "through">>]

TwoSided == <<"lhs", "rhs">>

VisitsExprs == [
  OrExpr |-> TwoSided, AndExpr |-> TwoSided, XorExpr |-> TwoSided, EqExpr |-> <<"operands">>, NotExpr |-> <<"operand">>,
  AddExpr |-> TwoSided, SubExpr |-> TwoSided, MulExpr |-> TwoSided, DivExpr |-> TwoSided, LeftDivExpr |-> TwoSided,
  ElwiseMulExpr |-> TwoSided, ElwiseDivExpr |-> TwoSided, NegExpr |-> <<"operand">>, ExpExpr |-> TwoSided,
  TransposeExpr |-> <<"operand">>, CallExpr |-> <<"func", "genericArgs", "args">>, TensorReadExpr |-> <<"tensor", "indices">>,
  SetReadExpr |-> <<"set", "indices">>, NamedTupleReadExpr |-> <<"tuple", "elem">>,
  UnnamedTupleReadExpr |-> <<"tuple", "index">>, FieldReadExpr |-> <<"setOrElem", "field">>, ParenExpr |-> <<"expr">>,
  NDTensorLiteral |-> <<"elems">>, ApplyStmt |-> <<"map">>, Test |-> <<"func", "args", "expected">>]

VisitedFields == VisitsTypes @@ VisitsStmts @@ VisitsExprs

Visits(class) == IF class \in DOMAIN VisitedFields THEN VisitedFields[class] ELSE <<>>

RewritesTypes == [
  Program |-> {"elems"}, StmtBlock |-> {"stmts"}, Endpoint |-> {"set", "element"},
  HomogeneousEdgeSetType |-> {"element", "endpoint", "arity"}, HeterogeneousEdgeSetType |-> {"element", "endpoints"},
  GridSetType |-> {"element", "underlyingPointSet"}, TupleElement |-> {"name", "element"}, NamedTupleType |-> {"elems"},
  UnnamedTupleType |-> {"element", "length"}, NDTensorType |-> {"indexSets", "blockType"},
  IdentDecl |-> {"name", "type"}, FieldDecl |-> {"name", "type"}, ElementTypeDecl |-> {"name", "fields"},
  Argument |-> {"name", "type"}, InOutArgument |-> {"name", "type"}, ExternDecl |-> {"name", "type"},
  FuncDecl |-> {"name", "genericParams", "args", "results", "body"}]

RewritesStmts == [
  VarDecl |-> {"name", "type", "initVal"}, ConstDecl |-> {"name", "type", "initVal"}, IVarDecl |-> {"name"},
  WhileStmt |-> {"cond", "body"}, DoWhileStmt |-> {"cond", "body"}, IfStmt |-> {"cond", "ifBody", "elseBody"},
  IndexSetDomain |-> {"set"}, RangeDomain |-> {"lower", "upper"}, ForStmt |-> {"loopVar", "domain", "body"},
  PrintStmt |-> {"args"}, ExprStmt |-> {"expr"}, AssignStmt |-> {"expr", "lhs"}, ExprParam |-> {"expr"},
  ReducedMapExpr |-> {"func", "genericArgs", "partialActuals", "target", "through"},
  UnreducedMapExpr |-> {"func", "genericArgs", "partialActuals", "target", "through"}]

RewritesExprs == [
  OrExpr |-> {"lhs", "rhs"}, AndExpr |-> {"lhs", "rhs"}, XorExpr |-> {"lhs", "rhs"}, EqExpr |-> {"operands"},
  NotExpr |-> {"operand"}, AddExpr |-> {"lhs", "rhs"}, SubExpr |-> {"lhs", "rhs"}, MulExpr |-> {"lhs", "rhs"},
  DivExpr |-> {"lhs", "rhs"}, LeftDivExpr |-> {"lhs", "rhs"}, ElwiseMulExpr |-> {"lhs", "rhs"},
  ElwiseDivExpr |-> {"lhs", "rhs"}, NegExpr |-> {"operand"}, ExpExpr |-> {"lhs", "rhs"}, TransposeExpr |-> {"operand"},
  CallExpr |-> {"func", "genericArgs", "args"}, TensorReadExpr |-> {"tensor", "indices"},
  SetReadExpr |-> {"set", "indices"}, NamedTupleReadExpr |-> {"tuple", "elem"}, UnnamedTupleReadExpr |-> {"tuple", "index"},
  FieldReadExpr |-> {"setOrElem", "field"}, ParenExpr |-> {"expr"}, NDTensorLiteral |-> {"elems"},
  ApplyStmt |-> {"map"}, Test |-> {"func", "args", "expected"}]

RewrittenFields == RewritesTypes @@ RewritesStmts @@ RewritesExprs

Rewrites(class) == IF class \in DOMAIN RewrittenFields THEN RewrittenFields[class] ELSE {}

-------------------------------------------------------------------------------
(* Trees.                                                                  *)

RECURSIVE clone(_)

\* What a field holds before it is assigned.
Fresh(f) == CASE f \in {"originalName", "ident"} -> "" [] f = "transposed" -> FALSE [] OTHER -> <<>>

Node(c, kids, data) ==
  [class |-> c,
   kids |-> [f \in Classes[c].kids |-> IF f \in DOMAIN kids THEN kids[f] ELSE <<>>],
   data |-> [f \in Classes[c].data |-> IF f \in DOMAIN data THEN data[f] ELSE Fresh(f)]]

\* The node a pointer field points to.
K(n, f) == n.kids[f][1]

\* FIRNode::clone: a new node of the same class, filled by copy().
clone(n) ==
  [class |-> n.class,
   kids |-> [f \in DOMAIN n.kids |-> IF f \in Copied[n.class] THEN [i \in DOMAIN n.kids[f] |-> clone(n.kids[f][i])] ELSE <<>>],
   data |-> [f \in DOMAIN n.data |-> IF f \in Copied[n.class] THEN n.data[f] ELSE Fresh(f)]]

RECURSIVE Dereferenced(_)

\* copy() follows every pointer it clones; only these are tested for null.
Optional == {"name", "type", "initVal", "elseBody", "body", "through"}
Lists == {"elems", "stmts", "endpoints", "indexSets", "fields", "genericParams", "args", "results", "lhs", "operands",
          "genericArgs", "partialActuals", "indices"}

Dereferenced(n) ==
  \A f \in DOMAIN n.kids \intersect Copied[n.class] :
    /\ n.kids[f] = <<>> => f \in Optional \union Lists
    /\ \A i \in DOMAIN n.kids[f] : Dereferenced(n.kids[f][i])

\* The nodes of the given classes in visiting order, children first, as paths
\* of steps <<field, index>>.
RECURSIVE Paths(_, _)

Paths(n, classes) ==
  LET below(f) == FlattenSeq([i \in DOMAIN n.kids[f] |->
                    LET ps == Paths(n.kids[f][i], classes) IN [j \in DOMAIN ps |-> <<<<f, i>>>> \o ps[j]]])
      inner == FlattenSeq([k \in DOMAIN Visits(n.class) |-> below(Visits(n.class)[k])])
  IN  IF n.class \in classes THEN Append(inner, <<>>) ELSE inner

RECURSIVE At(_, _)

At(n, path) == IF path = <<>> THEN n ELSE At(n.kids[Head(path)[1]][Head(path)[2]], Tail(path))

RECURSIVE Put(_, _, _)

Put(n, path, new) ==
  IF path = <<>> THEN new
  ELSE [n EXCEPT !.kids[Head(path)[1]][Head(path)[2]] = Put(@, Tail(path), new)]

Nodes(n, class) == LET ps == Paths(n, {class}) IN {At(n, ps[i]) : i \in DOMAIN ps}
===============================================================================
