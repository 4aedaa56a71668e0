-------------------------------- MODULE Parser --------------------------------
(***************************************************************************)
(* The recursive-descent parser (src/frontend/parser.cpp) as a pushdown    *)
(* machine.  Every parse function is a sequence of instructions: consume a *)
(* token, call another function, branch on the next token, open and close  *)
(* a scope of the symbol table, insert a name, catch a syntax error.  The  *)
(* input is a given run of tokens and then any tokens, chosen one by one   *)
(* as the parser peeks.  The syntax tree is left out: no decision of the      *)
(* parser depends on it.                                                   *)
(***************************************************************************)
EXTENDS Integers, Sequences, FiniteSets, SequencesExt

CONSTANTS
  Streams,      \* the inputs: a first run of tokens, and the types of the rest
  Names,        \* identifiers
  Intrinsics,   \* the identifiers that are intrinsic functions
  MaxTokens     \* bound on the number of tokens after the first run

ASSUME ParserAssumption == Intrinsics \subseteq Names /\ MaxTokens \in Nat

-------------------------------------------------------------------------------
(* Instructions.                                                           *)

T(t) == [op |-> "consume", type |-> t]
N(f) == [op |-> "call", to |-> f]
If(ts, yes, no) == [op |-> "branch", on |-> ts, yes |-> yes, no |-> no]
While(ts, body) == [op |-> "loop", on |-> ts, body |-> body]
Until(ts, body) == [op |-> "until", on |-> ts, body |-> body]
Bind(body) == [op |-> "bind", body |-> body]
Ins(kind) == [op |-> "insert", kind |-> kind, name |-> ""]
Try(handler, body) == [op |-> "try", handler |-> handler, body |-> body]
SkipTo(ts) == [op |-> "skip", on |-> ts]
Scope == [op |-> "scope"]
Unscope == [op |-> "unscope"]
Fail == [op |-> "fail"]
Special(f) == [op |-> f]

\* if (tryConsume(t)) ..., and f {',' f}
Opt(t, body) == If({t}, <<T(t)>> \o body, <<>>)
List(f) == <<N(f), While({"COMMA"}, <<T("COMMA"), N(f)>>)>>
Ident == T("IDENT")
OneOf(ts, default) == If(ts, <<T("ANY")>>, default)

-------------------------------------------------------------------------------
(* Program elements.                                                       *)

ElementStart == {"TEST", "FUNC", "EXPORT", "ELEMENT", "EXTERN", "CONST"}

parseProgram == <<Until({"END"}, <<N("ProgramElement")>>)>>

parseProgramElement == <<Try("element", <<
  If({"TEST"}, <<N("Test")>>, <<If({"EXPORT", "FUNC"}, <<N("FuncDecl")>>,
  <<If({"ELEMENT"}, <<N("ElementTypeDecl")>>, <<If({"EXTERN"}, <<Special("extern")>>,
  <<If({"CONST"}, <<N("ConstDecl")>>, <<Fail>>)>>)>>)>>)>>)>>)>>

parseElementTypeDecl == <<T("ELEMENT"), Ident, N("FieldDeclList"), T("BLOCKEND")>>

parseFieldDeclList == <<While({"IDENT"}, <<N("FieldDecl")>>)>>

parseFieldDecl == <<N("TensorDecl"), T("SEMICOL")>>

parseExternDecl == <<T("EXTERN"), N("IdentDecl"), T("SEMICOL")>>

parseExternFuncDecl == <<Try("func", <<T("EXTERN"), T("FUNC"), Bind(<<Ins("FUNCTION"), Scope,
  N("GenericParams"), N("Arguments"), N("Results"), Unscope, T("SEMICOL")>>)>>)>>

parseFuncDecl == <<Try("func", <<Opt("EXPORT", <<>>), T("FUNC"), Bind(<<Ins("FUNCTION"), Scope,
  N("GenericParams"), N("Arguments"), N("Results"), Scope, N("StmtBlock"), Unscope, Unscope, T("BLOCKEND")>>)>>)>>

parseGenericParams == <<Opt("LA", List("GenericParam") \o <<T("RA")>>)>>

parseGenericParam == <<Special("zero")>>

parseArguments == <<T("LP"), If({"RP"}, <<>>, List("ArgumentDecl")), T("RP")>>

parseArgumentDecl == <<Opt("INOUT", <<>>), N("IdentDecl")>>

parseResults == <<Opt("RARROW", <<If({"LP"}, <<T("LP")>> \o List("IdentDecl") \o <<T("RP")>>, <<N("IdentDecl")>>)>>)>>

parseTest == <<T("TEST"), Ident, If({"LP"}, <<T("LP"), If({"RP"}, <<T("RP")>>, <<N("ExprParams"), T("RP")>>),
  T("EQ"), N("Expr"), T("SEMICOL")>>, <<Fail>>)>>

-------------------------------------------------------------------------------
(* Statements.                                                             *)

parseStmtBlock == <<Until({"BLOCKEND", "ELIF", "ELSE", "END"}, <<N("Stmt")>>)>>

parseStmt == <<If({"VAR"}, <<N("VarDecl")>>, <<If({"CONST"}, <<N("ConstDecl")>>, <<If({"IVAR"}, <<N("IVarDecl")>>,
  <<If({"IF"}, <<N("IfStmt")>>, <<If({"WHILE"}, <<N("WhileStmt")>>, <<If({"DO"}, <<N("DoWhileStmt")>>,
  <<If({"FOR"}, <<N("ForStmt")>>, <<If({"PRINT", "PRINTLN"}, <<N("PrintStmt")>>,
  <<If({"APPLY"}, <<N("ApplyStmt")>>, <<N("ExprOrAssignStmt")>>)>>)>>)>>)>>)>>)>>)>>)>>)>>

parseVarDecl == <<Try("semicol", <<T("VAR"), Bind(<<
  If({"COL"}, <<T("COL"), N("TensorType"), Opt("ASSIGN", <<N("Expr")>>)>>, <<T("ASSIGN"), N("Expr")>>),
  T("SEMICOL"), Ins("OTHER")>>)>>)>>

parseConstDecl == <<Try("semicol", <<T("CONST"), Bind(<<Opt("COL", <<N("TensorType")>>),
  T("ASSIGN"), N("Expr"), T("SEMICOL"), Ins("OTHER")>>)>>)>>

parseIVarDecl == <<Try("semicol", <<T("IVAR"), Bind(<<Ins("OTHER")>>)>>)>>

\* A name of tuple type is inserted as TUPLE: the type starts with '('.
parseIdentDecl == <<Bind(<<T("COL"),
  If({"LP"}, <<N("Type"), Ins("TUPLE")>>, <<N("Type"), Ins("OTHER")>>)>>)>>

parseTensorDecl == <<Bind(<<T("COL"), N("TensorType"), Ins("OTHER")>>)>>

parseWhileStmt == <<Try("blockend", <<T("WHILE"), N("Expr"), Scope, N("StmtBlock"), Unscope, T("BLOCKEND")>>)>>

parseDoWhileStmt == <<Try("dowhile", <<T("DO"), Scope, N("StmtBlock"), Unscope, T("BLOCKEND"), T("WHILE"), N("Expr")>>)>>

parseIfStmt == <<Try("if", <<T("IF"), N("Expr"), Scope, N("StmtBlock"), Unscope,
  Scope, N("ElseClause"), Unscope, T("BLOCKEND")>>)>>

parseElseClause == <<If({"ELSE"}, <<T("ELSE"), N("StmtBlock")>>,
  <<If({"ELIF"}, <<Try("elif", <<T("ELIF"), N("Expr"), Scope, N("StmtBlock"), Unscope,
                                 Scope, N("ElseClause"), Unscope>>)>>, <<>>)>>)>>

\* Mutant: the scope of the loop variable stays open.
parseForStmtOpen == <<Try("blockend", <<T("FOR"), Bind(<<T("IN"), N("ForDomain"), Scope, Ins("OTHER"),
  N("StmtBlock"), T("BLOCKEND")>>)>>)>>

parseForStmt == <<Try("blockend", <<T("FOR"), Bind(<<T("IN"), N("ForDomain"), Scope, Ins("OTHER"),
  N("StmtBlock"), Unscope, T("BLOCKEND")>>)>>)>>

parseForDomain == <<Special("domain")>>

parsePrintStmt == <<Try("semicol", <<If({"PRINT"}, <<T("PRINT")>>, <<T("PRINTLN")>>)>> \o List("Expr") \o <<T("SEMICOL")>>)>>

MapTail == <<Ident, Opt("LA", <<N("IndexSets"), T("RA")>>),
  Opt("LP", <<If({"RP"}, <<T("RP")>>, <<N("ExprParams"), T("RP")>>)>>), T("TO"), Ident>>

parseApplyStmt == <<Try("semicol", <<T("APPLY")>> \o MapTail \o <<T("SEMICOL")>>)>>

parseExprOrAssignStmt == <<Try("semicol", <<If({"SEMICOL"}, <<>>,
  <<Special("lhs"), N("Expr"), If({"COMMA", "ASSIGN"}, <<[op |-> "assign", names |-> {}]>>, <<>>)>>), T("SEMICOL")>>)>>

-------------------------------------------------------------------------------
(* Expressions.                                                            *)

Binary(operand, ts) == <<N(operand), While(ts, <<T("ANY"), N(operand)>>)>>

parseExpr == <<If({"MAP"}, <<N("MapExpr")>>, <<N("OrExpr")>>)>>

parseMapExpr == <<T("MAP")>> \o MapTail \o <<Opt("THROUGH", <<Ident>>), Opt("REDUCE", <<T("PLUS")>>)>>

parseOrExpr  == Binary("AndExpr", {"OR"})
parseAndExpr == Binary("XorExpr", {"AND"})
parseXorExpr == Binary("EqExpr", {"XOR"})
parseEqExpr  == Binary("Term", {"EQ", "NE", "RA", "LA", "GE", "LE"})
parseTerm    == <<If({"NOT"}, <<T("NOT"), N("Term")>>, <<N("AddExpr")>>)>>
parseAddExpr == Binary("MulExpr", {"PLUS", "MINUS"})
parseMulExpr == Binary("NegExpr", {"STAR", "SLASH", "BACKSLASH", "DOTSTAR", "DOTSLASH"})
parseNegExpr == <<If({"MINUS", "PLUS"}, <<T("ANY"), N("NegExpr")>>, <<N("ExpExpr")>>)>>
parseExpExpr == <<N("TransposeExpr"), Opt("EXP", <<N("ExpExpr")>>)>>

parseTransposeExpr == <<N("TensorReadExpr"), While({"TRANSPOSE"}, <<T("TRANSPOSE")>>)>>

parseTensorReadExpr == <<N("FieldReadExpr"),
  While({"LP"}, <<T("LP"), If({"RP"}, <<>>, List("ReadParam")), T("RP")>>)>>

parseFieldReadExpr == <<N("SetReadExpr"), Opt("PERIOD", <<Ident>>)>>

parseSetReadExpr == <<N("Factor"),
  Opt("LB", <<If({"RB"}, <<>>, <<N("ExprParams"), Opt("SEMICOL", <<N("ExprParams")>>)>>), T("RB")>>)>>

parseFactor == <<If({"LP"}, <<T("LP"), N("Expr"), T("RP")>>, <<If({"IDENT"}, <<Special("ident")>>,
  <<If({"INT_LITERAL", "FLOAT_LITERAL", "STRING_LITERAL", "TRUE", "FALSE", "LB", "LA"},
       <<N("TensorLiteral")>>, <<Fail>>)>>)>>)>>

parseVarExpr == <<Special("var")>>

parseRangeConst == <<Ident>>

parseCallExpr == <<Ident, Opt("LA", <<N("IndexSets"), T("RA")>>), T("LP"),
  If({"RP"}, <<>>, <<N("ExprParams")>>), T("RP")>>

parseUnnamedTupleReadExpr == <<N("VarExpr"), T("LP"), N("Expr"), T("RP")>>

parseNamedTupleReadExpr == <<N("VarExpr"), T("PERIOD"), Ident>>

parseReadParam == <<If({"COL"}, <<T("COL")>>, <<N("Expr")>>)>>

parseExprParams == List("Expr")

-------------------------------------------------------------------------------
(* Types.                                                                  *)

Scalars == {"INT", "FLOAT", "BOOL", "COMPLEX"}

parseElementType == <<Ident>>

\* What an index set names is a decision of the tree only.
parseSetIndexSet == <<Ident>>

parseEndpoints == parseSetIndexSet \o <<While({"COMMA"}, <<T("COMMA")>> \o parseSetIndexSet)>>

parseTupleLength == <<T("INT_LITERAL")>>

parseType == <<If({"IDENT"}, parseElementType, <<If({"SET"}, <<N("UnstructuredSetType")>>,
  <<If({"GRID"}, <<N("GridSetType")>>, <<If({"LP"}, <<Special("tuple")>>,
  <<If(Scalars \union {"STRING", "TENSOR", "MATRIX", "VECTOR"}, <<N("TensorType")>>,
  <<OneOf({"OPAQUE"}, <<Fail>>)>>)>>)>>)>>)>>)>>

parseUnstructuredSetType == <<T("SET"), T("LC")>> \o parseElementType \o <<T("RC"), Special("edges")>>

parseGridSetType == <<T("GRID"), T("LB"), T("INT_LITERAL"), T("RB"), T("LC")>> \o parseElementType
                    \o <<T("RC"), T("LP")>> \o parseSetIndexSet \o <<T("RP")>>

parseTupleElement == <<Ident, T("COL")>> \o parseElementType

parseNamedTupleType == <<T("LP")>> \o List("TupleElement") \o <<T("RP")>>

parseUnnamedTupleType == <<T("LP")>> \o parseElementType \o <<T("STAR")>> \o parseTupleLength \o <<T("RP")>>

parseTensorType == <<If(Scalars \union {"STRING"}, <<N("ScalarType")>>, <<If({"MATRIX"}, <<N("MatrixBlockType")>>,
  <<If({"VECTOR"}, <<N("VectorBlockType")>>, <<N("TensorBlockType")>>), Opt("TRANSPOSE", <<>>)>>)>>)>>

Block(t, f, dims) == <<T(t), Opt("LB", dims \o <<T("RB")>>), T("LP"), If({t}, <<N(f)>>, <<N("ScalarType")>>), T("RP")>>

parseVectorBlockType == Block("VECTOR", "VectorBlockType", <<N("IndexSet")>>)
parseMatrixBlockType == Block("MATRIX", "MatrixBlockType", <<N("IndexSet"), T("COMMA"), N("IndexSet")>>)
parseTensorBlockType == Block("TENSOR", "TensorBlockType", <<N("IndexSets")>>)

parseTensorComponentType == <<OneOf(Scalars, <<Fail>>)>>

parseScalarType == <<OneOf({"STRING"}, <<N("TensorComponentType")>>)>>

parseIndexSets == List("IndexSet")

parseIndexSet == <<OneOf({"INT_LITERAL"}, <<If({"IDENT"}, parseSetIndexSet, <<Fail>>)>>)>>

-------------------------------------------------------------------------------
(* Literals.                                                               *)

parseTensorLiteral == <<OneOf({"INT_LITERAL", "FLOAT_LITERAL", "TRUE", "FALSE", "STRING_LITERAL"},
  <<If({"LA"}, <<N("ComplexLiteral")>>, <<If({"LB"}, <<N("DenseTensorLiteral")>>, <<Fail>>)>>)>>)>>

parseDenseTensorLiteral == <<T("LB"), N("DenseTensorLiteralInner"), T("RB")>>

\* Elements follow each other with or without a comma.
Elements(f, ts) == <<N(f), While(ts \union {"COMMA"}, <<Opt("COMMA", <<>>), N(f)>>)>>

parseDenseTensorLiteralInner ==
  <<If({"LB"}, Elements("DenseTensorLiteral", {"LB"}), <<N("DenseMatrixLiteral")>>)>>

parseDenseMatrixLiteral == <<N("DenseVectorLiteral"), While({"SEMICOL"}, <<T("SEMICOL"), N("DenseVectorLiteral")>>)>>

parseDenseVectorLiteral == <<If({"INT_LITERAL"}, <<N("DenseIntVectorLiteral")>>,
  <<If({"FLOAT_LITERAL"}, <<N("DenseFloatVectorLiteral")>>, <<If({"PLUS", "MINUS"}, <<Special("signed")>>,
  <<If({"LA"}, <<N("DenseComplexVectorLiteral")>>, <<Fail>>)>>)>>)>>)>>

parseDenseIntVectorLiteral == Elements("SignedIntLiteral", {"PLUS", "MINUS", "INT_LITERAL"})
parseDenseFloatVectorLiteral == Elements("SignedFloatLiteral", {"PLUS", "MINUS", "FLOAT_LITERAL"})
parseDenseComplexVectorLiteral == Elements("ComplexLiteral", {"LA"})

parseSignedIntLiteral == <<OneOf({"PLUS", "MINUS"}, <<>>), T("INT_LITERAL")>>
parseSignedFloatLiteral == <<OneOf({"PLUS", "MINUS"}, <<>>), T("FLOAT_LITERAL")>>

parseComplexLiteral == <<T("LA"), N("SignedFloatLiteral"), T("COMMA"), N("SignedFloatLiteral"), T("RA")>>

-------------------------------------------------------------------------------
(* The table of parse functions, and what the catch clauses do.            *)

Rules == [
  ProgramElement |-> parseProgramElement, ElementTypeDecl |-> parseElementTypeDecl,
  FieldDeclList |-> parseFieldDeclList, FieldDecl |-> parseFieldDecl, ExternDecl |-> parseExternDecl,
  ExternFuncDecl |-> parseExternFuncDecl, FuncDecl |-> parseFuncDecl, GenericParams |-> parseGenericParams,
  GenericParam |-> parseGenericParam, Arguments |-> parseArguments, ArgumentDecl |-> parseArgumentDecl,
  Results |-> parseResults, Test |-> parseTest, StmtBlock |-> parseStmtBlock, Stmt |-> parseStmt,
  VarDecl |-> parseVarDecl, ConstDecl |-> parseConstDecl, IVarDecl |-> parseIVarDecl,
  IdentDecl |-> parseIdentDecl, TensorDecl |-> parseTensorDecl, WhileStmt |-> parseWhileStmt,
  DoWhileStmt |-> parseDoWhileStmt, IfStmt |-> parseIfStmt, ElseClause |-> parseElseClause,
  ForStmt |-> parseForStmt, ForDomain |-> parseForDomain, PrintStmt |-> parsePrintStmt,
  ApplyStmt |-> parseApplyStmt, ExprOrAssignStmt |-> parseExprOrAssignStmt, Expr |-> parseExpr,
  MapExpr |-> parseMapExpr, OrExpr |-> parseOrExpr, AndExpr |-> parseAndExpr, XorExpr |-> parseXorExpr,
  EqExpr |-> parseEqExpr, Term |-> parseTerm, AddExpr |-> parseAddExpr, MulExpr |-> parseMulExpr,
  NegExpr |-> parseNegExpr, ExpExpr |-> parseExpExpr, TransposeExpr |-> parseTransposeExpr,
  TensorReadExpr |-> parseTensorReadExpr, FieldReadExpr |-> parseFieldReadExpr,
  SetReadExpr |-> parseSetReadExpr, Factor |-> parseFactor, VarExpr |-> parseVarExpr,
  RangeConst |-> parseRangeConst, CallExpr |-> parseCallExpr,
  UnnamedTupleReadExpr |-> parseUnnamedTupleReadExpr, NamedTupleReadExpr |-> parseNamedTupleReadExpr,
  ReadParam |-> parseReadParam, ExprParams |-> parseExprParams, Type |-> parseType,
  UnstructuredSetType |-> parseUnstructuredSetType, GridSetType |-> parseGridSetType,
  TupleElement |-> parseTupleElement, NamedTupleType |-> parseNamedTupleType,
  UnnamedTupleType |-> parseUnnamedTupleType, TensorType |-> parseTensorType,
  VectorBlockType |-> parseVectorBlockType, MatrixBlockType |-> parseMatrixBlockType,
  TensorBlockType |-> parseTensorBlockType, TensorComponentType |-> parseTensorComponentType,
  ScalarType |-> parseScalarType, IndexSets |-> parseIndexSets, IndexSet |-> parseIndexSet,
  TensorLiteral |-> parseTensorLiteral, DenseTensorLiteral |-> parseDenseTensorLiteral,
  DenseTensorLiteralInner |-> parseDenseTensorLiteralInner, DenseMatrixLiteral |-> parseDenseMatrixLiteral,
  DenseVectorLiteral |-> parseDenseVectorLiteral, DenseIntVectorLiteral |-> parseDenseIntVectorLiteral,
  DenseFloatVectorLiteral |-> parseDenseFloatVectorLiteral,
  DenseComplexVectorLiteral |-> parseDenseComplexVectorLiteral, SignedIntLiteral |-> parseSignedIntLiteral,
  SignedFloatLiteral |-> parseSignedFloatLiteral, ComplexLiteral |-> parseComplexLiteral]

CatchSemicol == <<SkipTo({"SEMICOL"}), T("SEMICOL")>>

CatchBlockEnd == <<SkipTo({"BLOCKEND"}), T("BLOCKEND")>>

\* Mutant: the clause closes the scope that the failed branch may have left.
CatchIfCloses == <<SkipTo({"ELIF", "ELSE", "BLOCKEND"}), Unscope, N("ElseClause"), T("BLOCKEND")>>

CatchIf == <<SkipTo({"ELIF", "ELSE", "BLOCKEND"}), N("ElseClause"), T("BLOCKEND")>>

CatchElif == <<SkipTo({"ELIF", "ELSE", "BLOCKEND"}), Scope, N("ElseClause"), Unscope>>

CatchDoWhile == <<SkipTo({"BLOCKEND", "ELIF", "ELSE", "END", "VAR", "CONST", "IF", "WHILE", "DO", "FOR", "PRINT", "PRINTLN"})>>

\* Mutant: recovery also stops at ';'.
CatchElementEarly == <<SkipTo(ElementStart \union {"SEMICOL"})>>

CatchElement == <<SkipTo(ElementStart)>>

CatchFunc(level) == <<[op |-> "restore", level |-> level], [op |-> "rethrow"]>>

Handler(catch) ==
  CASE catch.handler = "semicol"  -> CatchSemicol
    [] catch.handler = "blockend" -> CatchBlockEnd
    [] catch.handler = "if"       -> CatchIf
    [] catch.handler = "elif"     -> CatchElif
    [] catch.handler = "dowhile"  -> CatchDoWhile
    [] catch.handler = "element"  -> CatchElement
    [] catch.handler = "func"     -> CatchFunc(catch.level)

-------------------------------------------------------------------------------
(* The machine.                                                            *)

VARIABLES
  alphabet,  \* the token types of this behaviour
  left,      \* tokens of the stream not looked at yet
  look,      \* tokens looked at and not consumed
  stack,     \* what is left to do: instructions and catch clauses
  decls,     \* the symbol table, innermost scope first
  lhs,       \* whether the expression read so far is a lone variable
  failed     \* an error was reported

vars == <<alphabet, left, look, stack, decls, lhs, failed>>

NewScope == [n \in Names |-> "none"]

\* An identifier carries its name; an integer, whether it is zero.
Tokens(t) == CASE t = "IDENT" -> {[type |-> t, name |-> n] : n \in Names}
               [] t = "INT_LITERAL" -> {[type |-> t, name |-> n] : n \in {"0", "1"}}
               [] OTHER -> {[type |-> t, name |-> ""]}

EndToken == [type |-> "END", name |-> ""]

Init ==
  /\ \E s \in Streams : alphabet = s.types /\ look = s.start
  /\ left = MaxTokens
  /\ stack = parseProgram
  /\ decls = <<[n \in Names |-> IF n \in Intrinsics THEN "FUNCTION" ELSE "none"]>>
  /\ lhs = "no"
  /\ failed = FALSE

peek(k) == IF k < Len(look) THEN look[k + 1] ELSE EndToken

Top == Head(stack)
Rest == Tail(stack)
At(op) == stack # <<>> /\ Top.op = op

\* How far the next instruction peeks.
Needs ==
  CASE stack = <<>> -> 0
    [] Top.op \in {"consume", "branch", "loop", "until", "bind", "skip", "zero", "assign", "var"} -> 1
    [] Top.op \in {"extern", "domain", "signed"} -> 2
    [] Top.op = "ident" -> IF Len(look) >= 2 /\ look[2].type = "LA" THEN 6 ELSE 2
    [] Top.op \in {"tuple", "edges"} -> 3
    [] OTHER -> 0

Ready == Len(look) >= Needs \/ EndToken \in Range(look)

Scan ==
  /\ ~Ready
  /\ \/ /\ left > 0
        /\ left' = left - 1
        /\ \E t \in alphabet : \E token \in Tokens(t) : look' = Append(look, token)
     \/ look' = Append(look, EndToken) /\ left' = 0
  /\ UNCHANGED <<alphabet, stack, decls, lhs, failed>>

\* Go on with these instructions; nothing but the stack changes.
Continue(code) ==
  /\ stack' = code \o Rest
  /\ UNCHANGED <<alphabet, left, look, decls, lhs, failed>>

\* An exception: unwind to the innermost catch clause and run it.
Throw ==
  LET clause == CHOOSE i \in DOMAIN stack : stack[i].op = "catch" /\ \A j \in 1..(i - 1) : stack[j].op # "catch"
  IN  /\ stack' = Handler(stack[clause]) \o SubSeq(stack, clause + 1, Len(stack))
      /\ lhs' = "no"
      /\ UNCHANGED <<alphabet, left, look, decls>>

reportErrorAndThrow == failed' = TRUE /\ Throw

\* Take the next token, which is of the type asked for.
Advance(expr, code) ==
  /\ look' = Tail(look)
  /\ lhs' = expr
  /\ stack' = code \o Rest
  /\ UNCHANGED <<alphabet, left, decls, failed>>

consume ==
  /\ At("consume") /\ Ready
  /\ IF Top.type \in {peek(0).type, "ANY"} THEN Advance("no", <<>>) ELSE reportErrorAndThrow

\* The name just read, in the insertions that follow.
Fill(code, n) == [i \in DOMAIN code |-> IF code[i].op = "insert" THEN [code[i] EXCEPT !.name = n] ELSE code[i]]
Named(code, n) == [i \in DOMAIN code |->
  IF code[i].op = "branch" THEN If(code[i].on, Fill(code[i].yes, n), Fill(code[i].no, n)) ELSE Fill(code, n)[i]]

parseIdent ==
  /\ At("bind") /\ Ready
  /\ IF peek(0).type = "IDENT" THEN Advance("no", Named(Top.body, peek(0).name)) ELSE reportErrorAndThrow

\* A variable that is the whole expression so far.
VarExpr ==
  /\ At("var") /\ Ready
  /\ Advance(IF lhs = "start" THEN peek(0).name ELSE "no", <<>>)

Call == At("call") /\ Continue(Rules[Top.to])

Branch ==
  \/ At("branch") /\ Ready /\ Continue(IF peek(0).type \in Top.on THEN Top.yes ELSE Top.no)
  \/ At("loop") /\ Ready /\ Continue(IF peek(0).type \in Top.on THEN Append(Top.body, Top) ELSE <<>>)
  \/ At("until") /\ Ready /\ Continue(IF peek(0).type \in Top.on THEN <<>> ELSE Append(Top.body, Top))

Catch ==
  \/ At("try") /\ Continue(Append(Top.body, [op |-> "catch", handler |-> Top.handler, level |-> Len(decls)]))
  \/ At("catch") /\ Continue(<<>>)

Error ==
  \/ At("fail") /\ reportErrorAndThrow
  \/ At("rethrow") /\ UNCHANGED failed /\ Throw

skipTo ==
  /\ At("skip") /\ Ready
  /\ IF peek(0).type \in Top.on \union {"END"} THEN Continue(<<>>) ELSE Advance("no", <<Top>>)

Update(table) ==
  /\ decls' = table
  /\ stack' = Rest
  /\ UNCHANGED <<alphabet, left, look, lhs, failed>>

Symbols ==
  \/ At("scope") /\ Update(<<NewScope>> \o decls)
  \/ At("unscope") /\ Update(Tail(decls))
  \/ At("insert") /\ Update([decls EXCEPT ![1][Top.name] = Top.kind])
  \/ At("restore") /\ Update(SubSeq(decls, Len(decls) - Top.level + 1, Len(decls)))

contains(n) == \E i \in DOMAIN decls : decls[i][n] # "none"
get(n) == decls[CHOOSE i \in DOMAIN decls : decls[i][n] # "none" /\ \A j \in 1..(i - 1) : decls[j][n] = "none"][n]

\* The names a statement assigns become variables unless they are declared.
Assign ==
  \/ At("lhs") /\ stack' = Rest /\ lhs' = "start" /\ UNCHANGED <<alphabet, left, look, decls, failed>>
  \/ /\ At("assign") /\ Ready
     /\ LET names == Top.names \union ({lhs} \intersect Names)
        IN  Continue(IF peek(0).type = "COMMA"
                     THEN <<T("COMMA"), Special("lhs"), N("Expr"), [op |-> "assign", names |-> names]>>
                     ELSE <<T("ASSIGN"), N("Expr"), [op |-> "declare", names |-> names]>>)
  \/ /\ At("declare")
     /\ Update([decls EXCEPT ![1] = [n \in Names |-> IF n \in Top.names /\ ~contains(n) THEN "OTHER" ELSE @[n]]])

\* f<...>( is told from a comparison by the tokens that follow.
GenericCall ==
  /\ peek(1).type = "LA"
  /\ \/ peek(3).type = "RA" /\ peek(4).type = "LP" /\ peek(5).type = "RP"
     \/ peek(3).type = "COMMA"

Lookahead ==
  \/ At("extern") /\ Ready /\ Continue(IF peek(1).type = "FUNC" THEN <<N("ExternFuncDecl")>> ELSE <<N("ExternDecl")>>)
  \/ /\ At("zero") /\ Ready
     /\ Continue(IF peek(0).type = "INT_LITERAL" /\ peek(0).name = "0"
                 THEN <<T("INT_LITERAL"), T("COL"), Bind(<<Ins("RANGE_GENERIC_PARAM")>>)>>
                 ELSE <<Bind(<<Ins("GENERIC_PARAM")>>)>>)
  \/ /\ At("domain") /\ Ready
     /\ Continue(IF peek(0).type = "IDENT" /\ peek(1).type # "COL"
                 THEN <<Ident>> ELSE <<N("Expr"), T("COL"), N("Expr")>>)
  \/ /\ At("ident") /\ Ready
     /\ LET n == peek(0).name
            kind == IF contains(n) THEN get(n) ELSE "none"
        IN  Continue(<<N(IF GenericCall \/ kind = "FUNCTION" THEN "CallExpr"
                         ELSE IF kind = "RANGE_GENERIC_PARAM" THEN "RangeConst"
                         ELSE IF kind = "TUPLE" /\ peek(1).type = "LP" THEN "UnnamedTupleReadExpr"
                         ELSE IF kind = "TUPLE" /\ peek(1).type = "PERIOD" THEN "NamedTupleReadExpr"
                         ELSE "VarExpr")>>)
  \/ At("tuple") /\ Ready /\ Continue(<<N(IF peek(2).type = "COL" THEN "NamedTupleType" ELSE "UnnamedTupleType")>>)
  \/ /\ At("edges") /\ Ready
     /\ Continue(IF peek(2).type = "STAR" /\ peek(0).type = "LP"
                 THEN <<T("LP")>> \o parseSetIndexSet \o <<T("STAR")>> \o parseTupleLength \o <<T("RP")>>
                 ELSE <<Opt("LP", parseEndpoints \o <<T("RP")>>)>>)
  \/ /\ At("signed") /\ Ready
     /\ Continue(CASE peek(1).type = "INT_LITERAL" -> <<N("DenseIntVectorLiteral")>>
                   [] peek(1).type = "FLOAT_LITERAL" -> <<N("DenseFloatVectorLiteral")>>
                   [] OTHER -> <<Fail>>)

Next == \/ Scan \/ consume \/ parseIdent \/ VarExpr \/ Call \/ Branch \/ Catch \/ Error \/ skipTo
        \/ Symbols \/ Assign \/ Lookahead

Spec == Init /\ [][Next]_vars /\ WF_vars(Next)

-------------------------------------------------------------------------------
(* Properties.                                                             *)

Count(op) == Cardinality({i \in DOMAIN stack : stack[i].op = op})

\* The scopes that the functions on the call stack have opened.
OpenScopes == Count("unscope") - Count("scope")

\* However many errors were recovered from, every function still running
\* finds its scopes in the symbol table: no unscope takes the global scope
\* away, and the loop of parseFuncDecl's catch clause reaches its level.
ScopesCoverPending == Len(decls) >= 1 + OpenScopes

\* Until an error is reported the symbol table has exactly the scopes of the
\* functions on the call stack, so a name is seen where its scope says.
AcceptedScopesClosed == ~failed => Len(decls) = 1 + OpenScopes

\* Error recovery always makes progress: the parser reaches the end of every
\* token stream.
ParserTerminates == <>(stack = <<>>)
===============================================================================
