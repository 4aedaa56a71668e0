------------------------------ MODULE MCParser ------------------------------
(* Token streams that each exercise one part of the grammar: a fixed start *)
(* that leads there, and the types of the tokens that may follow.          *)
EXTENDS Parser

Tok(t) == [type |-> t, name |-> ""]
Id(n) == [type |-> "IDENT", name |-> n]
Num(n) == [type |-> "INT_LITERAL", name |-> n]
Stream(start, types) == [start |-> start, types |-> types]

\* func x(): the body of a function
Body == <<Tok("FUNC"), Id("x"), Tok("LP"), Tok("RP")>>
\* func g(x: (g * 0)): x is a tuple
TupleBody == <<Tok("FUNC"), Id("x"), Tok("LP"), Id("x"), Tok("COL"), Tok("LP"), Id("x"), Tok("STAR"), Num("0"), Tok("RP"), Tok("RP")>>
\* func f<0:x>(): x is a range
RangeBody == <<Tok("FUNC"), Id("f"), Tok("LA"), Num("0"), Tok("COL"), Id("x"), Tok("RA"), Tok("LP"), Tok("RP")>>
\* var x : and x = [
Declaration == Body \o <<Tok("VAR"), Id("x"), Tok("COL")>>
Literal == Body \o <<Id("x"), Tok("ASSIGN"), Tok("LB")>>
Extern == <<Tok("EXTERN"), Id("x"), Tok("COL")>>

MCStreams == {
  Stream(<<>>, {"TEST", "FUNC", "EXPORT", "ELEMENT", "EXTERN", "CONST", "IDENT", "LP", "SEMICOL"}),
  Stream(Body, {"IF", "ELSE", "ELIF", "WHILE", "DO", "FOR", "IN", "IDENT", "BLOCKEND"}),
  Stream(Body, {"IDENT", "COMMA", "ASSIGN", "SEMICOL", "BLOCKEND", "LA", "RA", "LP", "RP"}),
  Stream(Body, {"IDENT", "MAP", "TO", "THROUGH", "REDUCE", "PLUS", "SEMICOL", "APPLY", "PRINT"}),
  Stream(Body, {"IDENT", "PLUS", "STAR", "EXP", "NOT", "OR", "TRANSPOSE", "SEMICOL", "LB", "RB"}),
  Stream(TupleBody, {"IDENT", "PERIOD", "LP", "RP", "COL", "SEMICOL", "BLOCKEND", "FOR", "IN"}),
  Stream(RangeBody, {"IDENT", "LB", "RB", "VAR", "IVAR", "ASSIGN", "SEMICOL", "BLOCKEND", "FUNC"}),
  Stream(Declaration, {"VECTOR", "MATRIX", "TENSOR", "LB", "RB", "LP", "RP", "FLOAT", "STRING", "INT_LITERAL", "COMMA"}),
  Stream(Literal, {"LB", "RB", "INT_LITERAL", "FLOAT_LITERAL", "MINUS", "COMMA", "LA", "RA", "SEMICOL"}),
  Stream(Extern, {"SET", "GRID", "LC", "RC", "IDENT", "LP", "RP", "STAR", "COMMA", "COL", "INT_LITERAL", "LB", "RB"}),
  Stream(<<>>, {"ELEMENT", "IDENT", "COL", "FLOAT", "SEMICOL", "BLOCKEND", "EXTERN", "FUNC"}),
  Stream(<<Tok("FUNC"), Id("x")>>, {"LA", "RA", "INT_LITERAL", "COL", "IDENT", "LP", "RP", "RARROW", "INOUT", "FLOAT", "COMMA"})}
=============================================================================
