---------------------------- MODULE ParserProofs ----------------------------
(***************************************************************************)
(* Proofs about the parser machine of Parser: however many errors are      *)
(* recovered from, on every token stream, the symbol table keeps the       *)
(* scopes that the running parse functions still have to close.            *)
(*                                                                         *)
(* The proof has two halves.  The grammar: every parse function and every  *)
(* catch clause closes the scopes it opens, at every depth of nesting.     *)
(* The machine: a step replaces the top of the stack by such code, or      *)
(* unwinds to a catch clause, and the slack of the symbol table over the   *)
(* stack never falls below what the catch clauses have recorded.           *)
(***************************************************************************)
EXTENDS Parser, DataLemmas

-------------------------------------------------------------------------------
(* Heights: how many scopes the rest of a sequence still closes.           *)

Weight(x) == IF x.op = "unscope" THEN 1 ELSE IF x.op = "scope" THEN -1 ELSE 0

IsHeight(h, s) ==
  /\ h \in [1..(Len(s) + 1) -> Int]
  /\ h[Len(s) + 1] = 0
  /\ \A i \in 1..Len(s) : h[i] = Weight(s[i]) + h[i + 1]

\* Code that closes the scopes it opens, and no others.
Balanced(s) ==
  \E h : IsHeight(h, s) /\ h[1] = 0 /\ \A i \in 1..(Len(s) + 1) : h[i] >= 0

\* A weight is a number.
LEMMA WeightType == \A x : Weight(x) \in Int
BY DEF Weight

-------------------------------------------------------------------------------
(* Sound instructions.  Instructions hold code, so a set of instructions   *)
(* is closed when the code its members hold is balanced and made of        *)
(* members.                                                                *)

Kinds == {"none", "FUNCTION", "TUPLE", "OTHER", "GENERIC_PARAM", "RANGE_GENERIC_PARAM"}

Handlers == {"semicol", "blockend", "if", "elif", "dowhile", "element", "func"}

Leaves == {"consume", "skip", "scope", "unscope", "fail", "extern", "zero", "lhs", "domain",
           "ident", "var", "tuple", "edges", "signed", "assign", "declare"}

GoodSeq(s, W) == s \in Seq(W) /\ Balanced(s)

Local(x, W) ==
  \/ x.op \in Leaves
  \/ x.op = "call" /\ x.to \in DOMAIN Rules
  \/ /\ x = [op |-> "insert", kind |-> x.kind, name |-> x.name]
     /\ x.kind \in Kinds
  \/ x.op = "branch" /\ GoodSeq(x.yes, W) /\ GoodSeq(x.no, W)
  \/ x.op \in {"loop", "until", "bind"} /\ GoodSeq(x.body, W)
  \/ x.op = "try" /\ x.handler \in Handlers /\ GoodSeq(x.body, W)

Closed(W) == \A x \in W : Local(x, W)

\* An instruction of some closed set, and one that changes no scope itself.
Sound(x) == \E W : Closed(W) /\ x \in W

OK(x) == Sound(x) /\ Weight(x) = 0

GoodCode(s) == \E W : Closed(W) /\ GoodSeq(s, W)

\* What is good over a set is good over a larger set.
LEMMA LocalMonotonic ==
  ASSUME NEW W, NEW X, W \subseteq X, NEW x, Local(x, W)
  PROVE  Local(x, X)
<1>1. \A s : GoodSeq(s, W) => GoodSeq(s, X)
  BY SeqMonotonic, Zenon DEF GoodSeq
<1> QED
  BY <1>1, Zenon DEF Local

\* A union of closed sets is closed.
LEMMA ClosedUnion ==
  ASSUME NEW C, \A W \in C : Closed(W)
  PROVE  Closed(UNION C)
<1> SUFFICES ASSUME NEW W \in C, NEW x \in W PROVE Local(x, UNION C)
  BY Zenon DEF Closed
<1>1. Local(x, W)
  BY Zenon DEF Closed
<1>2. W \subseteq UNION C
  BY Zenon
<1> QED
  BY <1>1, <1>2, LocalMonotonic, Zenon

\* Two closed sets have a closed union.
LEMMA ClosedPair ==
  ASSUME NEW W, NEW X, Closed(W), Closed(X)
  PROVE  Closed(W \union X)
<1>1. \A Y \in {W, X} : Closed(Y)
  BY Zenon
<1>2. UNION {W, X} = W \union X
  OBVIOUS
<1> QED
  BY <1>1, <1>2, ClosedUnion, Zenon

\* An instruction that is good over a closed set is sound.
LEMMA LocalSound ==
  ASSUME NEW W, Closed(W), NEW x, Local(x, W)
  PROVE  Sound(x)
<1>1. W \subseteq W \union {x}
  OBVIOUS
<1>2. \A y \in W \union {x} : Local(y, W \union {x})
  BY <1>1, LocalMonotonic, Zenon DEF Closed
<1> QED
  BY <1>2, Zenon DEF Sound, Closed

\* The empty set is closed.
LEMMA ClosedEmpty == Closed({})
BY Zenon DEF Closed

\* Sound instructions come from one closed set.
LEMMA Gather ==
  ASSUME NEW V, NEW s \in Seq(V), \A i \in DOMAIN s : Sound(s[i])
  PROVE  \E W : Closed(W) /\ s \in Seq(W)
<1> DEFINE Of(i) == CHOOSE W : Closed(W) /\ s[i] \in W
           C == {Of(i) : i \in DOMAIN s}
<1>1. ASSUME NEW i \in DOMAIN s PROVE Closed(Of(i)) /\ s[i] \in Of(i)
  BY Zenon DEF Sound
<1> HIDE DEF Of
<1>2. \A W \in C : Closed(W)
  BY <1>1, Zenon
<1>3. Closed(UNION C)
  BY <1>2, ClosedUnion, Zenon
<1>4. \A i \in DOMAIN s : s[i] \in UNION C
  BY <1>1, Zenon
<1>5. Len(s) \in Nat /\ DOMAIN s = 1..Len(s) /\ s \in [1..Len(s) -> V]
  BY SeqParts, Zenon
<1> HIDE DEF C
<1>6. s \in [1..Len(s) -> UNION C]
  BY <1>4, <1>5
<1>7. s \in Seq(UNION C)
  BY <1>5, <1>6, FunctionIsSeq, Zenon
<1> QED
  BY <1>3, <1>7, Zenon

\* The instructions of good code are sound.
LEMMA GoodElements ==
  ASSUME NEW s, GoodCode(s)
  PROVE  /\ \E W : s \in Seq(W)
         /\ \A i \in DOMAIN s : Sound(s[i])
         /\ Balanced(s)
<1>1. PICK W : Closed(W) /\ s \in Seq(W) /\ Balanced(s)
  BY Zenon DEF GoodCode, GoodSeq
<1>2. \A i \in DOMAIN s : s[i] \in W
  BY <1>1, SeqParts, Zenon
<1> QED
  BY <1>1, <1>2, Zenon DEF Sound

\* Sound instructions with a height that starts at zero are good code.
LEMMA FromHeight ==
  ASSUME NEW V, NEW s \in Seq(V), \A i \in DOMAIN s : Sound(s[i]), Balanced(s)
  PROVE  GoodCode(s)
BY Gather, Zenon DEF GoodCode, GoodSeq

\* Sound instructions that change no scope are good code.
LEMMA FlatCode ==
  ASSUME NEW V, NEW s \in Seq(V), \A i \in DOMAIN s : OK(s[i])
  PROVE  GoodCode(s)
<1>1. Len(s) \in Nat /\ DOMAIN s = 1..Len(s)
  BY SeqParts, Zenon
<1>2. \A i \in 1..Len(s) : Weight(s[i]) = 0
  BY <1>1, Zenon DEF OK
<1> DEFINE h == [i \in 1..(Len(s) + 1) |-> 0]
<1>3. IsHeight(h, s) /\ h[1] = 0 /\ \A i \in 1..(Len(s) + 1) : h[i] >= 0
  BY <1>1, <1>2 DEF IsHeight
<1> HIDE DEF h
<1>4. Balanced(s)
  BY <1>3, Zenon DEF Balanced
<1> QED
  BY <1>4, FromHeight, Zenon DEF OK

\* Good code follows good code.
LEMMA ConcatCode ==
  ASSUME NEW s, NEW t, GoodCode(s), GoodCode(t)
  PROVE  GoodCode(s \o t)
<1>1. PICK W : Closed(W) /\ s \in Seq(W) /\ Balanced(s)
  BY Zenon DEF GoodCode, GoodSeq
<1>2. PICK X : Closed(X) /\ t \in Seq(X) /\ Balanced(t)
  BY Zenon DEF GoodCode, GoodSeq
<1>3. PICK Y : Y = W \union X /\ Closed(Y)
  BY <1>1, <1>2, ClosedPair, Zenon
<1>4. s \in Seq(Y) /\ t \in Seq(Y)
  BY <1>1, <1>2, <1>3, SeqMonotonic, Zenon
<1>5. s \o t \in Seq(Y) /\ Len(s \o t) = Len(s) + Len(t)
      /\ \A i \in 1..(Len(s) + Len(t)) : (s \o t)[i] = IF i <= Len(s) THEN s[i] ELSE t[i - Len(s)]
  BY <1>4, ConcatProperties, Zenon
<1>6. PICK m \in Nat, n \in Nat : m = Len(s) /\ n = Len(t)
  BY <1>4, SeqParts, Zenon
<1>7. PICK g : IsHeight(g, s) /\ g[1] = 0 /\ \A i \in 1..(Len(s) + 1) : g[i] >= 0
  BY <1>1, Zenon DEF Balanced
<1>8. PICK f : IsHeight(f, t) /\ f[1] = 0 /\ \A i \in 1..(Len(t) + 1) : f[i] >= 0
  BY <1>2, Zenon DEF Balanced
<1>9. PICK c : c = s \o t /\ c \in Seq(Y) /\ Len(c) = m + n
               /\ \A i \in 1..(m + n) : c[i] = IF i <= m THEN s[i] ELSE t[i - m]
  BY <1>5, <1>6, Zenon
<1>10. g \in [1..(m + 1) -> Int] /\ g[m + 1] = 0 /\ g[1] = 0 /\ (\A i \in 1..(m + 1) : g[i] >= 0)
       /\ \A i \in 1..m : g[i] = Weight(s[i]) + g[i + 1]
  BY <1>6, <1>7, Zenon DEF IsHeight
<1>11. f \in [1..(n + 1) -> Int] /\ f[n + 1] = 0 /\ f[1] = 0 /\ (\A i \in 1..(n + 1) : f[i] >= 0)
       /\ \A i \in 1..n : f[i] = Weight(t[i]) + f[i + 1]
  BY <1>6, <1>8, Zenon DEF IsHeight
<1> DEFINE h == [i \in 1..(m + n + 1) |-> IF i <= m THEN g[i] ELSE f[i - m]]
<1>12. h \in [1..(m + n + 1) -> Int] /\ \A i \in 1..(m + n + 1) : h[i] >= 0
  BY <1>10, <1>11
<1>13. h[1] = 0 /\ h[m + n + 1] = 0
  BY <1>10, <1>11
<1>14. ASSUME NEW i \in 1..(m + n) PROVE h[i] = Weight(c[i]) + h[i + 1]
  <2>1. CASE i < m
    <3>1. i \in 1..m /\ c[i] = s[i] /\ h[i] = g[i] /\ h[i + 1] = g[i + 1]
      BY SMTT(60), <2>1, <1>9
    <3>2. g[i] = Weight(s[i]) + g[i + 1]
      BY <3>1, <1>10, Zenon
    <3> QED
      BY <3>1, <3>2, Zenon
  <2>2. CASE i = m
    BY SMTT(60), <2>2, <1>9, <1>10, <1>11
  <2>3. CASE i > m
    <3>1. i - m \in 1..n /\ (i + 1) - m = (i - m) + 1
      BY <2>3
    <3>2. f[i - m] = Weight(t[i - m]) + f[(i - m) + 1]
      BY <3>1, <1>11, Zenon
    <3>3. c[i] = t[i - m] /\ h[i] = f[i - m] /\ h[i + 1] = f[(i + 1) - m]
      BY SMTT(60), <2>3, <1>9
    <3> QED
      BY <3>1, <3>2, <3>3, Zenon
  <2> QED
    BY <2>1, <2>2, <2>3
<1> HIDE DEF h
<1>15. IsHeight(h, c)
  BY <1>9, <1>12, <1>13, <1>14, Zenon DEF IsHeight
<1>16. Balanced(c)
  BY <1>9, <1>12, <1>13, <1>15, Zenon DEF Balanced
<1> QED
  BY <1>3, <1>9, <1>16, Zenon DEF GoodCode, GoodSeq

\* The empty code, and below, short sequences of instructions that change no scope.
LEMMA Code0 == GoodCode(<<>>)
<1>1. <<>> \in Seq({}) /\ DOMAIN <<>> = {}
  OBVIOUS
<1> QED
  BY <1>1, FlatCode, Zenon

\* One of them.
LEMMA Code1 ==
  ASSUME NEW a, OK(a)
  PROVE  GoodCode(<<a>>)
<1>1. <<a>> \in Seq({a}) /\ DOMAIN <<a>> = 1..1
  OBVIOUS
<1>2. \A i \in 1..1 : OK(<<a>>[i])
  OBVIOUS
<1> QED
  BY <1>1, <1>2, FlatCode, Zenon

\* Two of them.
LEMMA Code2 ==
  ASSUME NEW a, NEW b, OK(a), OK(b)
  PROVE  GoodCode(<<a, b>>)
<1>1. <<a, b>> \in Seq({a, b}) /\ DOMAIN <<a, b>> = 1..2
  OBVIOUS
<1>2. \A i \in 1..2 : OK(<<a, b>>[i])
  OBVIOUS
<1> QED
  BY <1>1, <1>2, FlatCode, Zenon

\* Three of them.
LEMMA Code3 ==
  ASSUME NEW a, NEW b, NEW c, OK(a), OK(b), OK(c)
  PROVE  GoodCode(<<a, b, c>>)
<1>1. <<a, b, c>> \in Seq({a, b, c}) /\ DOMAIN <<a, b, c>> = 1..3
  OBVIOUS
<1>2. \A i \in 1..3 : OK(<<a, b, c>>[i])
  OBVIOUS
<1> QED
  BY <1>1, <1>2, FlatCode, Zenon

\* Four of them.
LEMMA Code4 ==
  ASSUME NEW a, NEW b, NEW c, NEW d, OK(a), OK(b), OK(c), OK(d)
  PROVE  GoodCode(<<a, b, c, d>>)
<1>1. <<a, b, c, d>> \in Seq({a, b, c, d}) /\ DOMAIN <<a, b, c, d>> = 1..4
  OBVIOUS
<1>2. \A i \in 1..4 : OK(<<a, b, c, d>>[i])
  OBVIOUS
<1> QED
  BY <1>1, <1>2, FlatCode, Zenon

\* Five of them.
LEMMA Code5 ==
  ASSUME NEW a, NEW b, NEW c, NEW d, NEW e, OK(a), OK(b), OK(c), OK(d), OK(e)
  PROVE  GoodCode(<<a, b, c, d, e>>)
<1>1. <<a, b, c, d, e>> \in Seq({a, b, c, d, e}) /\ DOMAIN <<a, b, c, d, e>> = 1..5
  OBVIOUS
<1>2. \A i \in 1..5 : OK(<<a, b, c, d, e>>[i])
  OBVIOUS
<1> QED
  BY <1>1, <1>2, FlatCode, Zenon

\* Six of them.
LEMMA Code6 ==
  ASSUME NEW a, NEW b, NEW c, NEW d, NEW e, NEW f, OK(a), OK(b), OK(c), OK(d), OK(e), OK(f)
  PROVE  GoodCode(<<a, b, c, d, e, f>>)
<1>1. <<a, b, c, d, e, f>> \in Seq({a, b, c, d, e, f}) /\ DOMAIN <<a, b, c, d, e, f>> = 1..6
  OBVIOUS
<1>2. \A i \in 1..6 : OK(<<a, b, c, d, e, f>>[i])
  OBVIOUS
<1> QED
  BY <1>1, <1>2, FlatCode, Zenon

\* Seven of them.
LEMMA Code7 ==
  ASSUME NEW a, NEW b, NEW c, NEW d, NEW e, NEW f, NEW g, OK(a), OK(b), OK(c), OK(d), OK(e), OK(f), OK(g)
  PROVE  GoodCode(<<a, b, c, d, e, f, g>>)
<1>1. <<a, b, c, d, e, f, g>> \in Seq({a, b, c, d, e, f, g}) /\ DOMAIN <<a, b, c, d, e, f, g>> = 1..7
  OBVIOUS
<1>2. \A i \in 1..7 : OK(<<a, b, c, d, e, f, g>>[i])
  OBVIOUS
<1> QED
  BY <1>1, <1>2, FlatCode, Zenon

-------------------------------------------------------------------------------
(* The instructions.                                                       *)

\* Tokens are consumed in any code.
LEMMA OKConsume == \A t : OK(T(t))
<1> SUFFICES ASSUME NEW t PROVE OK(T(t))
  OBVIOUS
<1>1. Local(T(t), {}) /\ Weight(T(t)) = 0
  BY DEF Local, Leaves, T, Weight
<1> QED
  BY <1>1, ClosedEmpty, LocalSound, Zenon DEF OK

\* Calls of parse functions.
LEMMA OKCall == \A f \in DOMAIN Rules : OK(N(f))
<1> SUFFICES ASSUME NEW f \in DOMAIN Rules PROVE OK(N(f))
  OBVIOUS
<1>1. Local(N(f), {}) /\ Weight(N(f)) = 0
  BY DEF Local, N, Weight
<1> QED
  BY <1>1, ClosedEmpty, LocalSound, Zenon DEF OK

\* Insertions of names.
LEMMA OKInsert == \A k \in Kinds : OK(Ins(k))
<1> SUFFICES ASSUME NEW k \in Kinds PROVE OK(Ins(k))
  OBVIOUS
<1>1. Local(Ins(k), {}) /\ Weight(Ins(k)) = 0
  BY DEF Local, Ins, Weight
<1> QED
  BY <1>1, ClosedEmpty, LocalSound, Zenon DEF OK

\* Instructions without parts.
LEMMA OKSpecial == \A f \in Leaves \ {"scope", "unscope"} : OK(Special(f))
<1> SUFFICES ASSUME NEW f \in Leaves \ {"scope", "unscope"} PROVE OK(Special(f))
  OBVIOUS
<1>1. Local(Special(f), {}) /\ Weight(Special(f)) = 0
  BY DEF Local, Special, Weight
<1> QED
  BY <1>1, ClosedEmpty, LocalSound, Zenon DEF OK

\* Failing and skipping.
LEMMA OKError == OK(Fail) /\ \A ts : OK(SkipTo(ts))
<1>1. Local(Fail, {}) /\ Weight(Fail) = 0
  BY DEF Local, Leaves, Fail, Weight
<1>2. ASSUME NEW ts PROVE Local(SkipTo(ts), {}) /\ Weight(SkipTo(ts)) = 0
  BY DEF Local, Leaves, SkipTo, Weight
<1> QED
  BY <1>1, <1>2, ClosedEmpty, LocalSound, Zenon DEF OK

\* Assignments and the declarations they become.
LEMMA OKAssign ==
  \A ns : OK([op |-> "assign", names |-> ns]) /\ OK([op |-> "declare", names |-> ns])
<1> SUFFICES ASSUME NEW ns
             PROVE  OK([op |-> "assign", names |-> ns]) /\ OK([op |-> "declare", names |-> ns])
  OBVIOUS
<1>1. Local([op |-> "assign", names |-> ns], {}) /\ Weight([op |-> "assign", names |-> ns]) = 0
  BY DEF Local, Leaves, Weight
<1>2. Local([op |-> "declare", names |-> ns], {}) /\ Weight([op |-> "declare", names |-> ns]) = 0
  BY DEF Local, Leaves, Weight
<1> QED
  BY <1>1, <1>2, ClosedEmpty, LocalSound, Zenon DEF OK

\* Branches between good code.
LEMMA OKBranch ==
  \A ts, yes, no : GoodCode(yes) /\ GoodCode(no) => OK(If(ts, yes, no))
<1> SUFFICES ASSUME NEW ts, NEW yes, NEW no, GoodCode(yes), GoodCode(no)
             PROVE  OK(If(ts, yes, no))
  BY Zenon
<1>1. PICK W : Closed(W) /\ GoodSeq(yes, W)
  BY Zenon DEF GoodCode
<1>2. PICK X : Closed(X) /\ GoodSeq(no, X)
  BY Zenon DEF GoodCode
<1>3. Closed(W \union X) /\ GoodSeq(yes, W \union X) /\ GoodSeq(no, W \union X)
  BY <1>1, <1>2, ClosedPair, SeqMonotonic, Zenon DEF GoodSeq
<1>4. If(ts, yes, no).yes = yes /\ If(ts, yes, no).no = no /\ If(ts, yes, no).op = "branch"
  BY DEF If
<1>5. Local(If(ts, yes, no), W \union X)
  BY <1>3, <1>4, Zenon DEF Local
<1>6. Weight(If(ts, yes, no)) = 0
  BY <1>4 DEF Weight
<1> QED
  BY <1>3, <1>5, <1>6, LocalSound, Zenon DEF OK

\* Loops and bindings over good code.
LEMMA OKBody ==
  \A body : GoodCode(body) =>
    /\ \A ts : OK(While(ts, body)) /\ OK(Until(ts, body))
    /\ OK(Bind(body))
    /\ \A c \in Handlers : OK(Try(c, body))
<1> SUFFICES ASSUME NEW body, GoodCode(body)
             PROVE  /\ \A ts : OK(While(ts, body)) /\ OK(Until(ts, body))
                    /\ OK(Bind(body))
                    /\ \A c \in Handlers : OK(Try(c, body))
  BY Zenon
<1>1. PICK W : Closed(W) /\ GoodSeq(body, W)
  BY Zenon DEF GoodCode
<1>2. ASSUME NEW x, x.op \in {"loop", "until", "bind"}, x.body = body PROVE OK(x)
  <2>1. Local(x, W)
    BY <1>1, <1>2, Zenon DEF Local
  <2>2. Weight(x) = 0
    BY <1>2 DEF Weight
  <2> QED
    BY <1>1, <2>1, <2>2, LocalSound, Zenon DEF OK
<1>3. ASSUME NEW ts PROVE OK(While(ts, body)) /\ OK(Until(ts, body))
  <2>1. While(ts, body).op \in {"loop", "until", "bind"} /\ While(ts, body).body = body
    BY DEF While
  <2>2. Until(ts, body).op \in {"loop", "until", "bind"} /\ Until(ts, body).body = body
    BY DEF Until
  <2> QED
    BY <1>2, <2>1, <2>2
<1>4. OK(Bind(body))
  <2>1. Bind(body).op \in {"loop", "until", "bind"} /\ Bind(body).body = body
    BY DEF Bind
  <2> QED
    BY <1>2, <2>1
<1>5. ASSUME NEW c \in Handlers PROVE OK(Try(c, body))
  <2>1. Try(c, body).op = "try" /\ Try(c, body).body = body /\ Try(c, body).handler = c
    BY DEF Try
  <2>2. Local(Try(c, body), W)
    BY <1>1, <2>1, Zenon DEF Local
  <2>3. Weight(Try(c, body)) = 0
    BY <2>1 DEF Weight
  <2> QED
    BY <1>1, <2>2, <2>3, LocalSound, Zenon DEF OK
<1> QED
  BY <1>3, <1>4, <1>5, Zenon

\* Opening and closing a scope.
LEMMA SoundScope == Sound(Scope) /\ Sound(Unscope) /\ Weight(Scope) = -1 /\ Weight(Unscope) = 1
<1>1. Local(Scope, {}) /\ Local(Unscope, {}) /\ Weight(Scope) = -1 /\ Weight(Unscope) = 1
  BY DEF Local, Leaves, Scope, Unscope, Weight
<1> QED
  BY <1>1, ClosedEmpty, LocalSound, Zenon

\* The scopes of parseExternFuncDecl.
LEMMA ScopedExtern ==
  ASSUME NEW a, NEW b, NEW c, NEW d, NEW e, OK(a), OK(b), OK(c), OK(d), OK(e)
  PROVE  GoodCode(<<a, Scope, b, c, d, Unscope, e>>)
<1>1. PICK s : s = <<a, Scope, b, c, d, Unscope, e>>
  OBVIOUS
<1>2. s \in Seq({a, b, c, d, e, Scope, Unscope}) /\ DOMAIN s = 1..7 /\ Len(s) = 7
  BY <1>1
<1>3. \A i \in DOMAIN s : Sound(s[i])
  BY <1>1, <1>2, SoundScope DEF OK
<1>4. PICK h : h = <<0, 0, 1, 1, 1, 1, 0, 0>>
  OBVIOUS
<1>5. IsHeight(h, s) /\ h[1] = 0 /\ \A i \in 1..(7 + 1) : h[i] >= 0
  BY <1>1, <1>2, <1>4, SoundScope DEF OK, IsHeight
<1>6. Balanced(s)
  BY <1>2, <1>5, Zenon DEF Balanced
<1> QED
  BY <1>1, <1>2, <1>3, <1>6, FromHeight, Zenon

\* The scopes of parseFuncDecl.
LEMMA ScopedFunc ==
  ASSUME NEW a, NEW b, NEW c, NEW d, NEW e, NEW f, OK(a), OK(b), OK(c), OK(d), OK(e), OK(f)
  PROVE  GoodCode(<<a, Scope, b, c, d, Scope, e, Unscope, Unscope, f>>)
<1>1. PICK s : s = <<a, Scope, b, c, d, Scope, e, Unscope, Unscope, f>>
  OBVIOUS
<1>2. s \in Seq({a, b, c, d, e, f, Scope, Unscope}) /\ DOMAIN s = 1..10 /\ Len(s) = 10
  BY <1>1
<1>3. \A i \in DOMAIN s : Sound(s[i])
  BY <1>1, <1>2, SoundScope DEF OK
<1>4. PICK h : h = <<0, 0, 1, 1, 1, 1, 2, 2, 1, 0, 0>>
  OBVIOUS
<1>5. IsHeight(h, s) /\ h[1] = 0 /\ \A i \in 1..(10 + 1) : h[i] >= 0
  BY <1>1, <1>2, <1>4, SoundScope DEF OK, IsHeight
<1>6. Balanced(s)
  BY <1>2, <1>5, Zenon DEF Balanced
<1> QED
  BY <1>1, <1>2, <1>3, <1>6, FromHeight, Zenon

\* The scopes of parseWhileStmt.
LEMMA ScopedWhile ==
  ASSUME NEW a, NEW b, NEW c, NEW d, OK(a), OK(b), OK(c), OK(d)
  PROVE  GoodCode(<<a, b, Scope, c, Unscope, d>>)
<1>1. PICK s : s = <<a, b, Scope, c, Unscope, d>>
  OBVIOUS
<1>2. s \in Seq({a, b, c, d, Scope, Unscope}) /\ DOMAIN s = 1..6 /\ Len(s) = 6
  BY <1>1
<1>3. \A i \in DOMAIN s : Sound(s[i])
  BY <1>1, <1>2, SoundScope DEF OK
<1>4. PICK h : h = <<0, 0, 0, 1, 1, 0, 0>>
  OBVIOUS
<1>5. IsHeight(h, s) /\ h[1] = 0 /\ \A i \in 1..(6 + 1) : h[i] >= 0
  BY <1>1, <1>2, <1>4, SoundScope DEF OK, IsHeight
<1>6. Balanced(s)
  BY <1>2, <1>5, Zenon DEF Balanced
<1> QED
  BY <1>1, <1>2, <1>3, <1>6, FromHeight, Zenon

\* The scopes of parseDoWhileStmt.
LEMMA ScopedDo ==
  ASSUME NEW a, NEW b, NEW c, NEW d, NEW e, OK(a), OK(b), OK(c), OK(d), OK(e)
  PROVE  GoodCode(<<a, Scope, b, Unscope, c, d, e>>)
<1>1. PICK s : s = <<a, Scope, b, Unscope, c, d, e>>
  OBVIOUS
<1>2. s \in Seq({a, b, c, d, e, Scope, Unscope}) /\ DOMAIN s = 1..7 /\ Len(s) = 7
  BY <1>1
<1>3. \A i \in DOMAIN s : Sound(s[i])
  BY <1>1, <1>2, SoundScope DEF OK
<1>4. PICK h : h = <<0, 0, 1, 1, 0, 0, 0, 0>>
  OBVIOUS
<1>5. IsHeight(h, s) /\ h[1] = 0 /\ \A i \in 1..(7 + 1) : h[i] >= 0
  BY <1>1, <1>2, <1>4, SoundScope DEF OK, IsHeight
<1>6. Balanced(s)
  BY <1>2, <1>5, Zenon DEF Balanced
<1> QED
  BY <1>1, <1>2, <1>3, <1>6, FromHeight, Zenon

\* The scopes of parseIfStmt.
LEMMA ScopedIf ==
  ASSUME NEW a, NEW b, NEW c, NEW d, NEW e, OK(a), OK(b), OK(c), OK(d), OK(e)
  PROVE  GoodCode(<<a, b, Scope, c, Unscope, Scope, d, Unscope, e>>)
<1>1. PICK s : s = <<a, b, Scope, c, Unscope, Scope, d, Unscope, e>>
  OBVIOUS
<1>2. s \in Seq({a, b, c, d, e, Scope, Unscope}) /\ DOMAIN s = 1..9 /\ Len(s) = 9
  BY <1>1
<1>3. \A i \in DOMAIN s : Sound(s[i])
  BY <1>1, <1>2, SoundScope DEF OK
<1>4. PICK h : h = <<0, 0, 0, 1, 1, 0, 1, 1, 0, 0>>
  OBVIOUS
<1>5. IsHeight(h, s) /\ h[1] = 0 /\ \A i \in 1..(9 + 1) : h[i] >= 0
  BY <1>1, <1>2, <1>4, SoundScope DEF OK, IsHeight
<1>6. Balanced(s)
  BY <1>2, <1>5, Zenon DEF Balanced
<1> QED
  BY <1>1, <1>2, <1>3, <1>6, FromHeight, Zenon

\* The scopes of the elif of parseElseClause.
LEMMA ScopedElif ==
  ASSUME NEW a, NEW b, NEW c, NEW d, OK(a), OK(b), OK(c), OK(d)
  PROVE  GoodCode(<<a, b, Scope, c, Unscope, Scope, d, Unscope>>)
<1>1. PICK s : s = <<a, b, Scope, c, Unscope, Scope, d, Unscope>>
  OBVIOUS
<1>2. s \in Seq({a, b, c, d, Scope, Unscope}) /\ DOMAIN s = 1..8 /\ Len(s) = 8
  BY <1>1
<1>3. \A i \in DOMAIN s : Sound(s[i])
  BY <1>1, <1>2, SoundScope DEF OK
<1>4. PICK h : h = <<0, 0, 0, 1, 1, 0, 1, 1, 0>>
  OBVIOUS
<1>5. IsHeight(h, s) /\ h[1] = 0 /\ \A i \in 1..(8 + 1) : h[i] >= 0
  BY <1>1, <1>2, <1>4, SoundScope DEF OK, IsHeight
<1>6. Balanced(s)
  BY <1>2, <1>5, Zenon DEF Balanced
<1> QED
  BY <1>1, <1>2, <1>3, <1>6, FromHeight, Zenon

\* The scopes of parseForStmt.
LEMMA ScopedFor ==
  ASSUME NEW a, NEW b, NEW c, NEW d, NEW e, OK(a), OK(b), OK(c), OK(d), OK(e)
  PROVE  GoodCode(<<a, b, Scope, c, d, Unscope, e>>)
<1>1. PICK s : s = <<a, b, Scope, c, d, Unscope, e>>
  OBVIOUS
<1>2. s \in Seq({a, b, c, d, e, Scope, Unscope}) /\ DOMAIN s = 1..7 /\ Len(s) = 7
  BY <1>1
<1>3. \A i \in DOMAIN s : Sound(s[i])
  BY <1>1, <1>2, SoundScope DEF OK
<1>4. PICK h : h = <<0, 0, 0, 1, 1, 1, 0, 0>>
  OBVIOUS
<1>5. IsHeight(h, s) /\ h[1] = 0 /\ \A i \in 1..(7 + 1) : h[i] >= 0
  BY <1>1, <1>2, <1>4, SoundScope DEF OK, IsHeight
<1>6. Balanced(s)
  BY <1>2, <1>5, Zenon DEF Balanced
<1> QED
  BY <1>1, <1>2, <1>3, <1>6, FromHeight, Zenon

\* The scopes of the catch clause of an elif.
LEMMA ScopedElse ==
  ASSUME NEW a, NEW b, OK(a), OK(b)
  PROVE  GoodCode(<<a, Scope, b, Unscope>>)
<1>1. PICK s : s = <<a, Scope, b, Unscope>>
  OBVIOUS
<1>2. s \in Seq({a, b, Scope, Unscope}) /\ DOMAIN s = 1..4 /\ Len(s) = 4
  BY <1>1
<1>3. \A i \in DOMAIN s : Sound(s[i])
  BY <1>1, <1>2, SoundScope DEF OK
<1>4. PICK h : h = <<0, 0, 1, 1, 0>>
  OBVIOUS
<1>5. IsHeight(h, s) /\ h[1] = 0 /\ \A i \in 1..(4 + 1) : h[i] >= 0
  BY <1>1, <1>2, <1>4, SoundScope DEF OK, IsHeight
<1>6. Balanced(s)
  BY <1>2, <1>5, Zenon DEF Balanced
<1> QED
  BY <1>1, <1>2, <1>3, <1>6, FromHeight, Zenon

-------------------------------------------------------------------------------
(* The grammar.  A function that calls others is good whatever they are.   *)

\* The calls of parse functions that the grammar has.
LEMMA Calls ==
  /\ OK(N("ProgramElement"))
  /\ OK(N("ElementTypeDecl"))
  /\ OK(N("FieldDeclList"))
  /\ OK(N("FieldDecl"))
  /\ OK(N("ExternDecl"))
  /\ OK(N("ExternFuncDecl"))
  /\ OK(N("FuncDecl"))
  /\ OK(N("GenericParams"))
  /\ OK(N("GenericParam"))
  /\ OK(N("Arguments"))
  /\ OK(N("ArgumentDecl"))
  /\ OK(N("Results"))
  /\ OK(N("Test"))
  /\ OK(N("StmtBlock"))
  /\ OK(N("Stmt"))
  /\ OK(N("VarDecl"))
  /\ OK(N("ConstDecl"))
  /\ OK(N("IVarDecl"))
  /\ OK(N("IdentDecl"))
  /\ OK(N("TensorDecl"))
  /\ OK(N("WhileStmt"))
  /\ OK(N("DoWhileStmt"))
  /\ OK(N("IfStmt"))
  /\ OK(N("ElseClause"))
  /\ OK(N("ForStmt"))
  /\ OK(N("ForDomain"))
  /\ OK(N("PrintStmt"))
  /\ OK(N("ApplyStmt"))
  /\ OK(N("ExprOrAssignStmt"))
  /\ OK(N("Expr"))
  /\ OK(N("MapExpr"))
  /\ OK(N("OrExpr"))
  /\ OK(N("AndExpr"))
  /\ OK(N("XorExpr"))
  /\ OK(N("EqExpr"))
  /\ OK(N("Term"))
  /\ OK(N("AddExpr"))
  /\ OK(N("MulExpr"))
  /\ OK(N("NegExpr"))
  /\ OK(N("ExpExpr"))
  /\ OK(N("TransposeExpr"))
  /\ OK(N("TensorReadExpr"))
  /\ OK(N("FieldReadExpr"))
  /\ OK(N("SetReadExpr"))
  /\ OK(N("Factor"))
  /\ OK(N("VarExpr"))
  /\ OK(N("RangeConst"))
  /\ OK(N("CallExpr"))
  /\ OK(N("UnnamedTupleReadExpr"))
  /\ OK(N("NamedTupleReadExpr"))
  /\ OK(N("ReadParam"))
  /\ OK(N("ExprParams"))
  /\ OK(N("Type"))
  /\ OK(N("UnstructuredSetType"))
  /\ OK(N("GridSetType"))
  /\ OK(N("TupleElement"))
  /\ OK(N("NamedTupleType"))
  /\ OK(N("UnnamedTupleType"))
  /\ OK(N("TensorType"))
  /\ OK(N("VectorBlockType"))
  /\ OK(N("MatrixBlockType"))
  /\ OK(N("TensorBlockType"))
  /\ OK(N("TensorComponentType"))
  /\ OK(N("ScalarType"))
  /\ OK(N("IndexSets"))
  /\ OK(N("IndexSet"))
  /\ OK(N("TensorLiteral"))
  /\ OK(N("DenseTensorLiteral"))
  /\ OK(N("DenseTensorLiteralInner"))
  /\ OK(N("DenseMatrixLiteral"))
  /\ OK(N("DenseVectorLiteral"))
  /\ OK(N("DenseIntVectorLiteral"))
  /\ OK(N("DenseFloatVectorLiteral"))
  /\ OK(N("DenseComplexVectorLiteral"))
  /\ OK(N("SignedIntLiteral"))
  /\ OK(N("SignedFloatLiteral"))
  /\ OK(N("ComplexLiteral"))
BY OKCall DEF Rules

\* The instructions that look further ahead.
LEMMA Specials ==
  /\ OK(Special("extern"))
  /\ OK(Special("zero"))
  /\ OK(Special("lhs"))
  /\ OK(Special("domain"))
  /\ OK(Special("ident"))
  /\ OK(Special("var"))
  /\ OK(Special("tuple"))
  /\ OK(Special("edges"))
  /\ OK(Special("signed"))
BY OKSpecial DEF Leaves

\* The catch clauses of the grammar.
LEMMA Clauses ==
  /\ "semicol" \in Handlers
  /\ "blockend" \in Handlers
  /\ "if" \in Handlers
  /\ "elif" \in Handlers
  /\ "dowhile" \in Handlers
  /\ "element" \in Handlers
  /\ "func" \in Handlers
BY DEF Handlers

\* The kinds of names that the grammar inserts.
LEMMA KindsOK ==
  /\ OK(Ins("FUNCTION"))
  /\ OK(Ins("TUPLE"))
  /\ OK(Ins("OTHER"))
  /\ OK(Ins("GENERIC_PARAM"))
  /\ OK(Ins("RANGE_GENERIC_PARAM"))
BY OKInsert DEF Kinds

\* The parse functions of program elements close the scopes they open.
LEMMA ElementRules ==
  /\ GoodCode(parseProgramElement)
  /\ GoodCode(parseElementTypeDecl)
  /\ GoodCode(parseFieldDeclList)
  /\ GoodCode(parseFieldDecl)
  /\ GoodCode(parseExternDecl)
  /\ GoodCode(parseExternFuncDecl)
  /\ GoodCode(parseFuncDecl)
  /\ GoodCode(parseGenericParams)
  /\ GoodCode(parseGenericParam)
  /\ GoodCode(parseArguments)
  /\ GoodCode(parseArgumentDecl)
  /\ GoodCode(parseResults)
  /\ GoodCode(parseTest)
<1>1. GoodCode(parseProgramElement)
  BY Calls, Specials, OKConsume, OKBranch, OKBody, Clauses, OKError, Code1, Zenon
  DEF parseProgramElement
<1>2. GoodCode(parseElementTypeDecl)
  BY Calls, OKConsume, Code4, Zenon
  DEF parseElementTypeDecl, Ident
<1>3. GoodCode(parseFieldDeclList)
  BY Calls, OKConsume, OKBody, Code1, Zenon
  DEF parseFieldDeclList
<1>4. GoodCode(parseFieldDecl)
  BY Calls, OKConsume, Code2, Zenon
  DEF parseFieldDecl
<1>5. GoodCode(parseExternDecl)
  BY Calls, OKConsume, Code3, Zenon
  DEF parseExternDecl
<1>6. GoodCode(parseExternFuncDecl)
  BY Calls, OKConsume, OKBody, Clauses, KindsOK, ScopedExtern, Code1, Code3, Zenon
  DEF parseExternFuncDecl
<1>7. GoodCode(parseFuncDecl)
  BY Calls, OKConsume, OKBranch, OKBody, Clauses, KindsOK, ScopedFunc, ConcatCode, Code0, Code1, Code3, Zenon
  DEF parseFuncDecl, Opt
<1>8. GoodCode(parseGenericParams)
  BY Calls, OKConsume, OKBranch, OKBody, ConcatCode, Code0, Code1, Code2, Zenon
  DEF parseGenericParams, Opt, List
<1>9. GoodCode(parseGenericParam)
  BY Specials, OKConsume, Code1, Zenon
  DEF parseGenericParam
<1>10. GoodCode(parseArguments)
  BY Calls, OKConsume, OKBranch, OKBody, Code0, Code2, Code3, Zenon
  DEF parseArguments, List
<1>11. GoodCode(parseArgumentDecl)
  BY Calls, OKConsume, OKBranch, ConcatCode, Code0, Code1, Code2, Zenon
  DEF parseArgumentDecl, Opt
<1>12. GoodCode(parseResults)
  BY Calls, OKConsume, OKBranch, OKBody, ConcatCode, Code0, Code1, Code2, Zenon
  DEF parseResults, Opt, List
<1>13. GoodCode(parseTest)
  BY Calls, OKConsume, OKBranch, OKError, Code1, Code2, Code3, Code5, Zenon
  DEF parseTest, Ident
<1> QED
  BY <1>1, <1>2, <1>3, <1>4, <1>5, <1>6, <1>7, <1>8, <1>9, <1>10, <1>11, <1>12, <1>13

\* The parse functions of statements close the scopes they open.
LEMMA StatementRules ==
  /\ GoodCode(parseStmtBlock)
  /\ GoodCode(parseStmt)
  /\ GoodCode(parseVarDecl)
  /\ GoodCode(parseConstDecl)
  /\ GoodCode(parseIVarDecl)
  /\ GoodCode(parseIdentDecl)
  /\ GoodCode(parseTensorDecl)
  /\ GoodCode(parseWhileStmt)
  /\ GoodCode(parseDoWhileStmt)
  /\ GoodCode(parseIfStmt)
  /\ GoodCode(parseElseClause)
  /\ GoodCode(parseForStmt)
  /\ GoodCode(parseForDomain)
  /\ GoodCode(parsePrintStmt)
  /\ GoodCode(parseApplyStmt)
  /\ GoodCode(parseExprOrAssignStmt)
<1>1. GoodCode(parseStmtBlock)
  BY Calls, OKConsume, OKBody, Code1, Zenon
  DEF parseStmtBlock
<1>2. GoodCode(parseStmt)
  BY Calls, OKConsume, OKBranch, OKBody, Code1, ZenonT(60)
  DEF parseStmt
<1>3. GoodCode(parseVarDecl)
  BY Calls, OKConsume, OKBranch, OKBody, Clauses, KindsOK, ConcatCode, Code0, Code1, Code2, Code3, Zenon
  DEF parseVarDecl, Opt
<1>4. GoodCode(parseConstDecl)
  BY Calls, OKConsume, OKBranch, OKBody, Clauses, KindsOK, ConcatCode, Code0, Code1, Code2, Code5, Zenon
  DEF parseConstDecl, Opt
<1>5. GoodCode(parseIVarDecl)
  BY OKConsume, OKBody, Clauses, KindsOK, Code1, Code2, Zenon
  DEF parseIVarDecl
<1>6. GoodCode(parseIdentDecl)
  BY Calls, OKConsume, OKBranch, OKBody, KindsOK, Code1, Code2, Zenon
  DEF parseIdentDecl
<1>7. GoodCode(parseTensorDecl)
  BY Calls, OKConsume, OKBody, KindsOK, Code1, Code3, Zenon
  DEF parseTensorDecl
<1>8. GoodCode(parseWhileStmt)
  BY Calls, OKConsume, OKBody, Clauses, ScopedWhile, Code1, Zenon
  DEF parseWhileStmt
<1>9. GoodCode(parseDoWhileStmt)
  BY Calls, OKConsume, OKBody, Clauses, ScopedDo, Code1, Zenon
  DEF parseDoWhileStmt
<1>10. GoodCode(parseIfStmt)
  BY Calls, OKConsume, OKBody, Clauses, ScopedIf, Code1, Zenon
  DEF parseIfStmt
<1>11. GoodCode(parseElseClause)
  BY Calls, OKConsume, OKBranch, OKBody, Clauses, ScopedElif, Code0, Code1, Code2, Zenon
  DEF parseElseClause
<1>12. GoodCode(parseForStmt)
  BY Calls, OKConsume, OKBody, Clauses, KindsOK, ScopedFor, Code1, Code2, Zenon
  DEF parseForStmt
<1>13. GoodCode(parseForDomain)
  BY Specials, OKConsume, Code1, Zenon
  DEF parseForDomain
<1>14. GoodCode(parsePrintStmt)
  BY Calls, OKConsume, OKBranch, OKBody, Clauses, ConcatCode, Code1, Code2, Zenon
  DEF parsePrintStmt, List
<1>15. GoodCode(parseApplyStmt)
  BY Calls, OKConsume, OKBranch, OKBody, Clauses, ConcatCode, Code0, Code1, Code2, Code5, Zenon
  DEF parseApplyStmt, MapTail, Ident, Opt
<1>16. GoodCode(parseExprOrAssignStmt)
  BY Calls, Specials, OKConsume, OKBranch, OKBody, Clauses, OKAssign, Code0, Code1, Code2, Code3, Zenon
  DEF parseExprOrAssignStmt
<1> QED
  BY <1>1, <1>2, <1>3, <1>4, <1>5, <1>6, <1>7, <1>8, <1>9, <1>10, <1>11, <1>12, <1>13, <1>14, <1>15, <1>16

\* The parse functions of expressions close the scopes they open.
LEMMA ExpressionRules ==
  /\ GoodCode(parseExpr)
  /\ GoodCode(parseMapExpr)
  /\ GoodCode(parseOrExpr)
  /\ GoodCode(parseAndExpr)
  /\ GoodCode(parseXorExpr)
  /\ GoodCode(parseEqExpr)
  /\ GoodCode(parseTerm)
  /\ GoodCode(parseAddExpr)
  /\ GoodCode(parseMulExpr)
  /\ GoodCode(parseNegExpr)
  /\ GoodCode(parseExpExpr)
  /\ GoodCode(parseTransposeExpr)
  /\ GoodCode(parseTensorReadExpr)
  /\ GoodCode(parseFieldReadExpr)
  /\ GoodCode(parseSetReadExpr)
  /\ GoodCode(parseFactor)
  /\ GoodCode(parseVarExpr)
  /\ GoodCode(parseRangeConst)
  /\ GoodCode(parseCallExpr)
  /\ GoodCode(parseUnnamedTupleReadExpr)
  /\ GoodCode(parseNamedTupleReadExpr)
  /\ GoodCode(parseReadParam)
  /\ GoodCode(parseExprParams)
<1>1. GoodCode(parseExpr)
  BY Calls, OKConsume, OKBranch, Code1, Zenon
  DEF parseExpr
<1>2. GoodCode(parseMapExpr)
  BY Calls, OKConsume, OKBranch, ConcatCode, Code0, Code1, Code2, Code5, Zenon
  DEF parseMapExpr, MapTail, Ident, Opt
<1>3. GoodCode(parseOrExpr)
  BY Calls, OKConsume, OKBody, Code2, Zenon
  DEF parseOrExpr, Binary
<1>4. GoodCode(parseAndExpr)
  BY Calls, OKConsume, OKBody, Code2, Zenon
  DEF parseAndExpr, Binary
<1>5. GoodCode(parseXorExpr)
  BY Calls, OKConsume, OKBody, Code2, Zenon
  DEF parseXorExpr, Binary
<1>6. GoodCode(parseEqExpr)
  BY Calls, OKConsume, OKBody, Code2, Zenon
  DEF parseEqExpr, Binary
<1>7. GoodCode(parseTerm)
  BY Calls, OKConsume, OKBranch, Code1, Code2, Zenon
  DEF parseTerm
<1>8. GoodCode(parseAddExpr)
  BY Calls, OKConsume, OKBody, Code2, Zenon
  DEF parseAddExpr, Binary
<1>9. GoodCode(parseMulExpr)
  BY Calls, OKConsume, OKBody, Code2, Zenon
  DEF parseMulExpr, Binary
<1>10. GoodCode(parseNegExpr)
  BY Calls, OKConsume, OKBranch, Code1, Code2, Zenon
  DEF parseNegExpr
<1>11. GoodCode(parseExpExpr)
  BY Calls, OKConsume, OKBranch, ConcatCode, Code0, Code1, Code2, Zenon
  DEF parseExpExpr, Opt
<1>12. GoodCode(parseTransposeExpr)
  BY Calls, OKConsume, OKBody, Code1, Code2, Zenon
  DEF parseTransposeExpr
<1>13. GoodCode(parseTensorReadExpr)
  BY Calls, OKConsume, OKBranch, OKBody, Code0, Code2, Code3, Zenon
  DEF parseTensorReadExpr, List
<1>14. GoodCode(parseFieldReadExpr)
  BY Calls, OKConsume, OKBranch, ConcatCode, Code0, Code1, Code2, Zenon
  DEF parseFieldReadExpr, Opt, Ident
<1>15. GoodCode(parseSetReadExpr)
  BY Calls, OKConsume, OKBranch, ConcatCode, Code0, Code1, Code2, Zenon
  DEF parseSetReadExpr, Opt
<1>16. GoodCode(parseFactor)
  BY Calls, Specials, OKConsume, OKBranch, OKError, Code1, Code3, Zenon
  DEF parseFactor
<1>17. GoodCode(parseVarExpr)
  BY Specials, OKConsume, Code1, Zenon
  DEF parseVarExpr
<1>18. GoodCode(parseRangeConst)
  BY OKConsume, Code1, Zenon
  DEF parseRangeConst, Ident
<1>19. GoodCode(parseCallExpr)
  BY Calls, OKConsume, OKBranch, ConcatCode, Code0, Code1, Code2, Code5, Zenon
  DEF parseCallExpr, Ident, Opt
<1>20. GoodCode(parseUnnamedTupleReadExpr)
  BY Calls, OKConsume, Code4, Zenon
  DEF parseUnnamedTupleReadExpr
<1>21. GoodCode(parseNamedTupleReadExpr)
  BY Calls, OKConsume, Code3, Zenon
  DEF parseNamedTupleReadExpr, Ident
<1>22. GoodCode(parseReadParam)
  BY Calls, OKConsume, OKBranch, Code1, Zenon
  DEF parseReadParam
<1>23. GoodCode(parseExprParams)
  BY Calls, OKConsume, OKBody, Code2, Zenon
  DEF parseExprParams, List
<1> QED
  BY <1>1, <1>2, <1>3, <1>4, <1>5, <1>6, <1>7, <1>8, <1>9, <1>10, <1>11, <1>12, <1>13, <1>14, <1>15, <1>16, <1>17, <1>18, <1>19, <1>20, <1>21, <1>22, <1>23

\* The parse functions of types close the scopes they open.
LEMMA TypeRulesGood ==
  /\ GoodCode(parseType)
  /\ GoodCode(parseUnstructuredSetType)
  /\ GoodCode(parseGridSetType)
  /\ GoodCode(parseTupleElement)
  /\ GoodCode(parseNamedTupleType)
  /\ GoodCode(parseUnnamedTupleType)
  /\ GoodCode(parseTensorType)
  /\ GoodCode(parseVectorBlockType)
  /\ GoodCode(parseMatrixBlockType)
  /\ GoodCode(parseTensorBlockType)
  /\ GoodCode(parseTensorComponentType)
  /\ GoodCode(parseScalarType)
  /\ GoodCode(parseIndexSets)
  /\ GoodCode(parseIndexSet)
<1>1. GoodCode(parseType)
  BY Calls, Specials, OKConsume, OKBranch, OKError, Code1, Zenon
  DEF parseType, parseElementType, Ident, OneOf
<1>2. GoodCode(parseUnstructuredSetType)
  BY Specials, OKConsume, ConcatCode, Code1, Code2, Zenon
  DEF parseUnstructuredSetType, parseElementType, Ident
<1>3. GoodCode(parseGridSetType)
  BY OKConsume, ConcatCode, Code1, Code2, Code5, Zenon
  DEF parseGridSetType, parseElementType, Ident, parseSetIndexSet
<1>4. GoodCode(parseTupleElement)
  BY OKConsume, ConcatCode, Code1, Code2, Zenon
  DEF parseTupleElement, Ident, parseElementType
<1>5. GoodCode(parseNamedTupleType)
  BY Calls, OKConsume, OKBody, ConcatCode, Code1, Code2, Zenon
  DEF parseNamedTupleType, List
<1>6. GoodCode(parseUnnamedTupleType)
  BY OKConsume, ConcatCode, Code1, Zenon
  DEF parseUnnamedTupleType, parseElementType, Ident, parseTupleLength
<1>7. GoodCode(parseTensorType)
  BY Calls, OKConsume, OKBranch, ConcatCode, Code0, Code1, Code2, Zenon
  DEF parseTensorType, Opt
<1>8. GoodCode(parseVectorBlockType)
  BY Calls, OKConsume, OKBranch, ConcatCode, Code0, Code1, Code5, Zenon
  DEF parseVectorBlockType, Block, Opt
<1>9. GoodCode(parseMatrixBlockType)
  BY Calls, OKConsume, OKBranch, ConcatCode, Code0, Code1, Code3, Code5, Zenon
  DEF parseMatrixBlockType, Block, Opt
<1>10. GoodCode(parseTensorBlockType)
  BY Calls, OKConsume, OKBranch, ConcatCode, Code0, Code1, Code5, Zenon
  DEF parseTensorBlockType, Block, Opt
<1>11. GoodCode(parseTensorComponentType)
  BY OKConsume, OKBranch, OKError, Code1, Zenon
  DEF parseTensorComponentType, OneOf
<1>12. GoodCode(parseScalarType)
  BY Calls, OKConsume, OKBranch, Code1, Zenon
  DEF parseScalarType, OneOf
<1>13. GoodCode(parseIndexSets)
  BY Calls, OKConsume, OKBody, Code2, Zenon
  DEF parseIndexSets, List
<1>14. GoodCode(parseIndexSet)
  BY OKConsume, OKBranch, OKError, Code1, Zenon
  DEF parseIndexSet, OneOf, parseSetIndexSet, Ident
<1> QED
  BY <1>1, <1>2, <1>3, <1>4, <1>5, <1>6, <1>7, <1>8, <1>9, <1>10, <1>11, <1>12, <1>13, <1>14

\* The parse functions of literals close the scopes they open.
LEMMA LiteralRules ==
  /\ GoodCode(parseTensorLiteral)
  /\ GoodCode(parseDenseTensorLiteral)
  /\ GoodCode(parseDenseTensorLiteralInner)
  /\ GoodCode(parseDenseMatrixLiteral)
  /\ GoodCode(parseDenseVectorLiteral)
  /\ GoodCode(parseDenseIntVectorLiteral)
  /\ GoodCode(parseDenseFloatVectorLiteral)
  /\ GoodCode(parseDenseComplexVectorLiteral)
  /\ GoodCode(parseSignedIntLiteral)
  /\ GoodCode(parseSignedFloatLiteral)
  /\ GoodCode(parseComplexLiteral)
<1>1. GoodCode(parseTensorLiteral)
  BY Calls, OKConsume, OKBranch, OKError, Code1, Zenon
  DEF parseTensorLiteral, OneOf
<1>2. GoodCode(parseDenseTensorLiteral)
  BY Calls, OKConsume, Code3, Zenon
  DEF parseDenseTensorLiteral
<1>3. GoodCode(parseDenseTensorLiteralInner)
  BY Calls, OKConsume, OKBranch, OKBody, ConcatCode, Code0, Code1, Code2, Zenon
  DEF parseDenseTensorLiteralInner, Elements, Opt
<1>4. GoodCode(parseDenseMatrixLiteral)
  BY Calls, OKConsume, OKBody, Code2, Zenon
  DEF parseDenseMatrixLiteral
<1>5. GoodCode(parseDenseVectorLiteral)
  BY Calls, Specials, OKConsume, OKBranch, OKError, Code1, Zenon
  DEF parseDenseVectorLiteral
<1>6. GoodCode(parseDenseIntVectorLiteral)
  BY Calls, OKConsume, OKBranch, OKBody, ConcatCode, Code0, Code1, Code2, Zenon
  DEF parseDenseIntVectorLiteral, Elements, Opt
<1>7. GoodCode(parseDenseFloatVectorLiteral)
  BY Calls, OKConsume, OKBranch, OKBody, ConcatCode, Code0, Code1, Code2, Zenon
  DEF parseDenseFloatVectorLiteral, Elements, Opt
<1>8. GoodCode(parseDenseComplexVectorLiteral)
  BY Calls, OKConsume, OKBranch, OKBody, ConcatCode, Code0, Code1, Code2, Zenon
  DEF parseDenseComplexVectorLiteral, Elements, Opt
<1>9. GoodCode(parseSignedIntLiteral)
  BY OKConsume, OKBranch, Code0, Code1, Code2, Zenon
  DEF parseSignedIntLiteral, OneOf
<1>10. GoodCode(parseSignedFloatLiteral)
  BY OKConsume, OKBranch, Code0, Code1, Code2, Zenon
  DEF parseSignedFloatLiteral, OneOf
<1>11. GoodCode(parseComplexLiteral)
  BY Calls, OKConsume, Code5, ZenonT(60)
  DEF parseComplexLiteral
<1> QED
  BY <1>1, <1>2, <1>3, <1>4, <1>5, <1>6, <1>7, <1>8, <1>9, <1>10, <1>11


\* Every parse function closes the scopes it opens.
LEMMA RulesGood == \A f \in DOMAIN Rules : GoodCode(Rules[f])
BY ElementRules, StatementRules, ExpressionRules, TypeRulesGood, LiteralRules DEF Rules

-------------------------------------------------------------------------------
(* Code that the machine makes while it runs.                              *)

\* The catch clauses other than parseFuncDecl's are good code.
LEMMA HandlerGood ==
  ASSUME NEW c, c.handler \in Handlers \ {"func"}
  PROVE  GoodCode(Handler(c))
<1>1. GoodCode(CatchSemicol) /\ GoodCode(CatchBlockEnd) /\ GoodCode(CatchDoWhile) /\ GoodCode(CatchElement)
  BY OKConsume, OKError, Code1, Code2, Zenon DEF CatchSemicol, CatchBlockEnd, CatchDoWhile, CatchElement
<1>2. GoodCode(CatchIf)
  BY Calls, OKConsume, OKError, Code3, Zenon DEF CatchIf
<1>3. GoodCode(CatchElif)
  BY Calls, OKError, ScopedElse, Zenon DEF CatchElif
<1> QED
  BY <1>1, <1>2, <1>3 DEF Handler, Handlers

\* Instructions of the same weights, one by one, are good code again.
LEMMA SameShape ==
  ASSUME NEW c, GoodCode(c), NEW V, NEW d \in Seq(V), Len(d) = Len(c),
         \A i \in DOMAIN c : Sound(d[i]) /\ Weight(d[i]) = Weight(c[i])
  PROVE  GoodCode(d)
<1>1. PICK W : c \in Seq(W)
  BY GoodElements, Zenon
<1>2. PICK h : IsHeight(h, c) /\ h[1] = 0 /\ \A i \in 1..(Len(c) + 1) : h[i] >= 0
  BY GoodElements, Zenon DEF Balanced
<1>3. DOMAIN c = 1..Len(c) /\ DOMAIN d = 1..Len(c)
  BY <1>1, SeqParts, Zenon
<1>4. IsHeight(h, d)
  BY <1>2, <1>3, Zenon DEF IsHeight
<1>5. Balanced(d)
  BY <1>2, <1>4, Zenon DEF Balanced
<1> QED
  BY <1>3, <1>5, FromHeight, Zenon

\* Giving an insertion its name leaves it sound.
LEMMA FilledInsert ==
  ASSUME NEW x, Sound(x), x.op = "insert", NEW n
  PROVE  Sound([x EXCEPT !.name = n]) /\ Weight([x EXCEPT !.name = n]) = Weight(x)
<1>1. PICK W : Closed(W) /\ x \in W
  BY Zenon DEF Sound
<1>2. Local(x, W)
  BY <1>1, Zenon DEF Closed
<1>3. x = [op |-> "insert", kind |-> x.kind, name |-> x.name] /\ x.kind \in Kinds
  BY <1>2 DEF Local, Leaves
<1>4. PICK k \in Kinds : [x EXCEPT !.name = n] = [op |-> "insert", kind |-> k, name |-> n]
  BY <1>3
<1>5. Local([op |-> "insert", kind |-> k, name |-> n], {})
  BY DEF Local
<1>6. Weight([op |-> "insert", kind |-> k, name |-> n]) = 0 /\ Weight(x) = 0
  BY DEF Weight
<1> QED
  BY <1>4, <1>5, <1>6, ClosedEmpty, LocalSound, Zenon

\* Filling a name into code leaves good code.
LEMMA FillGood ==
  ASSUME NEW c, GoodCode(c), NEW n
  PROVE  GoodCode(Fill(c, n))
<1>1. PICK W : c \in Seq(W)
  BY GoodElements, Zenon
<1>2. Len(c) \in Nat /\ DOMAIN c = 1..Len(c) /\ \A i \in DOMAIN c : Sound(c[i])
  BY <1>1, GoodElements, SeqParts, Zenon
<1> DEFINE V == {Fill(c, n)[i] : i \in DOMAIN c}
<1>3. Fill(c, n) \in [1..Len(c) -> V]
  BY <1>2 DEF Fill
<1>4. Fill(c, n) \in Seq(V) /\ Len(Fill(c, n)) = Len(c)
  BY <1>2, <1>3, FunctionIsSeq, Zenon
<1>5. ASSUME NEW i \in DOMAIN c
      PROVE  Sound(Fill(c, n)[i]) /\ Weight(Fill(c, n)[i]) = Weight(c[i])
  <2>1. Fill(c, n)[i] = IF c[i].op = "insert" THEN [c[i] EXCEPT !.name = n] ELSE c[i]
    BY DEF Fill
  <2>2. CASE c[i].op = "insert"
    <3>1. PICK x : x = c[i] /\ Sound(x) /\ x.op = "insert"
      BY <1>2, <2>2, Zenon
    <3>2. Fill(c, n)[i] = [x EXCEPT !.name = n]
      BY <2>1, <2>2, <3>1, Zenon
    <3>3. Sound([x EXCEPT !.name = n]) /\ Weight([x EXCEPT !.name = n]) = Weight(x)
      BY <3>1, FilledInsert
    <3> QED
      BY <3>1, <3>2, <3>3, Zenon
  <2>3. CASE c[i].op # "insert"
    BY <1>2, <2>1, <2>3, Zenon
  <2> QED
    BY <2>2, <2>3
<1> QED
  BY <1>4, <1>5, SameShape, Zenon

\* So does the naming of the insertions in its branches.
LEMMA NamedGood ==
  ASSUME NEW c, GoodCode(c), NEW n
  PROVE  GoodCode(Named(c, n))
<1>1. PICK W : c \in Seq(W)
  BY GoodElements, Zenon
<1>2. Len(c) \in Nat /\ DOMAIN c = 1..Len(c) /\ \A i \in DOMAIN c : Sound(c[i])
  BY <1>1, GoodElements, SeqParts, Zenon
<1> DEFINE V == {Named(c, n)[i] : i \in DOMAIN c}
<1>3. Named(c, n) \in [1..Len(c) -> V]
  BY <1>2 DEF Named
<1>4. Named(c, n) \in Seq(V) /\ Len(Named(c, n)) = Len(c)
  BY <1>2, <1>3, FunctionIsSeq, Zenon
<1>5. ASSUME NEW i \in DOMAIN c
      PROVE  Sound(Named(c, n)[i]) /\ Weight(Named(c, n)[i]) = Weight(c[i])
  <2>1. Named(c, n)[i] = IF c[i].op = "branch"
                         THEN If(c[i].on, Fill(c[i].yes, n), Fill(c[i].no, n))
                         ELSE Fill(c, n)[i]
    BY Zenon DEF Named
  <2>2. CASE c[i].op = "branch"
    <3>1. PICK X : Closed(X) /\ c[i] \in X
      BY <1>2, Zenon DEF Sound
    <3>2. Local(c[i], X)
      BY <3>1, Zenon DEF Closed
    <3>3. GoodSeq(c[i].yes, X) /\ GoodSeq(c[i].no, X)
      BY <2>2, <3>2 DEF Local, Leaves
    <3>4. GoodCode(Fill(c[i].yes, n)) /\ GoodCode(Fill(c[i].no, n))
      BY <3>1, <3>3, FillGood, Zenon DEF GoodCode
    <3>5. Weight(c[i]) = 0
      BY <2>2 DEF Weight
    <3>6. OK(Named(c, n)[i])
      BY <2>1, <2>2, <3>4, OKBranch, Zenon
    <3> QED
      BY <3>5, <3>6 DEF OK
  <2>3. CASE c[i].op # "branch"
    <3>1. Fill(c, n)[i] = IF c[i].op = "insert" THEN [c[i] EXCEPT !.name = n] ELSE c[i]
      BY DEF Fill
    <3>2. CASE c[i].op = "insert"
      <4>1. PICK x : x = c[i] /\ Sound(x) /\ x.op = "insert"
        BY <1>2, <3>2, Zenon
      <4>2. Named(c, n)[i] = [x EXCEPT !.name = n]
        BY <2>1, <2>3, <3>1, <3>2, <4>1, Zenon
      <4>3. Sound([x EXCEPT !.name = n]) /\ Weight([x EXCEPT !.name = n]) = Weight(x)
        BY <4>1, FilledInsert
      <4> QED
        BY <4>1, <4>2, <4>3, Zenon
    <3>3. CASE c[i].op # "insert"
      BY <1>2, <2>1, <2>3, <3>1, <3>3, Zenon
    <3> QED
      BY <3>2, <3>3
  <2> QED
    BY <2>2, <2>3
<1> QED
  BY <1>4, <1>5, SameShape, Zenon

-------------------------------------------------------------------------------
(* The invariant of the machine.                                           *)

\* What is on the stack: sound instructions, catch clauses, and what
\* parseFuncDecl's clause does.
Clause(x) == x.op = "catch" /\ x.handler \in Handlers /\ x.level \in Nat

Known(x) ==
  \/ Sound(x)
  \/ Clause(x)
  \/ x.op = "restore" /\ x.level \in Nat
  \/ x.op = "rethrow"

\* The instructions that remember how many scopes there were.
Marked(x) == x.op \in {"catch", "restore"}

\* The stack closes no scope twice, and a symbol table of len scopes has the
\* scopes that the stack closes.  The slack, the scopes beyond those, is
\* never less than it was at a catch clause further down.
Fit(h, s, len) ==
  /\ IsHeight(h, s)
  /\ \A i \in 1..(Len(s) + 1) : h[i] >= 0
  /\ \A k \in 1..Len(s) : s[k].op = "catch" => \A i \in 1..k : h[i] >= h[k]
  /\ len >= 1 + h[1]
  /\ \A i \in 1..Len(s) : Marked(s[i]) =>
       /\ s[i].level \in Int
       /\ s[i].level >= 1 + h[i]
       /\ len - h[1] >= s[i].level - h[i]
       /\ \A k \in i..Len(s) : Marked(s[k]) => s[i].level - h[i] >= s[k].level - h[k]

\* What may be on the stack with no catch clause below it: nothing of it throws.
Outer(x) ==
  \/ x \in {Until({"END"}, <<N("ProgramElement")>>), N("ProgramElement"), SkipTo(ElementStart)}
  \/ x = parseProgramElement[1]
  \/ x.op = "catch" /\ x.handler = "element"

Caught(s) ==
  \A i \in 1..Len(s) : Outer(s[i]) \/ \E k \in (i + 1)..Len(s) : s[k].op = "catch"

\* Recovery is under way only after an error.
Recovering(s) == \E i \in 1..Len(s) : s[i].op \in {"restore", "rethrow"}

Tables == Seq([Names -> Kinds])

Arranged(s) ==
  /\ \E V : s \in Seq(V)
  /\ \A i \in 1..Len(s) : Known(s[i])
  /\ Caught(s)

\* The stack s is in order when the symbol table has len scopes; fl says
\* whether an error was reported.  Until then the table has no slack.
InOrder(s, len, fl) ==
  /\ Arranged(s)
  /\ \E h : Fit(h, s, len) /\ (~fl => len = 1 + h[1])
  /\ Recovering(s) => fl

Inv == decls \in Tables /\ failed \in BOOLEAN /\ InOrder(stack, Len(decls), failed)

-------------------------------------------------------------------------------
(* Replacing the top of a stack.                                           *)

\* new is code and what is left of s below its first k instructions.
Splice(new, code, s, k) ==
  /\ \E V : new \in Seq(V) /\ code \in Seq(V) /\ s \in Seq(V)
  /\ Len(new) = Len(code) + (Len(s) - k)
  /\ \A i \in 1..Len(code) : new[i] = code[i]
  /\ \A i \in (Len(code) + 1)..Len(new) : new[i] = s[i - Len(code) + k]

\* Code in place of everything up to the k-th instruction.
LEMMA SpliceAt ==
  ASSUME NEW V, NEW s \in Seq(V), NEW k \in 1..Len(s), NEW X, NEW code \in Seq(X)
  PROVE  Splice(code \o SubSeq(s, k + 1, Len(s)), code, s, k)
<1>1. PICK Y : s \in Seq(Y) /\ code \in Seq(Y)
  <2>1. s \in Seq(V \union X) /\ code \in Seq(V \union X)
    BY SeqMonotonic, Zenon
  <2> QED
    BY <2>1, Zenon
<1>3. PICK m \in Nat, n \in Nat : m = Len(code) /\ n = Len(s)
  BY <1>1, SeqParts, Zenon
<1>4. PICK t : t = SubSeq(s, k + 1, Len(s)) /\ t \in Seq(Y) /\ Len(t) = n - k
               /\ \A i \in 1..(n - k) : t[i] = s[i + k]
  <2>1. SubSeq(s, k + 1, n) \in Seq(Y) /\ Len(SubSeq(s, k + 1, n)) = n - k
        /\ \A i \in 1..(n - k) : SubSeq(s, k + 1, n)[i] = s[i + k]
    BY <1>1, <1>3
  <2> QED
    BY <1>3, <2>1, Zenon
<1>5. PICK new : new = code \o t /\ new \in Seq(Y) /\ Len(new) = m + (n - k)
                 /\ \A i \in 1..(m + (n - k)) : new[i] = IF i <= m THEN code[i] ELSE t[i - m]
  <2>1. code \o t \in Seq(Y) /\ Len(code \o t) = Len(code) + Len(t)
        /\ \A i \in 1..(Len(code) + Len(t)) : (code \o t)[i] = IF i <= Len(code) THEN code[i] ELSE t[i - Len(code)]
    BY <1>1, <1>4, ConcatProperties, Zenon
  <2>2. Len(code) = m /\ Len(t) = n - k
    BY <1>3, <1>4, Zenon
  <2> QED
    BY <2>1, <2>2, Zenon
<1>6. \A i \in 1..m : new[i] = code[i]
  BY <1>3, <1>5
<1>7. ASSUME NEW i \in (m + 1)..(m + (n - k)) PROVE new[i] = s[i - m + k]
  <2>1. i - m \in 1..(n - k)
    BY <1>3
  <2>2. new[i] = t[i - m]
    BY <1>3, <1>5
  <2> QED
    BY <1>4, <2>1, <2>2
<1> QED
  BY <1>1, <1>3, <1>4, <1>5, <1>6, <1>7, Zenon DEF Splice

\* Code in place of the first instruction.
LEMMA SpliceTop ==
  ASSUME NEW V, NEW s \in Seq(V), s # <<>>, NEW X, NEW code \in Seq(X)
  PROVE  Splice(code \o Tail(s), code, s, 1)
<1>1. Tail(s) = SubSeq(s, 2, Len(s))
  BY TailIsSubSeq, Zenon
<1>2. Len(s) \in Nat \ {0}
  BY EmptySeq, Zenon
<1>3. 1 \in 1..Len(s) /\ 1 + 1 = 2
  BY <1>2
<1> QED
  BY <1>1, <1>3, SpliceAt, Zenon

\* Code of height g to be put above b scopes: what it records is the slack M.
Fresh(g, code, b, M) ==
  /\ IsHeight(g, code) /\ g[1] = 0
  /\ \A i \in 1..(Len(code) + 1) : g[i] >= 0
  /\ \A i \in 1..Len(code) : code[i].op = "catch" => \A j \in 1..i : g[j] >= g[i]
  /\ \A i \in 1..Len(code) : Marked(code[i]) =>
       code[i].level \in Int /\ code[i].level - (g[i] + b) = M
  /\ \A i \in 1..Len(code) : Known(code[i])

\* What the stack records below its first k instructions is at most M.
Bounds(h, s, k, M) == \A j \in (k + 1)..Len(s) : Marked(s[j]) => M >= s[j].level - h[j]

\* What the code throws is caught in it, or below the first k instructions.
Covered(code, s, k) ==
  \A i \in 1..Len(code) :
     \/ Outer(code[i])
     \/ \E j \in (i + 1)..Len(code) : code[j].op = "catch"
     \/ \E j \in (k + 1)..Len(s) : s[j].op = "catch"

\* Everything that makes the code fit in place of the first k instructions,
\* over a symbol table of len2 scopes.
Fits(s, h, len, k, code, g, new, b, M, len2) ==
  /\ Arranged(s) /\ k \in 1..Len(s) /\ Splice(new, code, s, k)
  /\ Fit(h, s, len) /\ b = h[k + 1]
  /\ M \in Int /\ M >= 1 /\ Fresh(g, code, b, M) /\ Bounds(h, s, k, M) /\ Covered(code, s, k)
  /\ len2 \in Int /\ len2 - b >= M

\* The spliced stack fits when the slack M it starts with is what its code
\* records and is not less than what is recorded below.
LEMMA SpliceFit ==
  ASSUME NEW s, NEW h, NEW len, NEW k, NEW code, NEW g, NEW new, NEW b, NEW M, NEW len2,
         Fits(s, h, len, k, code, g, new, b, M, len2)
  PROVE  \E f : Fit(f, new, len2) /\ f[1] = b
<1>0. /\ Splice(new, code, s, k) /\ Fit(h, s, len) /\ Fresh(g, code, b, M) /\ Bounds(h, s, k, M)
      /\ k \in 1..Len(s) /\ b = h[k + 1] /\ M \in Int /\ M >= 1 /\ len2 \in Int /\ len2 - b >= M
  BY Zenon DEF Fits
<1>1. PICK m \in Nat, n \in Nat : m = Len(code) /\ n = Len(s)
  BY <1>0, SeqParts, Zenon DEF Splice
<1>2. k \in 1..n /\ k \in Nat /\ k >= 1 /\ k <= n
  BY <1>0, <1>1
<1>3. PICK l \in Nat : l = Len(new) /\ l = m + (n - k)
  <2>1. m + (n - k) \in Nat
    BY <1>2
  <2> QED
    BY <1>0, <1>1, <2>1, Zenon DEF Splice
<1>4. /\ \A i \in 1..m : new[i] = code[i]
      /\ \A i \in (m + 1)..l : new[i] = s[i - m + k]
  BY <1>0, <1>1, <1>3, Zenon DEF Splice
<1>5. /\ h \in [1..(n + 1) -> Int] /\ h[n + 1] = 0
      /\ \A i \in 1..n : h[i] = Weight(s[i]) + h[i + 1]
      /\ \A i \in 1..(n + 1) : h[i] >= 0
  BY <1>0, <1>1, Zenon DEF Fit, IsHeight
<1>6. \A j \in 1..n : s[j].op = "catch" => \A i \in 1..j : h[i] >= h[j]
  BY <1>0, <1>1, Zenon DEF Fit
<1>7. \A i \in 1..n : Marked(s[i]) =>
        /\ s[i].level \in Int
        /\ s[i].level >= 1 + h[i]
        /\ \A j \in i..n : Marked(s[j]) => s[i].level - h[i] >= s[j].level - h[j]
  BY <1>0, <1>1, Zenon DEF Fit
<1>8. /\ g \in [1..(m + 1) -> Int] /\ g[m + 1] = 0 /\ g[1] = 0
      /\ \A i \in 1..m : g[i] = Weight(code[i]) + g[i + 1]
      /\ \A i \in 1..(m + 1) : g[i] >= 0
  BY <1>0, <1>1, Zenon DEF Fresh, IsHeight
<1>9. b = h[k + 1] /\ b \in Int /\ b >= 0 /\ M \in Int /\ M >= 1 /\ len2 \in Int /\ len2 - b >= M
  BY <1>0, <1>2, <1>5
<1> DEFINE f == [i \in 1..(l + 1) |-> IF i <= m THEN g[i] + b ELSE h[i - m + k]]
<1>10. ASSUME NEW i \in 1..m PROVE f[i] = g[i] + b /\ f[i] \in Int /\ g[i] \in Int /\ g[i] >= 0
  BY SMTT(60), <1>2, <1>3, <1>8, <1>9
<1>11. ASSUME NEW i \in (m + 1)..(l + 1)
       PROVE  f[i] = h[i - m + k] /\ i - m + k \in (k + 1)..(n + 1) /\ f[i] \in Int /\ f[i] >= 0
  <2>1. i - m + k \in (k + 1)..(n + 1) /\ i - m + k \in 1..(n + 1) /\ ~(i <= m) /\ i \in 1..(l + 1)
    BY <1>2, <1>3
  <2> QED
    BY <2>1, <1>5
<1>12. f \in [1..(l + 1) -> Int] /\ (\A i \in 1..(l + 1) : f[i] >= 0) /\ f[l + 1] = 0 /\ f[1] = b
  <2>0. f \in [1..(l + 1) -> Int] <=> \A i \in 1..(l + 1) : f[i] \in Int
    OBVIOUS
  <2> HIDE DEF f
  <2>1. ASSUME NEW i \in 1..(l + 1) PROVE f[i] \in Int /\ f[i] >= 0
    <3>1. CASE i \in 1..m
      <4>1. f[i] = g[i] + b /\ g[i] \in Int /\ g[i] >= 0
        BY <3>1, <1>10, Zenon
      <4> QED
        BY <4>1, <1>9
    <3>2. CASE i \in (m + 1)..(l + 1)
      BY <3>2, <1>11, Zenon
    <3> QED
      BY <3>1, <3>2
  <2>2. f[l + 1] = 0
    <3>1. l + 1 \in (m + 1)..(l + 1) /\ (l + 1) - m + k = n + 1
      BY <1>2, <1>3
    <3> QED
      BY <3>1, <1>11, <1>5
  <2>3. f[1] = b
    <3>1. CASE m = 0
      <4>1. 1 \in (m + 1)..(l + 1) /\ 1 - m + k = k + 1
        BY <3>1, <1>2
      <4> QED
        BY <4>1, <1>11, <1>9
    <3>2. CASE m > 0
      <4>1. 1 \in 1..m
        BY <3>2
      <4> QED
        BY <4>1, <1>10, <1>8, <1>9
    <3> QED
      BY <3>1, <3>2
  <2> QED
    BY <2>0, <2>1, <2>2, <2>3, Zenon
<1> HIDE DEF f
<1>13. ASSUME NEW i \in 1..l PROVE f[i] = Weight(new[i]) + f[i + 1]
  <2>0. Weight(new[i]) \in Int
    BY WeightType
  <2>1. CASE i < m
    <3>1. i \in 1..m /\ i + 1 \in 1..m
      BY <2>1
    <3>2. g[i] = Weight(code[i]) + g[i + 1] /\ new[i] = code[i]
      BY <3>1, <1>4, <1>8
    <3>3. f[i] = g[i] + b /\ f[i + 1] = g[i + 1] + b /\ g[i] \in Int /\ g[i + 1] \in Int
      BY <3>1, <1>10
    <3> QED
      BY <2>0, <3>2, <3>3, <1>9
  <2>2. CASE i = m
    <3>1. i \in 1..m /\ i + 1 \in (m + 1)..(l + 1) /\ (i + 1) - m + k = k + 1
      BY <2>2, <1>2
    <3>2. g[i] = Weight(code[i]) + 0 /\ new[i] = code[i]
      BY <2>2, <3>1, <1>4, <1>8
    <3>3. f[i] = g[i] + b /\ f[i + 1] = b
      BY <3>1, <1>9, <1>10, <1>11
    <3> QED
      BY <2>0, <3>2, <3>3
  <2>3. CASE i > m
    <3>1. i \in (m + 1)..l /\ i \in (m + 1)..(l + 1) /\ i + 1 \in (m + 1)..(l + 1)
          /\ i - m + k \in 1..n /\ (i + 1) - m + k = (i - m + k) + 1
      BY <2>3, <1>2, <1>3
    <3>2. new[i] = s[i - m + k] /\ h[i - m + k] = Weight(s[i - m + k]) + h[(i - m + k) + 1]
      BY <3>1, <1>4, <1>5
    <3>3. f[i] = h[i - m + k] /\ f[i + 1] = h[(i - m + k) + 1]
      BY <3>1, <1>11
    <3> QED
      BY <3>2, <3>3
  <2> QED
    BY <2>1, <2>2, <2>3
<1>14. ASSUME NEW j \in 1..l, new[j].op = "catch", NEW i \in 1..j PROVE f[i] >= f[j]
  <2>1. CASE j <= m
    <3>1. j \in 1..m /\ i \in 1..m /\ i \in 1..j
      BY <2>1
    <3>2. code[j].op = "catch" /\ j \in 1..Len(code)
      BY <1>1, <1>4, <1>14, <3>1
    <3>3. g[i] >= g[j]
      BY <1>0, <3>1, <3>2, Zenon DEF Fresh
    <3> QED
      BY <3>1, <3>3, <1>9, <1>10
  <2>2. CASE j > m /\ i > m
    <3>0. i \in Nat /\ j \in Nat /\ m < i /\ i <= j /\ j <= l
      BY <2>2
    <3>1. j \in (m + 1)..l /\ i \in (m + 1)..(l + 1) /\ j \in (m + 1)..(l + 1)
          /\ j - m + k \in 1..n /\ i - m + k \in 1..(j - m + k)
      BY <3>0, <1>2, <1>3
    <3>2. s[j - m + k].op = "catch"
      BY <1>4, <1>14, <3>1
    <3>3. h[i - m + k] >= h[j - m + k]
      BY <1>6, <3>1, <3>2
    <3> QED
      BY <3>1, <3>3, <1>11
  <2>3. CASE j > m /\ i <= m
    <3>1. j \in (m + 1)..l /\ i \in 1..m /\ j \in (m + 1)..(l + 1)
          /\ j - m + k \in 1..n /\ k + 1 \in 1..(j - m + k)
      BY <2>3, <1>2, <1>3
    <3>2. s[j - m + k].op = "catch"
      BY <1>4, <1>14, <3>1
    <3>0. PICK p \in 1..n : p = j - m + k /\ k + 1 \in 1..p
      BY <3>1
    <3>00. h[k + 1] >= h[p]
      BY <1>6, <3>0, <3>2, Zenon
    <3>01. p \in 1..(n + 1)
      OBVIOUS
    <3>3. b >= h[j - m + k] /\ h[j - m + k] \in Int
      BY <1>5, <1>9, <3>0, <3>00, <3>01
    <3>4. f[i] = g[i] + b /\ g[i] >= 0 /\ g[i] \in Int /\ f[j] = h[j - m + k]
      BY <3>1, <1>10, <1>11, Zenon
    <3>5. PICK u \in Int, w \in Int : u = g[i] /\ w = h[j - m + k] /\ u >= 0 /\ b >= w
      BY <3>3, <3>4, Zenon
    <3>6. u + b >= w
      BY <3>5, <1>9
    <3> QED
      BY <3>4, <3>5, <3>6, Zenon
  <2> QED
    BY <2>1, <2>2, <2>3
<1>15. ASSUME NEW i \in 1..l, Marked(new[i])
       PROVE  /\ new[i].level \in Int /\ new[i].level >= 1 + f[i]
              /\ M >= new[i].level - f[i]
              /\ i <= m => new[i].level - f[i] = M
  <2>1. CASE i <= m
    <3>1. i \in 1..m /\ new[i] = code[i]
      BY <2>1, <1>4
    <3>0. Marked(code[i]) /\ i \in 1..Len(code)
      BY <1>1, <1>15, <3>1, Zenon
    <3>2. code[i].level \in Int /\ code[i].level - (g[i] + b) = M
      BY <1>0, <3>0, Zenon DEF Fresh
    <3>3. f[i] = g[i] + b /\ g[i] \in Int /\ g[i] >= 0
      BY <3>1, <1>10, Zenon
    <3>4. PICK u \in Int, w \in Int : u = g[i] + b /\ w = code[i].level /\ w - u = M
      <4>1. g[i] + b \in Int
        BY <3>3, <1>9
      <4> QED
        BY <3>2, <4>1, Zenon
    <3>5. w >= 1 + u /\ M >= w - u
      BY <3>4, <1>9
    <3> QED
      BY <3>1, <3>2, <3>3, <3>4, <3>5, Zenon
  <2>2. CASE i > m
    <3>1. i \in (m + 1)..l /\ i \in (m + 1)..(l + 1) /\ i - m + k \in (k + 1)..n /\ i - m + k \in 1..n
      BY <2>2, <1>2, <1>3
    <3>2. new[i] = s[i - m + k] /\ f[i] = h[i - m + k] /\ ~(i <= m)
      BY <2>2, <3>1, <1>4, <1>11
    <3>3. s[i - m + k].level \in Int /\ s[i - m + k].level >= 1 + h[i - m + k]
      BY <1>7, <1>15, <3>1, <3>2
    <3>4. M >= s[i - m + k].level - h[i - m + k]
      BY <1>0, <1>1, <1>15, <3>1, <3>2, Zenon DEF Bounds
    <3> QED
      BY <3>2, <3>3, <3>4, Zenon
  <2> QED
    BY <2>1, <2>2
<1>16. ASSUME NEW i \in 1..l, Marked(new[i]), NEW j \in i..l, Marked(new[j])
       PROVE  new[i].level - f[i] >= new[j].level - f[j]
  <2>1. CASE i <= m
    <3>1. j \in 1..l
      OBVIOUS
    <3>2. new[i].level - f[i] = M /\ M >= new[j].level - f[j]
      BY <2>1, <3>1, <1>15, <1>16, Zenon
    <3> QED
      BY <3>2, Zenon
  <2>2. CASE i > m
    <3>0. i \in Nat /\ j \in Nat /\ m < i /\ i <= j /\ j <= l
      BY <2>2
    <3>1. i \in (m + 1)..l /\ j \in (m + 1)..l /\ i \in (m + 1)..(l + 1) /\ j \in (m + 1)..(l + 1)
          /\ i - m + k \in 1..n /\ j - m + k \in (i - m + k)..n
      BY <3>0, <1>2, <1>3
    <3>2. new[i] = s[i - m + k] /\ f[i] = h[i - m + k] /\ new[j] = s[j - m + k] /\ f[j] = h[j - m + k]
      BY <3>1, <1>4, <1>11
    <3> QED
      BY <3>1, <3>2, <1>7, <1>16
  <2> QED
    BY <2>1, <2>2
<1>17. IsHeight(f, new)
  BY <1>3, <1>12, <1>13, Zenon DEF IsHeight
<1>18. len2 >= 1 + f[1] /\ \A i \in 1..l : Marked(new[i]) => len2 - f[1] >= new[i].level - f[i]
  <2>1. len2 - f[1] >= M
    BY <1>9, <1>12
  <2>2. ASSUME NEW i \in 1..l, Marked(new[i]) PROVE len2 - f[1] >= new[i].level - f[i]
    <3>1. i \in 1..(l + 1) /\ 1 \in 1..(l + 1)
      OBVIOUS
    <3>2. f[i] \in Int /\ f[1] \in Int
      BY <3>1, <1>12
    <3>3. M >= new[i].level - f[i] /\ new[i].level \in Int
      BY <2>2, <1>15, Zenon
    <3>4. PICK u \in Int, w \in Int, v \in Int : u = f[1] /\ w = f[i] /\ v = new[i].level
      BY <3>2, <3>3, Zenon
    <3>5. len2 - u >= M /\ M >= v - w
      BY <2>1, <3>3, <3>4, Zenon
    <3>6. len2 - u >= v - w
      BY <3>5, <1>9
    <3> QED
      BY <3>4, <3>6, Zenon
  <2>3. len2 >= 1 + f[1]
    BY <2>1, <1>9, <1>12
  <2> QED
    BY <2>2, <2>3, Zenon
<1>19. Fit(f, new, len2)
  BY <1>3, <1>12, <1>14, <1>15, <1>16, <1>17, <1>18 DEF Fit
<1> QED
  BY <1>9, <1>12, <1>19

\* Sound instructions are not the machine's own.
LEMMA SoundOp ==
  ASSUME NEW x, Sound(x)
  PROVE  Known(x) /\ ~Marked(x) /\ x.op \notin {"catch", "restore", "rethrow"}
<1>1. PICK W : Closed(W) /\ x \in W
  BY Zenon DEF Sound
<1>2. Local(x, W)
  BY <1>1, Zenon DEF Closed
<1>3. x.op \notin {"catch", "restore", "rethrow"}
  BY <1>2 DEF Local, Leaves
<1> QED
  BY <1>3 DEF Known, Marked

Holds(new, code, s, k) ==
  \A i \in 1..Len(new) : \/ i \in 1..Len(code) /\ new[i] = code[i]
                         \/ \E j \in (k + 1)..Len(s) : new[i] = s[j]

\* A spliced stack holds what its code and the old stack hold.
LEMMA SpliceHolds ==
  ASSUME NEW s, NEW k \in 1..Len(s), NEW new, NEW code, Splice(new, code, s, k)
  PROVE  /\ Len(code) \in Nat /\ Len(s) \in Nat /\ Len(new) \in Nat
         /\ Holds(new, code, s, k)
<1>1. PICK m \in Nat, n \in Nat, l \in Nat : m = Len(code) /\ n = Len(s) /\ l = Len(new)
  BY SeqParts, Zenon DEF Splice
<1>2. l = m + (n - k) /\ k \in 1..n
  BY <1>1, Zenon DEF Splice
<1>3. ASSUME NEW i \in 1..l
      PROVE  i \in 1..m \/ (i \in (m + 1)..l /\ i - m + k \in (k + 1)..n)
  BY <1>2
<1>4. /\ \A i \in 1..m : new[i] = code[i]
      /\ \A i \in (m + 1)..l : new[i] = s[i - m + k]
  BY <1>1, Zenon DEF Splice
<1>5. \A i \in 1..l : (i \in 1..m /\ new[i] = code[i]) \/ \E j \in (k + 1)..n : new[i] = s[j]
  BY <1>3, <1>4, Zenon
<1> QED
  BY <1>1, <1>5, Zenon DEF Holds

\* Nothing on a spliced stack can throw past its last catch clause.
LEMMA SpliceCaught ==
  ASSUME NEW s, Caught(s), NEW k \in 1..Len(s), NEW new, NEW code, Splice(new, code, s, k),
         \A i \in 1..Len(code) :
            \/ Outer(code[i])
            \/ \E j \in (i + 1)..Len(code) : code[j].op = "catch"
            \/ \E j \in (k + 1)..Len(s) : s[j].op = "catch"
  PROVE  Caught(new)
<1>1. PICK m \in Nat, n \in Nat, l \in Nat : m = Len(code) /\ n = Len(s) /\ l = Len(new)
  BY SeqParts, Zenon DEF Splice
<1>2. l = m + (n - k) /\ k \in 1..n
  BY <1>1, Zenon DEF Splice
<1>4. /\ \A i \in 1..m : new[i] = code[i]
      /\ \A i \in (m + 1)..l : new[i] = s[i - m + k]
  BY <1>1, Zenon DEF Splice
<1>5. ASSUME NEW j \in (k + 1)..n PROVE j + m - k \in (m + 1)..l /\ new[j + m - k] = s[j]
  <2>1. j + m - k \in (m + 1)..l /\ (j + m - k) - m + k = j
    BY <1>2
  <2> QED
    BY <2>1, <1>4
<1>6. ASSUME NEW i \in 1..l PROVE Outer(new[i]) \/ \E j \in (i + 1)..l : new[j].op = "catch"
  <2>1. CASE i \in 1..m
    <3>1. Outer(code[i]) \/ (\E j \in (i + 1)..m : code[j].op = "catch")
            \/ \E j \in (k + 1)..n : s[j].op = "catch"
      BY <2>1, <1>1, Zenon
    <3>2. ASSUME NEW j \in (i + 1)..m, code[j].op = "catch" PROVE j \in (i + 1)..l /\ new[j].op = "catch"
      <4>1. j \in 1..m /\ j \in (i + 1)..l
        BY <1>2
      <4> QED
        BY <4>1, <3>2, <1>4, Zenon
    <3>3. ASSUME NEW j \in (k + 1)..n, s[j].op = "catch"
          PROVE  j + m - k \in (i + 1)..l /\ new[j + m - k].op = "catch"
      <4>1. j + m - k \in (i + 1)..l
        BY <1>2, <2>1
      <4> QED
        BY <4>1, <3>3, <1>5, Zenon
    <3> QED
      BY <2>1, <3>1, <3>2, <3>3, <1>4, Zenon
  <2>2. CASE i \in (m + 1)..l
    <3>1. PICK p \in 1..n : p = i - m + k /\ p > k
      BY <2>2, <1>2
    <3>2. new[i] = s[p]
      BY <2>2, <3>1, <1>4, Zenon
    <3>3. Outer(s[p]) \/ \E j \in (p + 1)..n : s[j].op = "catch"
      BY <1>1, Zenon DEF Caught
    <3>4. ASSUME NEW j \in (p + 1)..n, s[j].op = "catch"
          PROVE  j + m - k \in (i + 1)..l /\ new[j + m - k].op = "catch"
      <4>1. j + m - k \in (i + 1)..l /\ j \in (k + 1)..n
        BY <1>2, <2>2, <3>1
      <4> QED
        BY <4>1, <3>4, <1>5, Zenon
    <3> QED
      BY <3>2, <3>3, <3>4, Zenon
  <2> QED
    BY <2>1, <2>2
<1> QED
  BY <1>1, <1>6, Zenon DEF Caught

\* Code in place of the first k instructions leaves the stack in order.
LEMMA Replace ==
  ASSUME NEW s, NEW h, NEW len, NEW k, NEW code, NEW g, NEW new, NEW b, NEW M, NEW len2,
         Fits(s, h, len, k, code, g, new, b, M, len2)
  PROVE  /\ Arranged(new)
         /\ \E f : Fit(f, new, len2) /\ f[1] = b
         /\ Recovering(new) => Recovering(code) \/ Recovering(s)
<1>0. /\ Arranged(s) /\ k \in 1..Len(s) /\ Splice(new, code, s, k)
      /\ Fit(h, s, len) /\ b = h[k + 1]
      /\ M \in Int /\ M >= 1 /\ Fresh(g, code, b, M) /\ Bounds(h, s, k, M) /\ Covered(code, s, k)
      /\ len2 \in Int /\ len2 - b >= M
  BY Zenon DEF Fits
<1>1. Len(code) \in Nat /\ Len(s) \in Nat /\ Len(new) \in Nat /\ Holds(new, code, s, k)
  BY <1>0, SpliceHolds, Zenon
<1>2. \A j \in (k + 1)..Len(s) : j \in 1..Len(s)
  BY <1>0, <1>1
<1>3. \E V : new \in Seq(V)
  BY <1>0, Zenon DEF Splice
<1>4. \A i \in 1..Len(new) : Known(new[i])
  BY <1>0, <1>1, <1>2, Zenon DEF Arranged, Holds, Fresh
<1>5. \E f : Fit(f, new, len2) /\ f[1] = b
  BY SpliceFit
<1>6. Caught(new)
  BY <1>0, SpliceCaught, Zenon DEF Arranged, Covered
<1>7. Recovering(new) => Recovering(code) \/ Recovering(s)
  BY <1>0, <1>1, <1>2, Zenon DEF Recovering, Holds
<1> QED
  BY <1>0, <1>3, <1>4, <1>5, <1>6, <1>7, Zenon DEF Arranged

\* Good code in place of the first instruction leaves the stack in order.
LEMMA Push ==
  ASSUME NEW s, NEW len \in Int, NEW fl, InOrder(s, len, fl), s # <<>>,
         NEW code, GoodCode(code), NEW len2 \in Int, len2 = len - Weight(s[1]),
         Outer(s[1]) => \A i \in 1..Len(code) : Outer(code[i])
  PROVE  InOrder(code \o Tail(s), len2, fl)
<1>1. PICK V : s \in Seq(V)
  BY Zenon DEF InOrder, Arranged
<1>2. PICK X : code \in Seq(X)
  BY GoodElements, Zenon
<1>3. PICK m \in Nat, n \in Nat : m = Len(code) /\ n = Len(s) /\ DOMAIN code = 1..m
  BY <1>1, <1>2, SeqParts, ZenonT(60)
<1>4. n # 0
  BY <1>1, <1>3, EmptySeq, Zenon
<1>5. 1 \in 1..n /\ 1 + 1 = 2 /\ 2 \in 1..(n + 1)
  BY <1>4
<1>6. Splice(code \o Tail(s), code, s, 1)
  BY <1>1, <1>2, SpliceTop, Zenon
<1>7. PICK h : Fit(h, s, len) /\ (~fl => len = 1 + h[1])
  BY Zenon DEF InOrder
<1>8. PICK g : IsHeight(g, code) /\ g[1] = 0 /\ \A i \in 1..(Len(code) + 1) : g[i] >= 0
  BY GoodElements, Zenon DEF Balanced
<1>9. ASSUME NEW i \in 1..m
      PROVE  Known(code[i]) /\ ~Marked(code[i]) /\ code[i].op \notin {"catch", "restore", "rethrow"}
  <2>1. Sound(code[i])
    BY <1>3, GoodElements, Zenon
  <2> QED
    BY <2>1, SoundOp, Zenon
<1>10. h \in [1..(n + 1) -> Int] /\ h[1] = Weight(s[1]) + h[2] /\ len >= 1 + h[1]
  BY <1>3, <1>5, <1>7, Zenon DEF Fit, IsHeight
<1>11. h[1] \in Int /\ h[2] \in Int /\ Weight(s[1]) \in Int
  BY <1>5, <1>10, WeightType
<1>12. PICK M \in Int : M = len - h[1] /\ M >= 1 /\ len2 - h[2] = M
  BY SMTT(60), <1>10, <1>11
<1>13. ~fl => len2 = 1 + h[2]
  BY <1>7, <1>10, <1>11
<1>14. ASSUME NEW j \in 2..n, Marked(s[j]) PROVE M >= s[j].level - h[j]
  <2>1. j \in 1..Len(s)
    BY <1>3
  <2>2. len - h[1] >= s[j].level - h[j]
    BY <2>1, <1>7, <1>14, Zenon DEF Fit
  <2> QED
    BY <2>2, <1>12, Zenon
<1>15. Bounds(h, s, 1, M)
  BY <1>3, <1>5, <1>14, Zenon DEF Bounds
<1>16. Covered(code, s, 1)
  <2>1. Outer(s[1]) \/ \E j \in (1 + 1)..n : s[j].op = "catch"
    BY <1>3, <1>5, Zenon DEF InOrder, Arranged, Caught
  <2> QED
    BY <2>1, <1>3, Zenon DEF Covered
<1>17. ~Recovering(code)
  BY <1>3, <1>9 DEF Recovering
<1>18. Fresh(g, code, h[2], M)
  <2>1. \A i \in 1..Len(code) : Known(code[i]) /\ ~Marked(code[i]) /\ code[i].op # "catch"
    BY <1>3, <1>9
  <2> QED
    BY <1>8, <2>1, Zenon DEF Fresh
<1>19. 1 \in 1..Len(s) /\ len2 - h[2] >= M /\ h[2] = h[1 + 1]
  BY <1>3, <1>5, <1>12
<1> QED
  <2>1. Arranged(s)
    BY Zenon DEF InOrder
  <2>2. /\ Arranged(code \o Tail(s))
        /\ \E f : Fit(f, code \o Tail(s), len2) /\ f[1] = h[2]
        /\ Recovering(code \o Tail(s)) => Recovering(code) \/ Recovering(s)
    <3>1. Fits(s, h, len, 1, code, g, code \o Tail(s), h[2], M, len2)
      BY <2>1, <1>6, <1>7, <1>12, <1>15, <1>16, <1>18, <1>19, Zenon DEF Fits
    <3> QED
      BY <3>1, Replace
  <2> QED
    BY <2>2, <1>13, <1>17, Zenon DEF InOrder

\* A catch clause under good code records the scopes there are.
LEMMA FreshTry ==
  ASSUME NEW body, GoodCode(body), NEW c, Clause(c), NEW b \in Int, NEW M \in Int, c.level - b = M
  PROVE  /\ \E g : Fresh(g, Append(body, c), b, M)
         /\ \E X : Append(body, c) \in Seq(X)
         /\ Len(body) \in Nat /\ Len(Append(body, c)) = Len(body) + 1
         /\ Append(body, c)[Len(body) + 1] = c
         /\ ~Recovering(Append(body, c))
<1>1. PICK X : body \in Seq(X)
  BY GoodElements, Zenon
<1>2. PICK m \in Nat : m = Len(body) /\ DOMAIN body = 1..m
  BY <1>1, SeqParts, Zenon
<1>3. PICK Y : body \in Seq(Y) /\ c \in Y
  <2>1. X \subseteq X \union {c} /\ c \in X \union {c}
    OBVIOUS
  <2> QED
    BY <1>1, <2>1, SeqMonotonic, Zenon
<1>4. PICK code : /\ code = Append(body, c) /\ code \in Seq(Y) /\ Len(code) = m + 1
                  /\ code[m + 1] = c
                  /\ \A i \in 1..m : code[i] = body[i]
  <2>1. /\ Append(body, c) \in Seq(Y) /\ Len(Append(body, c)) = Len(body) + 1
        /\ \A i \in 1..Len(body) : Append(body, c)[i] = body[i]
        /\ Append(body, c)[Len(body) + 1] = c
    BY <1>3, AppendProperties
  <2> QED
    BY <1>2, <2>1, Zenon
<1>5. PICK f : IsHeight(f, body) /\ f[1] = 0 /\ \A i \in 1..(Len(body) + 1) : f[i] >= 0
  BY GoodElements, Zenon DEF Balanced
<1>6. /\ f \in [1..(m + 1) -> Int] /\ f[m + 1] = 0 /\ f[1] = 0
      /\ \A i \in 1..m : f[i] = Weight(body[i]) + f[i + 1]
      /\ \A i \in 1..(m + 1) : f[i] >= 0
  BY <1>2, <1>5, Zenon DEF IsHeight
<1>7. ASSUME NEW i \in 1..m
      PROVE  Known(code[i]) /\ ~Marked(code[i]) /\ code[i].op \notin {"catch", "restore", "rethrow"}
  <2>1. Sound(code[i])
    BY <1>2, <1>4, GoodElements, Zenon
  <2> QED
    BY <2>1, SoundOp, Zenon
<1>8. Known(c) /\ c.op = "catch" /\ Weight(c) = 0 /\ c.level \in Int
  BY DEF Known, Clause, Weight
<1> DEFINE g == [i \in 1..(m + 2) |-> IF i <= m THEN f[i] ELSE 0]
<1>9. g \in [1..(m + 2) -> Int] /\ g[1] = 0 /\ g[m + 1] = 0 /\ g[m + 2] = 0 /\ \A i \in 1..(m + 2) : g[i] >= 0
  BY <1>6
<1>10. ASSUME NEW i \in 1..(m + 1) PROVE g[i] = Weight(code[i]) + g[i + 1]
  <2>1. CASE i = m + 1
    <3>1. g[i] = 0 /\ g[i + 1] = 0 /\ code[i] = c
      BY <2>1, <1>4
    <3> QED
      BY <3>1, <1>8
  <2>2. CASE i \in 1..m
    <3>1. g[i] = f[i] /\ g[i + 1] = f[i + 1]
      BY <2>2, <1>6
    <3>2. f[i] = Weight(body[i]) + f[i + 1] /\ code[i] = body[i]
      BY <2>2, <1>4, <1>6, Zenon
    <3> QED
      BY <3>1, <3>2, Zenon
  <2> QED
    BY <2>1, <2>2
<1> HIDE DEF g
<1>11. (m + 1) + 1 = m + 2
  OBVIOUS
<1>12. IsHeight(g, code)
  BY <1>4, <1>9, <1>10, <1>11, Zenon DEF IsHeight
<1>13. ASSUME NEW i \in 1..(m + 1), i \notin 1..m PROVE i = m + 1
  BY <1>13
<1>14. \A i \in 1..Len(code) : Known(code[i])
  BY <1>4, <1>7, <1>8, <1>13, Zenon
<1>15. ASSUME NEW i \in 1..Len(code), Marked(code[i])
       PROVE  i = m + 1 /\ code[i].level \in Int /\ code[i].level - (g[i] + b) = M
  <2>1. i = m + 1
    BY <1>4, <1>7, <1>13, <1>15, Zenon
  <2> QED
    BY <2>1, <1>4, <1>8, <1>9
<1>16. ASSUME NEW i \in 1..Len(code), code[i].op = "catch", NEW j \in 1..i PROVE g[j] >= g[i]
  <2>1. Marked(code[i])
    BY <1>16 DEF Marked
  <2>2. i = m + 1
    BY <2>1, <1>15, Zenon
  <2>3. j \in 1..(m + 2)
    BY <2>2
  <2> QED
    BY <2>2, <2>3, <1>9
<1>17. \A i \in 1..(Len(code) + 1) : g[i] >= 0
  BY <1>4, <1>9, <1>11, Zenon
<1>18. Fresh(g, code, b, M)
  BY <1>9, <1>12, <1>14, <1>15, <1>16, <1>17, Zenon DEF Fresh
<1>19. ASSUME NEW i \in 1..Len(code) PROVE code[i].op \notin {"restore", "rethrow"}
  <2>1. CASE i \in 1..m
    BY <2>1, <1>7
  <2>2. CASE i \notin 1..m
    <3>1. code[i] = c
      BY <2>2, <1>4, <1>13, Zenon
    <3> QED
      BY <3>1, <1>8
  <2> QED
    BY <2>1, <2>2
<1>20. ~Recovering(code)
  BY <1>19, Zenon DEF Recovering
<1> QED
  BY <1>2, <1>4, <1>18, <1>20, Zenon

\* The parts of a stack that is in order.
LEMMA Opened ==
  ASSUME NEW s, NEW len, NEW fl, InOrder(s, len, fl), s # <<>>
  PROVE  /\ Arranged(s)
         /\ \E V : s \in Seq(V)
         /\ Len(s) \in Nat /\ 1 \in 1..Len(s)
         /\ Head(s) = s[1]
         /\ Known(s[1])
         /\ Outer(s[1]) \/ \E j \in (1 + 1)..Len(s) : s[j].op = "catch"
<1>1. Arranged(s)
  BY Zenon DEF InOrder
<1>2. PICK V : s \in Seq(V)
  BY <1>1, Zenon DEF Arranged
<1>3. Len(s) \in Nat \ {0}
  BY <1>2, EmptySeq, Zenon
<1>4. 1 \in 1..Len(s)
  BY <1>3
<1>5. Head(s) = s[1]
  BY <1>2
<1> QED
  BY <1>1, <1>2, <1>3, <1>4, <1>5 DEF Arranged, Caught

\* A function with a catch clause in place of its call.
LEMMA PushTry ==
  ASSUME NEW s, NEW len \in Nat, NEW fl, InOrder(s, len, fl), s # <<>>, Weight(s[1]) = 0,
         NEW body, GoodCode(body), NEW c, Clause(c), c.level = len, Outer(s[1]) => Outer(c)
  PROVE  InOrder(Append(body, c) \o Tail(s), len, fl)
<1>1. /\ Arranged(s) /\ Len(s) \in Nat /\ 1 \in 1..Len(s)
      /\ Outer(s[1]) \/ \E j \in (1 + 1)..Len(s) : s[j].op = "catch"
  BY Opened
<1>2. PICK V : s \in Seq(V)
  BY <1>1, Zenon DEF Arranged
<1>3. PICK h : Fit(h, s, len) /\ (~fl => len = 1 + h[1])
  BY Zenon DEF InOrder
<1>4. PICK n \in Nat : n = Len(s) /\ 1 \in 1..n
  BY <1>1, Zenon
<1>5. 1 + 1 = 2 /\ 2 \in 1..(n + 1) /\ 1 \in 1..(n + 1)
  BY <1>4
<1>6. h \in [1..(n + 1) -> Int] /\ h[1] = Weight(s[1]) + h[2] /\ len >= 1 + h[1]
  BY <1>3, <1>4, <1>5, Zenon DEF Fit, IsHeight
<1>7. PICK b \in Int : b = h[2] /\ b = h[1] /\ b = h[1 + 1]
  <2>1. h[2] \in Int /\ h[1] = h[2]
    BY <1>5, <1>6
  <2> QED
    BY <1>5, <2>1, Zenon
<1>8. PICK M \in Int : M = len - b /\ M >= 1 /\ len - b >= M
  BY <1>6, <1>7
<1>9. c.level - b = M
  BY <1>8, Zenon
<1>10. /\ \E g : Fresh(g, Append(body, c), b, M)
       /\ \E X : Append(body, c) \in Seq(X)
       /\ Len(body) \in Nat /\ Len(Append(body, c)) = Len(body) + 1
       /\ Append(body, c)[Len(body) + 1] = c
       /\ ~Recovering(Append(body, c))
  BY <1>9, FreshTry
<1>11. PICK code : code = Append(body, c)
  OBVIOUS
<1>12. PICK g : Fresh(g, code, b, M)
  BY <1>10, <1>11, Zenon
<1>13. PICK m \in Nat : m = Len(body) /\ Len(code) = m + 1 /\ code[m + 1] = c
  BY <1>10, <1>11, Zenon
<1>14. Splice(code \o Tail(s), code, s, 1)
  BY <1>2, <1>10, <1>11, SpliceTop, Zenon
<1>15. Bounds(h, s, 1, M)
  <2>1. ASSUME NEW j \in (1 + 1)..Len(s), Marked(s[j]) PROVE M >= s[j].level - h[j]
    <3>1. j \in 1..Len(s)
      BY <1>1
    <3>2. len - h[1] >= s[j].level - h[j]
      BY <3>1, <2>1, <1>3, Zenon DEF Fit
    <3> QED
      BY <3>2, <1>7, <1>8, Zenon
  <2> QED
    BY <2>1, Zenon DEF Bounds
<1>16. Covered(code, s, 1)
  <2>0. c.op = "catch"
    BY DEF Clause
  <2>1. ASSUME NEW i \in 1..(m + 1), i # m + 1 PROVE m + 1 \in (i + 1)..(m + 1)
    BY <2>1
  <2>2. \A i \in 1..(m + 1) : \/ Outer(code[i])
                              \/ \E j \in (i + 1)..(m + 1) : code[j].op = "catch"
                              \/ \E j \in (1 + 1)..Len(s) : s[j].op = "catch"
    BY <2>0, <2>1, <1>1, <1>13, Zenon
  <2> QED
    BY <2>2, <1>13, Zenon DEF Covered
<1>17. Fits(s, h, len, 1, code, g, code \o Tail(s), b, M, len)
  <2>1. len \in Int
    OBVIOUS
  <2> QED
    BY <2>1, <1>1, <1>3, <1>7, <1>8, <1>12, <1>14, <1>15, <1>16, Zenon DEF Fits
<1>18. /\ Arranged(code \o Tail(s))
       /\ \E f : Fit(f, code \o Tail(s), len) /\ f[1] = b
       /\ Recovering(code \o Tail(s)) => Recovering(code) \/ Recovering(s)
  BY <1>17, Replace
<1> QED
  BY <1>1, <1>3, <1>7, <1>10, <1>11, <1>18, Zenon DEF InOrder

\* parseFuncDecl's clause gives the symbol table the scopes it recorded.
LEMMA PopRestore ==
  ASSUME NEW s, NEW len \in Nat, NEW fl, InOrder(s, len, fl), s # <<>>, s[1].op = "restore"
  PROVE  /\ s[1].level \in Int /\ s[1].level >= 1 /\ s[1].level <= len
         /\ InOrder(<<>> \o Tail(s), s[1].level, fl)
<1>1. Arranged(s) /\ Len(s) \in Nat /\ 1 \in 1..Len(s)
  BY Opened
<1>2. PICK V : s \in Seq(V)
  BY <1>1, Zenon DEF Arranged
<1>3. PICK h : Fit(h, s, len)
  BY Zenon DEF InOrder
<1>4. PICK n \in Nat : n = Len(s) /\ 1 \in 1..n
  BY <1>1, Zenon
<1>5. 1 + 1 = 2 /\ 2 \in 1..(n + 1) /\ 1 \in 1..(n + 1)
  BY <1>4
<1>6. /\ h \in [1..(n + 1) -> Int] /\ h[1] = Weight(s[1]) + h[2]
      /\ \A i \in 1..(n + 1) : h[i] >= 0
  BY <1>3, <1>4, <1>5, Zenon DEF Fit, IsHeight
<1>7. Marked(s[1]) /\ Weight(s[1]) = 0 /\ fl
  <2>1. Marked(s[1]) /\ Weight(s[1]) = 0 /\ Recovering(s)
    BY <1>1 DEF Marked, Weight, Recovering
  <2> QED
    BY <2>1, Zenon DEF InOrder
<1>8. PICK b \in Int : b = h[2] /\ b = h[1] /\ b = h[1 + 1] /\ b >= 0
  BY <1>5, <1>6, <1>7
<1>9. s[1].level \in Int /\ s[1].level >= 1 + h[1] /\ len - h[1] >= s[1].level - h[1]
  BY <1>1, <1>3, <1>7, Zenon DEF Fit
<1>10. PICK v \in Int : v = s[1].level /\ v >= 1 + b /\ v <= len /\ v >= 1
  BY <1>8, <1>9
<1>11. PICK M \in Int : M = v - b /\ M >= 1 /\ v - b >= M
  BY <1>10
<1>12. <<>> \in Seq(V) /\ Len(<<>>) = 0
  BY EmptySeq, Zenon
<1>13. Splice(<<>> \o Tail(s), <<>>, s, 1)
  BY <1>2, <1>12, SpliceTop, Zenon
<1>14. Bounds(h, s, 1, M)
  <2>1. ASSUME NEW j \in (1 + 1)..Len(s), Marked(s[j]) PROVE M >= s[j].level - h[j]
    <3>1. j \in 1..Len(s)
      BY <1>1
    <3>2. s[1].level - h[1] >= s[j].level - h[j]
      BY <3>1, <2>1, <1>1, <1>3, <1>7, Zenon DEF Fit
    <3> QED
      BY <3>2, <1>8, <1>10, <1>11, Zenon
  <2> QED
    BY <2>1, Zenon DEF Bounds
<1>15. Covered(<<>>, s, 1) /\ ~Recovering(<<>>)
  BY <1>12 DEF Covered, Recovering
<1> DEFINE g == [i \in 1..1 |-> 0]
<1>16. g[1] = 0 /\ g \in [1..1 -> Int] /\ (\A i \in 1..1 : g[i] >= 0) /\ 0 + 1 = 1 /\ 1..0 = {}
  OBVIOUS
<1> HIDE DEF g
<1>17. Fresh(g, <<>>, b, M)
  <2>1. Len(<<>>) = 0 /\ Len(<<>>) + 1 = 1 /\ 1..Len(<<>>) = {}
    BY <1>12
  <2>2. IsHeight(g, <<>>)
    BY <1>16, <2>1, Zenon DEF IsHeight
  <2> QED
    BY <1>16, <2>1, <2>2, Zenon DEF Fresh
<1>18. Fits(s, h, len, 1, <<>>, g, <<>> \o Tail(s), b, M, v)
  BY <1>1, <1>3, <1>8, <1>10, <1>11, <1>13, <1>14, <1>15, <1>17, Zenon DEF Fits
<1>19. /\ Arranged(<<>> \o Tail(s))
       /\ \E f : Fit(f, <<>> \o Tail(s), v) /\ f[1] = b
  BY <1>18, Replace
<1> QED
  BY <1>7, <1>10, <1>19, Zenon DEF InOrder

\* What parseFuncDecl's clause runs: it records the scopes of the clause.
LEMMA FreshFunc ==
  ASSUME NEW v \in Nat, NEW b \in Int, NEW M \in Int, v - b = M
  PROVE  /\ \E g : Fresh(g, CatchFunc(v), b, M)
         /\ \E X : CatchFunc(v) \in Seq(X)
<1> DEFINE x == [op |-> "restore", level |-> v]
           y == [op |-> "rethrow"]
<1>1. x.op = "restore" /\ x.level = v
  OBVIOUS
<1>2. y.op = "rethrow"
  OBVIOUS
<1>3. CatchFunc(v) = <<x, y>>
  BY DEF CatchFunc
<1> HIDE DEF x, y
<1>4. Known(x) /\ Known(y) /\ Weight(x) = 0 /\ Weight(y) = 0 /\ ~Marked(y) /\ x.op # "catch" /\ y.op # "catch"
  BY <1>1, <1>2 DEF Known, Weight, Marked
<1> DEFINE code == <<x, y>>
<1>5. Len(code) = 2 /\ code[1] = x /\ code[2] = y /\ code \in Seq({x, y})
  OBVIOUS
<1> HIDE DEF code
<1>6. \A i \in 1..2 : i = 1 \/ i = 2
  OBVIOUS
<1> DEFINE g == [i \in 1..3 |-> 0]
<1>7. g \in [1..3 -> Int] /\ g[1] = 0 /\ g[2] = 0 /\ g[3] = 0 /\ (\A i \in 1..3 : g[i] >= 0) /\ 2 + 1 = 3 /\ 1 + 1 = 2
  OBVIOUS
<1> HIDE DEF g
<1>8. IsHeight(g, code)
  <2>1. ASSUME NEW i \in 1..2 PROVE g[i] = Weight(code[i]) + g[i + 1]
    <3>1. CASE i = 1
      BY <3>1, <1>4, <1>5, <1>7
    <3>2. CASE i = 2
      BY <3>2, <1>4, <1>5, <1>7
    <3> QED
      BY <3>1, <3>2
  <2> QED
    BY <1>5, <1>7, <2>1, Zenon DEF IsHeight
<1>9. \A i \in 1..2 : Known(code[i]) /\ code[i].op # "catch"
  BY <1>4, <1>5, <1>6, Zenon
<1>10. ASSUME NEW i \in 1..2, Marked(code[i]) PROVE code[i].level \in Int /\ code[i].level - (g[i] + b) = M
  <2>1. i = 1
    BY <1>4, <1>5, <1>6, <1>10, Zenon
  <2> QED
    BY <2>1, <1>1, <1>5, <1>7
<1>11. Fresh(g, code, b, M)
  BY <1>5, <1>7, <1>8, <1>9, <1>10, Zenon DEF Fresh
<1> QED
  BY <1>3, <1>5, <1>11, Zenon DEF code

\* What a catch clause runs is caught, unless it only skips to the next element.
LEMMA ElementHandler ==
  ASSUME NEW c, c.handler = "element"
  PROVE  Len(Handler(c)) = 1 /\ Handler(c)[1] = SkipTo(ElementStart)
BY DEF Handler, CatchElement

\* An error in an instruction that something catches: the innermost catch
\* clause runs, and the stack is in order again.
LEMMA Unwind ==
  ASSUME NEW s, NEW len \in Nat, NEW fl, InOrder(s, len, fl), s # <<>>, ~Outer(s[1])
  PROVE  /\ \E k \in DOMAIN s : s[k].op = "catch" /\ \A j \in 1..(k - 1) : s[j].op # "catch"
         /\ \A k \in DOMAIN s : s[k].op = "catch" =>
              InOrder(Handler(s[k]) \o SubSeq(s, k + 1, Len(s)), len, TRUE)
<1>1. /\ Arranged(s) /\ Len(s) \in Nat
      /\ \E j \in (1 + 1)..Len(s) : s[j].op = "catch"
  BY Opened
<1>2. PICK V : s \in Seq(V)
  BY <1>1, Zenon DEF Arranged
<1>3. PICK n \in Nat : n = Len(s) /\ DOMAIN s = 1..n
  BY <1>2, SeqParts, Zenon
<1>4. \E k \in DOMAIN s : s[k].op = "catch" /\ \A j \in 1..(k - 1) : s[j].op # "catch"
  <2> DEFINE Q == {j \in 1..n : s[j].op = "catch"}
  <2>1. Q \subseteq Nat
    OBVIOUS
  <2>2. Q # {}
    <3>1. PICK j \in (1 + 1)..n : s[j].op = "catch"
      BY <1>1, <1>3, Zenon
    <3>2. j \in 1..n
      OBVIOUS
    <3> QED
      BY <3>1, <3>2
  <2>3. PICK k \in Q : \A j \in Q : k <= j
    BY <2>1, <2>2, LeastElement
  <2>4. ASSUME NEW j \in 1..(k - 1), s[j].op = "catch" PROVE FALSE
    <3>1. j \in Q /\ ~(k <= j)
      BY <2>4
    <3> QED
      BY <2>3, <3>1
  <2> QED
    BY <1>3, <2>3, <2>4
<1>5. ASSUME NEW k \in 1..n, s[k].op = "catch"
      PROVE  InOrder(Handler(s[k]) \o SubSeq(s, k + 1, Len(s)), len, TRUE)
  <2>1. PICK c : c = s[k] /\ c.op = "catch"
    BY <1>5, Zenon
  <2>2. Known(c)
    BY <1>1, <1>3, <2>1, Zenon DEF Arranged
  <2>3. c.handler \in Handlers /\ c.level \in Nat
    BY <2>1, <2>2, SoundOp DEF Known, Clause
  <2>4. PICK h : Fit(h, s, len)
    BY Zenon DEF InOrder
  <2>5. k \in 1..(n + 1) /\ k + 1 \in 1..(n + 1) /\ 1 \in 1..k /\ 1 \in 1..(n + 1) /\ k \in k..n
    BY <1>3
  <2>6. /\ h \in [1..(n + 1) -> Int] /\ h[k] = Weight(s[k]) + h[k + 1]
        /\ h[1] >= h[k] /\ len >= 1 + h[1]
    BY <1>3, <1>5, <2>4, <2>5, Zenon DEF Fit, IsHeight
  <2>7. Weight(s[k]) = 0 /\ Marked(s[k])
    BY <1>5 DEF Weight, Marked
  <2>8. PICK b \in Int : b = h[k + 1] /\ b = h[k]
    <3>1. h[k + 1] \in Int /\ h[k] = h[k + 1]
      BY <2>5, <2>6, <2>7
    <3> QED
      BY <3>1, Zenon
  <2>9. PICK a \in Int : a = h[1] /\ a >= b /\ len >= 1 + a
    BY <2>5, <2>6, <2>8
  <2>10. c.level >= 1 + b /\ len - a >= c.level - b
    BY <1>3, <2>1, <2>4, <2>7, <2>8, <2>9, Zenon DEF Fit
  <2>11. ASSUME NEW j \in (k + 1)..Len(s), Marked(s[j])
         PROVE  len - a >= s[j].level - h[j] /\ c.level - b >= s[j].level - h[j]
    <3>1. j \in 1..Len(s) /\ j \in k..Len(s)
      BY <1>3
    <3> QED
      BY <1>3, <2>1, <2>4, <2>7, <2>8, <2>9, <2>11, <3>1, Zenon DEF Fit
  <2>12. c.handler = "element" \/ \E j \in (k + 1)..Len(s) : s[j].op = "catch"
    <3>1. Outer(c) \/ \E j \in (k + 1)..Len(s) : s[j].op = "catch"
      BY <1>1, <1>3, <2>1, Zenon DEF Arranged, Caught
    <3>2. Outer(c) => c.handler = "element"
      BY <2>1 DEF Outer, Until, N, SkipTo, parseProgramElement, Try
    <3> QED
      BY <3>1, <3>2
  <2>13. ASSUME NEW code, NEW X, code \in Seq(X), NEW M \in Int, M >= 1, len - b >= M,
                NEW g, Fresh(g, code, b, M), Bounds(h, s, k, M), Covered(code, s, k)
         PROVE  InOrder(code \o SubSeq(s, k + 1, Len(s)), len, TRUE)
    <3>1. PICK new : new = code \o SubSeq(s, k + 1, Len(s))
      OBVIOUS
    <3>2. k \in 1..Len(s) /\ len \in Int
      BY <1>3
    <3>3. Splice(new, code, s, k)
      BY <1>2, <2>13, <3>1, <3>2, SpliceAt, Zenon
    <3>4. Fits(s, h, len, k, code, g, new, b, M, len)
      BY <1>1, <2>4, <2>8, <2>13, <3>2, <3>3, Zenon DEF Fits
    <3>5. Arranged(new) /\ \E f : Fit(f, new, len) /\ f[1] = b
      BY <3>4, Replace
    <3> QED
      BY <3>1, <3>5, Zenon DEF InOrder
  <2>14. CASE c.handler = "func"
    <3>1. PICK M \in Int : M = c.level - b /\ M >= 1 /\ len - b >= M
      BY <2>3, <2>9, <2>10
    <3>2. Handler(c) = CatchFunc(c.level)
      BY <2>14 DEF Handler
    <3>3. /\ \E g : Fresh(g, CatchFunc(c.level), b, M)
          /\ \E X : CatchFunc(c.level) \in Seq(X)
      BY <2>3, <3>1, FreshFunc
    <3>4. Bounds(h, s, k, M)
      BY <2>11, <3>1, Zenon DEF Bounds
    <3>5. Covered(Handler(c), s, k)
      <4>1. c.handler # "element"
        BY <2>14
      <4> QED
        BY <4>1, <2>12, Zenon DEF Covered
    <3> QED
      BY <2>1, <2>13, <3>1, <3>2, <3>3, <3>4, <3>5, Zenon
  <2>15. CASE c.handler # "func"
    <3>1. PICK M \in Int : M = len - a /\ M >= 1 /\ len - b >= M
      BY <2>9
    <3>2. GoodCode(Handler(c))
      BY <2>3, <2>15, HandlerGood
    <3>3. PICK code : code = Handler(c) /\ GoodCode(code)
      BY <3>2, Zenon
    <3>4. PICK X : code \in Seq(X)
      BY <3>3, GoodElements, Zenon
    <3>5. PICK g : IsHeight(g, code) /\ g[1] = 0 /\ \A i \in 1..(Len(code) + 1) : g[i] >= 0
      BY <3>3, GoodElements, Zenon DEF Balanced
    <3>6. ASSUME NEW i \in 1..Len(code)
          PROVE  Known(code[i]) /\ ~Marked(code[i]) /\ code[i].op # "catch"
      <4>1. i \in DOMAIN code
        BY <3>4, SeqParts, Zenon
      <4>2. Sound(code[i])
        BY <3>3, <4>1, GoodElements, Zenon
      <4> QED
        BY <4>2, SoundOp
    <3>7. Fresh(g, code, b, M)
      BY <3>5, <3>6, Zenon DEF Fresh
    <3>8. Bounds(h, s, k, M)
      BY <2>11, <3>1, Zenon DEF Bounds
    <3>9. Covered(code, s, k)
      <4>1. CASE c.handler = "element"
        <5>1. Len(code) = 1 /\ code[1] = SkipTo(ElementStart)
          BY <4>1, <3>3, ElementHandler, Zenon
        <5>2. \A i \in 1..Len(code) : i = 1
          BY <5>1
        <5>3. Outer(SkipTo(ElementStart))
          BY DEF Outer
        <5> QED
          BY <5>1, <5>2, <5>3, Zenon DEF Covered
      <4>2. CASE c.handler # "element"
        BY <4>2, <2>12, Zenon DEF Covered
      <4> QED
        BY <4>1, <4>2
    <3> QED
      BY <2>1, <2>13, <3>1, <3>3, <3>4, <3>7, <3>8, <3>9, Zenon
  <2> QED
    BY <2>14, <2>15
<1> QED
  BY <1>3, <1>4, <1>5, Zenon

-------------------------------------------------------------------------------
(* The steps.                                                              *)

\* The parts of a known instruction are good code.
LEMMA Fields ==
  ASSUME NEW x, Known(x), x.op \notin {"catch", "restore", "rethrow"}
  PROVE  /\ Sound(x)
         /\ x.op = "call" => x.to \in DOMAIN Rules
         /\ x.op = "insert" => x.kind \in Kinds
         /\ x.op = "branch" => GoodCode(x.yes) /\ GoodCode(x.no)
         /\ x.op \in {"loop", "until", "bind"} => GoodCode(x.body)
         /\ x.op = "try" => x.handler \in Handlers /\ GoodCode(x.body)
<1>1. Sound(x)
  BY DEF Known, Clause
<1>2. PICK W : Closed(W) /\ x \in W
  BY <1>1, Zenon DEF Sound
<1>3. Local(x, W)
  BY <1>2, Zenon DEF Closed
<1>4. \A s : GoodSeq(s, W) => GoodCode(s)
  BY <1>2, Zenon DEF GoodCode
<1>5. /\ x.op = "call" => x.to \in DOMAIN Rules
      /\ x.op = "insert" => x.kind \in Kinds
      /\ x.op = "branch" => GoodSeq(x.yes, W) /\ GoodSeq(x.no, W)
      /\ x.op \in {"loop", "until", "bind"} => GoodSeq(x.body, W)
      /\ x.op = "try" => x.handler \in Handlers /\ GoodSeq(x.body, W)
  BY <1>3 DEF Local, Leaves
<1> QED
  BY <1>1, <1>4, <1>5

\* Which instructions may have no catch clause below them.
LEMMA OuterOps ==
  ASSUME NEW x, Outer(x)
  PROVE  /\ x.op \in {"until", "call", "skip", "try", "catch"}
         /\ x.op = "until" => x = Until({"END"}, <<N("ProgramElement")>>)
         /\ x.op = "call" => x = N("ProgramElement")
         /\ x.op = "skip" => x = SkipTo(ElementStart)
         /\ x.op = "try" => x = parseProgramElement[1]
<1>0. /\ Until({"END"}, <<N("ProgramElement")>>).op = "until"
      /\ N("ProgramElement").op = "call"
      /\ SkipTo(ElementStart).op = "skip"
  BY DEF Until, N, SkipTo
<1>00. parseProgramElement[1].op = "try" /\ parseProgramElement[1].handler = "element"
  BY DEF parseProgramElement, Try
<1>1. PICK u : u = Until({"END"}, <<N("ProgramElement")>>) /\ u.op = "until"
  BY <1>0, Zenon
<1>2. PICK v : v = N("ProgramElement") /\ v.op = "call"
  BY <1>0, Zenon
<1>3. PICK w : w = SkipTo(ElementStart) /\ w.op = "skip"
  BY <1>0, Zenon
<1>4. PICK y : y = parseProgramElement[1] /\ y.op = "try" /\ y.handler = "element"
  BY <1>00, Zenon
<1>5. x \in {u, v, w} \/ x = y \/ (x.op = "catch" /\ x.handler = "element")
  BY <1>1, <1>2, <1>3, <1>4, Zenon DEF Outer
<1> QED
  BY <1>1, <1>2, <1>3, <1>4, <1>5

\* The top of the stack, and the sizes of the stack and the symbol table.
LEMMA TopOf ==
  ASSUME Inv, stack # <<>>
  PROVE  /\ Top = stack[1] /\ Known(Top)
         /\ Len(stack) \in Nat /\ Len(decls) \in Nat /\ Len(decls) \in Int
         /\ <<>> \o Rest = Rest
<1>1. InOrder(stack, Len(decls), failed) /\ decls \in Seq([Names -> Kinds])
  BY Zenon DEF Inv, Tables
<1>2. Len(decls) \in Nat
  BY <1>1, SeqParts, Zenon
<1>3. (\E V : stack \in Seq(V)) /\ Len(stack) \in Nat /\ Head(stack) = stack[1] /\ Known(stack[1])
  BY <1>1, Opened
<1>4. <<>> \o Rest = Rest
  BY <1>3, HeadTailProperties, ConcatEmptySeq, Zenon DEF Rest
<1> QED
  BY <1>2, <1>3, <1>4 DEF Top

\* A step that puts good code in place of the top of the stack.
LEMMA PushStep ==
  ASSUME Inv, stack # <<>>, NEW code, GoodCode(code), stack' = code \o Rest,
         failed' = failed, decls' \in Tables, Len(decls') = Len(decls) - Weight(Top),
         Outer(Top) => \A i \in 1..Len(code) : Outer(code[i])
  PROVE  Inv'
<1>1. InOrder(stack, Len(decls), failed)
  BY Zenon DEF Inv
<1>2. Top = stack[1] /\ Len(decls) \in Int
  BY TopOf, Zenon
<1>3. Len(decls') \in Int
  BY <1>2, WeightType
<1>4. InOrder(code \o Tail(stack), Len(decls'), failed)
  BY <1>1, <1>2, <1>3, Push
<1> QED
  BY <1>4, Zenon DEF Inv, Rest

\* Code that changes no scope and leaves the symbol table alone.
LEMMA PlainStep ==
  ASSUME Inv, stack # <<>>, Weight(Top) = 0, NEW code, GoodCode(code), stack' = code \o Rest,
         failed' = failed, decls' = decls,
         Outer(Top) => \A i \in 1..Len(code) : Outer(code[i])
  PROVE  Inv'
<1>1. Len(decls) \in Nat
  BY TopOf, Zenon
<1>2. Len(decls') = Len(decls) - Weight(Top)
  BY <1>1
<1>3. decls' \in Tables
  BY Zenon DEF Inv
<1> QED
  BY <1>2, <1>3, PushStep

\* An error is caught, and is known to have been reported.
LEMMA ThrowStep ==
  ASSUME Inv, stack # <<>>, ~Outer(Top), Throw, failed' = TRUE
  PROVE  Inv'
<1>1. InOrder(stack, Len(decls), failed)
  BY Zenon DEF Inv
<1>2. Top = stack[1] /\ Len(decls) \in Nat
  BY TopOf, Zenon
<1>3. /\ \E k \in DOMAIN stack : stack[k].op = "catch" /\ \A j \in 1..(k - 1) : stack[j].op # "catch"
      /\ \A k \in DOMAIN stack : stack[k].op = "catch" =>
           InOrder(Handler(stack[k]) \o SubSeq(stack, k + 1, Len(stack)), Len(decls), TRUE)
  BY <1>1, <1>2, Unwind
<1> DEFINE clause == CHOOSE i \in DOMAIN stack :
             stack[i].op = "catch" /\ \A j \in 1..(i - 1) : stack[j].op # "catch"
<1>4. clause \in DOMAIN stack /\ stack[clause].op = "catch"
  BY <1>3, Zenon
<1>5. stack' = Handler(stack[clause]) \o SubSeq(stack, clause + 1, Len(stack)) /\ decls' = decls
  BY Zenon DEF Throw
<1> HIDE DEF clause
<1>6. InOrder(stack', Len(decls'), failed')
  BY <1>3, <1>4, <1>5, Zenon
<1> QED
  BY <1>5, <1>6, Zenon DEF Inv

\* One more instruction that changes no scope.
LEMMA AppendGood ==
  ASSUME NEW body, GoodCode(body), NEW x, OK(x)
  PROVE  GoodCode(Append(body, x))
<1>1. PICK W : body \in Seq(W)
  BY GoodElements, Zenon
<1>2. PICK Y : body \in Seq(Y) /\ x \in Y
  <2>1. W \subseteq W \union {x} /\ x \in W \union {x}
    OBVIOUS
  <2> QED
    BY <1>1, <2>1, SeqMonotonic, Zenon
<1>3. Append(body, x) = body \o <<x>>
  BY <1>2, AppendIsConcat
<1> QED
  BY <1>3, Code1, ConcatCode, Zenon

\* An instruction other than those four throws only where it is caught.
LEMMA NotOuter ==
  ASSUME NEW x, x.op \notin {"until", "call", "skip", "try", "catch"}
  PROVE  ~Outer(x)
BY OuterOps

\* consume takes a token or throws.
LEMMA ConsumeStep ==
  ASSUME Inv, consume
  PROVE  Inv'
<1>1. stack # <<>> /\ Top.op = "consume"
  BY Zenon DEF consume, At
<1>2. Weight(Top) = 0 /\ ~Outer(Top)
  BY <1>1, NotOuter DEF Weight
<1>3. CASE Advance("no", <<>>)
  <2>1. stack' = <<>> \o Rest /\ failed' = failed /\ decls' = decls
    BY <1>3 DEF Advance
  <2> QED
    BY <1>1, <1>2, <2>1, Code0, PlainStep
<1>4. CASE reportErrorAndThrow
  BY <1>1, <1>2, <1>4, ThrowStep DEF reportErrorAndThrow
<1> QED
  BY <1>3, <1>4, Zenon DEF consume

\* So does parseIdent, and gives the name to the insertions that follow.
LEMMA IdentStep ==
  ASSUME Inv, parseIdent
  PROVE  Inv'
<1>1. stack # <<>> /\ Top.op = "bind"
  BY Zenon DEF parseIdent, At
<1>2. Weight(Top) = 0 /\ ~Outer(Top)
  BY <1>1, NotOuter DEF Weight
<1>3. GoodCode(Top.body)
  BY <1>1, TopOf, Fields
<1>4. CASE Advance("no", Named(Top.body, peek(0).name))
  <2>1. GoodCode(Named(Top.body, peek(0).name))
    BY <1>3, NamedGood, Zenon
  <2>2. stack' = Named(Top.body, peek(0).name) \o Rest /\ failed' = failed /\ decls' = decls
    BY <1>4, Zenon DEF Advance
  <2> QED
    BY <1>1, <1>2, <2>1, <2>2, PlainStep
<1>5. CASE reportErrorAndThrow
  BY <1>1, <1>2, <1>5, ThrowStep DEF reportErrorAndThrow
<1> QED
  BY <1>4, <1>5, Zenon DEF parseIdent

\* A variable is one token.
LEMMA VarStep ==
  ASSUME Inv, VarExpr
  PROVE  Inv'
<1>1. stack # <<>> /\ Top.op = "var"
  BY Zenon DEF VarExpr, At
<1>2. Weight(Top) = 0 /\ ~Outer(Top)
  BY <1>1, NotOuter DEF Weight
<1>3. stack' = <<>> \o Rest /\ failed' = failed /\ decls' = decls
  BY DEF VarExpr, Advance
<1> QED
  BY <1>1, <1>2, <1>3, Code0, PlainStep

\* A call is replaced by the function's code.
LEMMA CallStep ==
  ASSUME Inv, Call
  PROVE  Inv'
<1>1. stack # <<>> /\ Top.op = "call" /\ Continue(Rules[Top.to])
  BY Zenon DEF Call, At
<1>2. Weight(Top) = 0
  BY <1>1 DEF Weight
<1>3. Top.to \in DOMAIN Rules
  BY <1>1, TopOf, Fields
<1>4. GoodCode(Rules[Top.to])
  BY <1>3, RulesGood, Zenon
<1>5. stack' = Rules[Top.to] \o Rest /\ failed' = failed /\ decls' = decls
  BY <1>1, Zenon DEF Continue
<1>6. ASSUME Outer(Top) PROVE \A i \in 1..Len(Rules[Top.to]) : Outer(Rules[Top.to][i])
  <2>1. Top = N("ProgramElement")
    BY <1>1, <1>6, OuterOps
  <2>2. Top.to = "ProgramElement"
    BY <2>1 DEF N
  <2>3. Rules[Top.to] = parseProgramElement
    BY <2>2 DEF Rules
  <2>4. Len(parseProgramElement) = 1
    BY DEF parseProgramElement
  <2>5. Outer(parseProgramElement[1])
    BY Zenon DEF Outer
  <2>6. \A i \in 1..1 : i = 1
    OBVIOUS
  <2> QED
    BY <2>3, <2>4, <2>5, <2>6, Zenon
<1> QED
  BY <1>1, <1>2, <1>4, <1>5, <1>6, PlainStep

\* Branches and loops continue with the code they hold.
LEMMA BranchStep ==
  ASSUME Inv, Branch
  PROVE  Inv'
<1>0. ASSUME stack # <<>>, Top.op \in {"branch", "loop", "until"}, NEW code, GoodCode(code), Continue(code),
             Outer(Top) => \A i \in 1..Len(code) : Outer(code[i])
      PROVE  Inv'
  <2>1. Weight(Top) = 0
    BY <1>0 DEF Weight
  <2>2. stack' = code \o Rest /\ failed' = failed /\ decls' = decls
    BY <1>0, Zenon DEF Continue
  <2> QED
    BY <1>0, <2>1, <2>2, PlainStep
<1>1. CASE At("branch") /\ Continue(IF peek(0).type \in Top.on THEN Top.yes ELSE Top.no)
  <2>1. stack # <<>> /\ Top.op = "branch"
    BY <1>1, Zenon DEF At
  <2>2. GoodCode(Top.yes) /\ GoodCode(Top.no) /\ ~Outer(Top)
    BY <2>1, TopOf, Fields, NotOuter
  <2>3. Continue(Top.yes) \/ Continue(Top.no)
    BY <1>1, Zenon
  <2> QED
    BY <1>0, <2>1, <2>2, <2>3
<1>2. CASE At("loop") /\ Continue(IF peek(0).type \in Top.on THEN Append(Top.body, Top) ELSE <<>>)
  <2>1. stack # <<>> /\ Top.op = "loop"
    BY <1>2, Zenon DEF At
  <2>2. GoodCode(Top.body) /\ ~Outer(Top) /\ Sound(Top) /\ Weight(Top) = 0
    BY <2>1, TopOf, Fields, NotOuter DEF Weight
  <2>3. GoodCode(Append(Top.body, Top))
    BY <2>2, AppendGood, Zenon DEF OK
  <2>4. Continue(Append(Top.body, Top)) \/ Continue(<<>>)
    BY <1>2, Zenon
  <2> QED
    BY <1>0, <2>1, <2>2, <2>3, <2>4, Code0
<1>3. CASE At("until") /\ Continue(IF peek(0).type \in Top.on THEN <<>> ELSE Append(Top.body, Top))
  <2>1. stack # <<>> /\ Top.op = "until"
    BY <1>3, Zenon DEF At
  <2>2. GoodCode(Top.body) /\ Sound(Top) /\ Weight(Top) = 0
    BY <2>1, TopOf, Fields DEF Weight
  <2>3. GoodCode(Append(Top.body, Top))
    BY <2>2, AppendGood, Zenon DEF OK
  <2>4. Continue(Append(Top.body, Top)) \/ Continue(<<>>)
    BY <1>3, Zenon
  <2>5. ASSUME Outer(Top) PROVE \A i \in 1..Len(Append(Top.body, Top)) : Outer(Append(Top.body, Top)[i])
    <3>1. Top = Until({"END"}, <<N("ProgramElement")>>)
      BY <2>1, <2>5, OuterOps
    <3>2. Top.body = <<N("ProgramElement")>>
      BY <3>1 DEF Until
    <3>3. ASSUME NEW x, NEW y, NEW b, b = <<x>>
          PROVE  Len(Append(b, y)) = 2 /\ Append(b, y)[1] = x /\ Append(b, y)[2] = y
      <4>1. b \in Seq({x, y}) /\ Len(b) = 1 /\ b[1] = x
        BY <3>3
      <4>0. PICK Y : b \in Seq(Y) /\ y \in Y
        BY <4>1, Zenon
      <4>2. /\ Len(Append(b, y)) = Len(b) + 1
            /\ \A i \in 1..Len(b) : Append(b, y)[i] = b[i]
            /\ Append(b, y)[Len(b) + 1] = y
        BY <4>0, AppendProperties
      <4> QED
        BY <4>1, <4>2
    <3>4. Outer(N("ProgramElement"))
      BY Zenon DEF Outer
    <3>05. /\ Len(Append(Top.body, Top)) = 2
           /\ Append(Top.body, Top)[1] = N("ProgramElement") /\ Append(Top.body, Top)[2] = Top
      BY <3>2, <3>3
    <3>5. PICK c : c = Append(Top.body, Top) /\ Len(c) = 2 /\ c[1] = N("ProgramElement") /\ c[2] = Top
      BY <3>05, Zenon
    <3>6. \A i \in 1..2 : i = 1 \/ i = 2
      OBVIOUS
    <3>7. \A i \in 1..Len(c) : Outer(c[i])
      BY <2>5, <3>4, <3>5, <3>6, Zenon
    <3> QED
      BY <3>5, <3>7, Zenon
  <2>6. Len(<<>>) = 0
    OBVIOUS
  <2>7. \A i \in 1..Len(<<>>) : Outer(<<>>[i])
    BY <2>6
  <2> QED
    BY <1>0, <2>1, <2>3, <2>4, <2>5, <2>7, Code0
<1> QED
  BY <1>1, <1>2, <1>3 DEF Branch

\* Entering and leaving a try block.
LEMMA CatchStep ==
  ASSUME Inv, Catch
  PROVE  Inv'
<1>0. InOrder(stack, Len(decls), failed)
  BY Zenon DEF Inv
<1> DEFINE c == [op |-> "catch", handler |-> Top.handler, level |-> Len(decls)]
<1>1. CASE At("try") /\ Continue(Append(Top.body, c))
  <2>1. stack # <<>> /\ Top.op = "try"
    BY <1>1, Zenon DEF At
  <2>2. Top = stack[1] /\ Known(Top) /\ Len(decls) \in Nat
    BY <2>1, TopOf
  <2>3. GoodCode(Top.body) /\ Top.handler \in Handlers /\ Weight(Top) = 0
    BY <2>1, <2>2, Fields DEF Weight
  <2>4. c.op = "catch" /\ c.handler = Top.handler /\ c.level = Len(decls)
    OBVIOUS
  <2>5. stack' = Append(Top.body, c) \o Tail(stack) /\ failed' = failed /\ decls' = decls
    BY <1>1, Zenon DEF Continue, Rest
  <2> HIDE DEF c
  <2>6. Clause(c)
    BY <2>2, <2>3, <2>4 DEF Clause
  <2>7. ASSUME Outer(Top) PROVE Outer(c)
    <3>1. Top = parseProgramElement[1]
      BY <2>1, <2>7, OuterOps
    <3>2. Top.handler = "element"
      BY <3>1 DEF parseProgramElement, Try
    <3> QED
      BY <3>2, <2>4, Zenon DEF Outer
  <2>8. InOrder(Append(Top.body, c) \o Tail(stack), Len(decls), failed)
    BY <1>0, <2>1, <2>2, <2>3, <2>4, <2>6, <2>7, PushTry
  <2> QED
    BY <2>5, <2>8, Zenon DEF Inv
<1>2. CASE At("catch") /\ Continue(<<>>)
  <2>1. stack # <<>> /\ Top.op = "catch"
    BY <1>2, Zenon DEF At
  <2>2. Weight(Top) = 0 /\ Len(<<>>) = 0
    BY <2>1 DEF Weight
  <2>3. stack' = <<>> \o Rest /\ failed' = failed /\ decls' = decls
    BY <1>2, Zenon DEF Continue
  <2>4. \A i \in 1..Len(<<>>) : Outer(<<>>[i])
    BY <2>2
  <2> QED
    BY <2>1, <2>2, <2>3, <2>4, Code0, PlainStep
<1> QED
  BY <1>1, <1>2, Zenon DEF Catch

\* Reporting an error, and throwing it again from parseFuncDecl's clause.
LEMMA ErrorStep ==
  ASSUME Inv, Error
  PROVE  Inv'
<1>1. CASE At("fail") /\ reportErrorAndThrow
  <2>1. stack # <<>> /\ Top.op = "fail"
    BY <1>1, Zenon DEF At
  <2>2. ~Outer(Top)
    BY <2>1, NotOuter
  <2> QED
    BY <1>1, <2>1, <2>2, ThrowStep DEF reportErrorAndThrow
<1>2. CASE At("rethrow") /\ UNCHANGED failed /\ Throw
  <2>1. stack # <<>> /\ Top.op = "rethrow"
    BY <1>2, Zenon DEF At
  <2>2. ~Outer(Top)
    BY <2>1, NotOuter
  <2>3. InOrder(stack, Len(decls), failed)
    BY Zenon DEF Inv
  <2>4. 1 \in 1..Len(stack) /\ Top = stack[1]
    BY <2>1, <2>3, Opened DEF Top
  <2>5. Recovering(stack)
    BY <2>1, <2>4 DEF Recovering
  <2>6. failed = TRUE
    BY <2>3, <2>5, Zenon DEF InOrder, Inv
  <2>7. failed' = TRUE
    BY <1>2, <2>6
  <2> QED
    BY <1>2, <2>1, <2>2, <2>7, ThrowStep
<1> QED
  BY <1>1, <1>2, Zenon DEF Error

\* Skipping tokens.
LEMMA SkipStep ==
  ASSUME Inv, skipTo
  PROVE  Inv'
<1>1. stack # <<>> /\ Top.op = "skip"
  BY Zenon DEF skipTo, At
<1>2. Weight(Top) = 0 /\ Sound(Top)
  BY <1>1, TopOf, Fields DEF Weight
<1>3. GoodCode(<<Top>>)
  BY <1>2, Code1, Zenon DEF OK
<1>4. CASE Continue(<<>>)
  <2>1. stack' = <<>> \o Rest /\ failed' = failed /\ decls' = decls
    BY <1>4, Zenon DEF Continue
  <2>2. Len(<<>>) = 0
    OBVIOUS
  <2>3. \A i \in 1..Len(<<>>) : Outer(<<>>[i])
    BY <2>2
  <2> QED
    BY <1>1, <1>2, <2>1, <2>3, Code0, PlainStep
<1>5. CASE Advance("no", <<Top>>)
  <2>1. stack' = <<Top>> \o Rest /\ failed' = failed /\ decls' = decls
    BY <1>5, Zenon DEF Advance
  <2>2. \A x : Len(<<x>>) = 1 /\ <<x>>[1] = x
    OBVIOUS
  <2>3. \A i \in 1..1 : i = 1
    OBVIOUS
  <2>4. Outer(Top) => \A i \in 1..Len(<<Top>>) : Outer(<<Top>>[i])
    BY <2>2, <2>3, Zenon
  <2> QED
    BY <1>1, <1>2, <1>3, <2>1, <2>4, PlainStep
<1> QED
  BY <1>4, <1>5, Zenon DEF skipTo

\* Changing the innermost scope leaves a symbol table of the same depth.
LEMMA FirstScope ==
  ASSUME NEW t \in Tables, t # <<>>, NEW f \in [Names -> Kinds]
  PROVE  [t EXCEPT ![1] = f] \in Tables /\ Len([t EXCEPT ![1] = f]) = Len(t)
<1>1. PICK n \in Nat : n = Len(t) /\ t \in [1..n -> [Names -> Kinds]]
  BY SeqParts, Zenon DEF Tables
<1>2. [t EXCEPT ![1] = f] \in [1..n -> [Names -> Kinds]]
  BY <1>1
<1> QED
  BY <1>1, <1>2, FunctionIsSeq, Zenon DEF Tables

\* The symbol table is never empty when an instruction is left.
LEMMA TableDepth ==
  ASSUME Inv, stack # <<>>
  PROVE  /\ decls \in Tables /\ Len(decls) \in Nat /\ Len(decls) >= 1 + Weight(Top) /\ Len(decls) >= 1
         /\ decls # <<>> /\ decls[1] \in [Names -> Kinds]
<1>1. InOrder(stack, Len(decls), failed) /\ decls \in Tables
  BY Zenon DEF Inv
<1>2. Top = stack[1] /\ Len(decls) \in Nat /\ Len(stack) \in Nat
  BY TopOf, Zenon
<1>3. 1 \in 1..Len(stack)
  BY <1>1, Opened
<1>4. PICK h : Fit(h, stack, Len(decls))
  BY <1>1, Zenon DEF InOrder
<1>5. PICK n \in Nat : n = Len(stack) /\ 1 \in 1..n
  BY <1>2, <1>3, Zenon
<1>6. 1 + 1 = 2 /\ 2 \in 1..(n + 1) /\ 1 \in 1..(n + 1)
  BY <1>5
<1>7. /\ h \in [1..(n + 1) -> Int] /\ h[1] = Weight(stack[1]) + h[2]
      /\ \A i \in 1..(n + 1) : h[i] >= 0
      /\ Len(decls) >= 1 + h[1]
  BY <1>4, <1>5, <1>6, Zenon DEF Fit, IsHeight
<1>8. Len(decls) >= 1 + Weight(Top) /\ Len(decls) >= 1
  BY <1>2, <1>6, <1>7, WeightType
<1>9. 1 \in 1..Len(decls)
  BY <1>2, <1>8
<1>10. decls[1] \in [Names -> Kinds]
  BY <1>1, <1>9, SeqParts, ZenonT(60) DEF Tables
<1>11. decls # <<>>
  BY <1>2, <1>8, EmptySeq
<1> QED
  BY <1>1, <1>2, <1>8, <1>10, <1>11

\* An update of the symbol table by the instruction's weight.
LEMMA UpdateStep ==
  ASSUME Inv, stack # <<>>, ~Outer(Top), NEW t \in Tables, Len(t) = Len(decls) - Weight(Top), Update(t)
  PROVE  Inv'
<1>1. decls' = t /\ stack' = Rest /\ failed' = failed
  BY DEF Update
<1>2. stack' = <<>> \o Rest
  BY <1>1, TopOf, Zenon
<1> QED
  BY <1>1, <1>2, Code0, PushStep

\* Scopes are opened and closed, names inserted, and scopes given back.
LEMMA SymbolsStep ==
  ASSUME Inv, Symbols
  PROVE  Inv'
<1>1. CASE At("scope") /\ Update(<<NewScope>> \o decls)
  <2>1. stack # <<>> /\ Top.op = "scope"
    BY <1>1, Zenon DEF At
  <2>2. Weight(Top) = -1 /\ ~Outer(Top)
    BY <2>1, NotOuter DEF Weight
  <2>3. NewScope \in [Names -> Kinds]
    BY DEF NewScope, Kinds
  <2>4. decls \in Seq([Names -> Kinds]) /\ Len(decls) \in Nat
    BY <2>1, TableDepth, Zenon DEF Tables
  <2>5. <<NewScope>> \in Seq([Names -> Kinds]) /\ Len(<<NewScope>>) = 1
    BY <2>3
  <2>6. <<NewScope>> \o decls \in Tables /\ Len(<<NewScope>> \o decls) = 1 + Len(decls)
    BY <2>4, <2>5, ConcatProperties, Zenon DEF Tables
  <2>7. Len(<<NewScope>> \o decls) = Len(decls) - Weight(Top)
    BY <2>2, <2>4, <2>6
  <2> QED
    BY <1>1, <2>1, <2>2, <2>6, <2>7, UpdateStep
<1>2. CASE At("unscope") /\ Update(Tail(decls))
  <2>1. stack # <<>> /\ Top.op = "unscope"
    BY <1>2, Zenon DEF At
  <2>2. Weight(Top) = 1 /\ ~Outer(Top)
    BY <2>1, NotOuter DEF Weight
  <2>3. decls \in Seq([Names -> Kinds]) /\ Len(decls) \in Nat /\ decls # <<>>
    BY <2>1, TableDepth, Zenon DEF Tables
  <2>4. Tail(decls) \in Tables /\ Len(Tail(decls)) = Len(decls) - 1
    BY <2>3, HeadTailProperties, Zenon DEF Tables
  <2>5. Len(Tail(decls)) = Len(decls) - Weight(Top)
    BY <2>2, <2>4, Zenon
  <2> QED
    BY <1>2, <2>1, <2>2, <2>4, <2>5, UpdateStep
<1>3. CASE At("insert") /\ Update([decls EXCEPT ![1][Top.name] = Top.kind])
  <2>1. stack # <<>> /\ Top.op = "insert"
    BY <1>3, Zenon DEF At
  <2>2. Weight(Top) = 0 /\ ~Outer(Top) /\ Top.kind \in Kinds
    BY <2>1, NotOuter, TopOf, Fields DEF Weight
  <2>3. decls \in Tables /\ Len(decls) \in Nat /\ decls # <<>> /\ decls[1] \in [Names -> Kinds]
    BY <2>1, TableDepth, Zenon
  <2>4. PICK f \in [Names -> Kinds] : f = [decls[1] EXCEPT ![Top.name] = Top.kind]
    BY <2>2, <2>3
  <2>5. [decls EXCEPT ![1][Top.name] = Top.kind] = [decls EXCEPT ![1] = f]
    BY <2>4
  <2>6. [decls EXCEPT ![1] = f] \in Tables /\ Len([decls EXCEPT ![1] = f]) = Len(decls)
    BY <2>3, FirstScope
  <2>7. Len([decls EXCEPT ![1] = f]) = Len(decls) - Weight(Top)
    BY <2>2, <2>3, <2>6
  <2>8. Update([decls EXCEPT ![1] = f])
    BY <1>3, <2>5, Zenon
  <2> QED
    BY <2>1, <2>2, <2>6, <2>7, <2>8, UpdateStep
<1>4. CASE At("restore") /\ Update(SubSeq(decls, Len(decls) - Top.level + 1, Len(decls)))
  <2>1. stack # <<>> /\ Top.op = "restore"
    BY <1>4, Zenon DEF At
  <2>2. Top = stack[1] /\ <<>> \o Rest = Rest
    BY <2>1, TopOf, Zenon
  <2>3. decls \in Seq([Names -> Kinds]) /\ Len(decls) \in Nat /\ InOrder(stack, Len(decls), failed)
    BY <2>1, TableDepth, Zenon DEF Tables, Inv
  <2>4. /\ stack[1].level \in Int /\ stack[1].level >= 1 /\ stack[1].level <= Len(decls)
        /\ InOrder(<<>> \o Tail(stack), stack[1].level, failed)
    BY <2>1, <2>2, <2>3, PopRestore
  <2>5. PICK v \in Int, d \in Nat : v = Top.level /\ d = Len(decls) /\ 1 <= v /\ v <= d
    BY <2>2, <2>3, <2>4, Zenon
  <2>6. d - v + 1 \in Int /\ d \in Int /\ d - v + 1 <= d /\ d - (d - v + 1) + 1 = v
        /\ \A i \in (d - v + 1)..d : i \in 1..d
    BY <2>5
  <2>7. \A i \in 1..d : decls[i] \in [Names -> Kinds]
    BY <2>3, <2>5, SeqParts, ZenonT(60)
  <2>8. SubSeq(decls, d - v + 1, d) \in Seq([Names -> Kinds]) /\ Len(SubSeq(decls, d - v + 1, d)) = v
    <3>1. PICK w \in Int : w = d - v + 1 /\ w <= d /\ d - w + 1 = v /\ \A i \in w..d : decls[i] \in [Names -> Kinds]
      BY <2>6, <2>7
    <3>2. /\ SubSeq(decls, w, d) \in Seq([Names -> Kinds])
          /\ Len(SubSeq(decls, w, d)) = IF w <= d THEN d - w + 1 ELSE 0
      BY <2>6, <3>1, SubSeqProperties, Zenon
    <3> QED
      BY <3>1, <3>2, Zenon
  <2>9. decls' = SubSeq(decls, d - v + 1, d) /\ stack' = Rest /\ failed' = failed
    BY <1>4, <2>5, Zenon DEF Update
  <2>10. decls' \in Tables /\ Len(decls') = v
    BY <2>8, <2>9, Zenon DEF Tables
  <2>11. InOrder(stack', Len(decls'), failed')
    BY <2>2, <2>4, <2>5, <2>9, <2>10, Zenon DEF Rest
  <2> QED
    BY <2>9, <2>10, <2>11, Zenon DEF Inv
<1> QED
  BY <1>1, <1>2, <1>3, <1>4, Zenon DEF Symbols

\* Assignments declare the names they assign.
LEMMA AssignStep ==
  ASSUME Inv, Assign
  PROVE  Inv'
<1>1. CASE At("lhs") /\ stack' = Rest /\ lhs' = "start" /\ UNCHANGED <<alphabet, left, look, decls, failed>>
  <2>1. stack # <<>> /\ Top.op = "lhs"
    BY <1>1, Zenon DEF At
  <2>2. Weight(Top) = 0 /\ ~Outer(Top)
    BY <2>1, NotOuter DEF Weight
  <2>3. stack' = <<>> \o Rest /\ failed' = failed /\ decls' = decls
    BY <1>1, <2>1, TopOf
  <2> QED
    BY <2>1, <2>2, <2>3, Code0, PlainStep
<1>2. ASSUME At("assign"), NEW names, NEW code, Continue(code),
             \/ code = <<T("COMMA"), Special("lhs"), N("Expr"), [op |-> "assign", names |-> names]>>
             \/ code = <<T("ASSIGN"), N("Expr"), [op |-> "declare", names |-> names]>>
      PROVE  Inv'
  <2>1. stack # <<>> /\ Top.op = "assign"
    BY <1>2, Zenon DEF At
  <2>2. Weight(Top) = 0 /\ ~Outer(Top)
    BY <2>1, NotOuter DEF Weight
  <2>3. stack' = code \o Rest /\ failed' = failed /\ decls' = decls
    BY <1>2, Zenon DEF Continue
  <2>4. GoodCode(<<T("COMMA"), Special("lhs"), N("Expr"), [op |-> "assign", names |-> names]>>)
    BY Calls, Specials, OKConsume, OKAssign, Code4, Zenon
  <2>5. GoodCode(<<T("ASSIGN"), N("Expr"), [op |-> "declare", names |-> names]>>)
    BY Calls, OKConsume, OKAssign, Code3, Zenon
  <2>6. GoodCode(code)
    BY <1>2, <2>4, <2>5, Zenon
  <2> QED
    BY <2>1, <2>2, <2>3, <2>6, PlainStep
<1>3. CASE /\ At("declare")
           /\ Update([decls EXCEPT ![1] =
                        [n \in Names |-> IF n \in Top.names /\ ~contains(n) THEN "OTHER" ELSE @[n]]])
  <2>1. stack # <<>> /\ Top.op = "declare"
    BY <1>3, Zenon DEF At
  <2>2. Weight(Top) = 0 /\ ~Outer(Top)
    BY <2>1, NotOuter DEF Weight
  <2>3. decls \in Tables /\ Len(decls) \in Nat /\ decls # <<>> /\ decls[1] \in [Names -> Kinds]
    BY <2>1, TableDepth, Zenon
  <2> DEFINE f == [n \in Names |-> IF n \in Top.names /\ ~contains(n) THEN "OTHER" ELSE decls[1][n]]
  <2>4. f \in [Names -> Kinds]
    BY <2>3 DEF Kinds
  <2>5. Update([decls EXCEPT ![1] = f])
    BY <1>3
  <2> HIDE DEF f
  <2>6. [decls EXCEPT ![1] = f] \in Tables /\ Len([decls EXCEPT ![1] = f]) = Len(decls)
    BY <2>3, <2>4, FirstScope
  <2>7. Len([decls EXCEPT ![1] = f]) = Len(decls) - Weight(Top)
    BY <2>2, <2>3, <2>6
  <2> QED
    BY <2>1, <2>2, <2>5, <2>6, <2>7, UpdateStep
<1> QED
  BY <1>1, <1>2, <1>3, Zenon DEF Assign

\* The functions that look further ahead continue with good code.
LEMMA LookaheadStep ==
  ASSUME Inv, Lookahead
  PROVE  Inv'
<1>0. ASSUME NEW o \in {"extern", "zero", "domain", "ident", "tuple", "edges", "signed"}, At(o),
             NEW code, GoodCode(code), Continue(code)
      PROVE  Inv'
  <2>1. stack # <<>> /\ Top.op = o
    BY <1>0, Zenon DEF At
  <2>2. Weight(Top) = 0 /\ ~Outer(Top)
    BY <2>1, NotOuter DEF Weight
  <2>3. stack' = code \o Rest /\ failed' = failed /\ decls' = decls
    BY <1>0, Zenon DEF Continue
  <2> QED
    BY <1>0, <2>1, <2>2, <2>3, PlainStep
<1>1. ASSUME At("extern"),
             Continue(IF peek(1).type = "FUNC" THEN <<N("ExternFuncDecl")>> ELSE <<N("ExternDecl")>>)
      PROVE  Inv'
  <2>1. GoodCode(<<N("ExternFuncDecl")>>) /\ GoodCode(<<N("ExternDecl")>>)
    BY Calls, Code1, Zenon
  <2>2. Continue(<<N("ExternFuncDecl")>>) \/ Continue(<<N("ExternDecl")>>)
    BY <1>1, Zenon
  <2> QED
    BY <1>0, <1>1, <2>1, <2>2
<1>2. ASSUME At("zero"),
             Continue(IF peek(0).type = "INT_LITERAL" /\ peek(0).name = "0"
                      THEN <<T("INT_LITERAL"), T("COL"), Bind(<<Ins("RANGE_GENERIC_PARAM")>>)>>
                      ELSE <<Bind(<<Ins("GENERIC_PARAM")>>)>>)
      PROVE  Inv'
  <2>1. OK(Ins("RANGE_GENERIC_PARAM")) /\ OK(Ins("GENERIC_PARAM"))
    BY OKInsert DEF Kinds
  <2>2. OK(Bind(<<Ins("RANGE_GENERIC_PARAM")>>)) /\ OK(Bind(<<Ins("GENERIC_PARAM")>>))
    BY <2>1, Code1, OKBody, Zenon
  <2>3. /\ GoodCode(<<T("INT_LITERAL"), T("COL"), Bind(<<Ins("RANGE_GENERIC_PARAM")>>)>>)
        /\ GoodCode(<<Bind(<<Ins("GENERIC_PARAM")>>)>>)
    BY <2>2, OKConsume, Code1, Code3, Zenon
  <2>4. \/ Continue(<<T("INT_LITERAL"), T("COL"), Bind(<<Ins("RANGE_GENERIC_PARAM")>>)>>)
        \/ Continue(<<Bind(<<Ins("GENERIC_PARAM")>>)>>)
    BY <1>2, Zenon
  <2> QED
    BY <1>0, <1>2, <2>3, <2>4
<1>3. ASSUME At("domain"),
             Continue(IF peek(0).type = "IDENT" /\ peek(1).type # "COL"
                      THEN <<Ident>> ELSE <<N("Expr"), T("COL"), N("Expr")>>)
      PROVE  Inv'
  <2>1. GoodCode(<<Ident>>) /\ GoodCode(<<N("Expr"), T("COL"), N("Expr")>>)
    BY Calls, OKConsume, Code1, Code3, Zenon DEF Ident
  <2>2. Continue(<<Ident>>) \/ Continue(<<N("Expr"), T("COL"), N("Expr")>>)
    BY <1>3, Zenon
  <2> QED
    BY <1>0, <1>3, <2>1, <2>2
<1>4. ASSUME NEW o \in {"ident", "tuple"}, At(o),
             NEW f \in {"CallExpr", "RangeConst", "UnnamedTupleReadExpr", "NamedTupleReadExpr", "VarExpr",
                        "NamedTupleType", "UnnamedTupleType"}, Continue(<<N(f)>>)
      PROVE  Inv'
  <2>1. OK(N(f))
    BY Calls
  <2>2. GoodCode(<<N(f)>>)
    BY <2>1, Code1, Zenon
  <2> QED
    BY <1>0, <1>4, <2>2
<1>5. ASSUME At("edges"),
             Continue(IF peek(2).type = "STAR" /\ peek(0).type = "LP"
                      THEN <<T("LP")>> \o parseSetIndexSet \o <<T("STAR")>> \o parseTupleLength \o <<T("RP")>>
                      ELSE <<Opt("LP", parseEndpoints \o <<T("RP")>>)>>)
      PROVE  Inv'
  <2>1. GoodCode(<<T("LP")>> \o parseSetIndexSet \o <<T("STAR")>> \o parseTupleLength \o <<T("RP")>>)
    BY OKConsume, Code1, ConcatCode, Zenon DEF parseSetIndexSet, Ident, parseTupleLength
  <2>2. GoodCode(parseEndpoints \o <<T("RP")>>)
    BY OKConsume, OKBody, Code1, ConcatCode, Zenon DEF parseEndpoints, parseSetIndexSet, Ident
  <2>3. GoodCode(<<Opt("LP", parseEndpoints \o <<T("RP")>>)>>)
    BY <2>2, OKConsume, OKBranch, Code0, Code1, ConcatCode, Zenon DEF Opt
  <2>4. \/ Continue(<<T("LP")>> \o parseSetIndexSet \o <<T("STAR")>> \o parseTupleLength \o <<T("RP")>>)
        \/ Continue(<<Opt("LP", parseEndpoints \o <<T("RP")>>)>>)
    BY <1>5, Zenon
  <2> QED
    BY <1>0, <1>5, <2>1, <2>3, <2>4
<1>6. ASSUME At("signed"),
             Continue(CASE peek(1).type = "INT_LITERAL" -> <<N("DenseIntVectorLiteral")>>
                        [] peek(1).type = "FLOAT_LITERAL" -> <<N("DenseFloatVectorLiteral")>>
                        [] OTHER -> <<Fail>>)
      PROVE  Inv'
  <2>1. GoodCode(<<N("DenseIntVectorLiteral")>>) /\ GoodCode(<<N("DenseFloatVectorLiteral")>>) /\ GoodCode(<<Fail>>)
    BY Calls, OKError, Code1, Zenon
  <2>2. PICK t : t = peek(1).type
    OBVIOUS
  <2>3. PICK code : /\ Continue(code)
                    /\ code = CASE t = "INT_LITERAL" -> <<N("DenseIntVectorLiteral")>>
                                [] t = "FLOAT_LITERAL" -> <<N("DenseFloatVectorLiteral")>>
                                [] OTHER -> <<Fail>>
    BY <1>6, <2>2, Zenon
  <2>4. code \in {<<N("DenseIntVectorLiteral")>>, <<N("DenseFloatVectorLiteral")>>, <<Fail>>}
    BY <2>3
  <2>5. GoodCode(code)
    BY <2>1, <2>4, Zenon
  <2> QED
    BY <1>0, <1>6, <2>3, <2>5
<1>7. ASSUME At("ident"),
             NEW a, NEW b, NEW c, NEW d,
             Continue(<<N(IF a THEN "CallExpr" ELSE IF b THEN "RangeConst" ELSE IF c THEN "UnnamedTupleReadExpr"
                          ELSE IF d THEN "NamedTupleReadExpr" ELSE "VarExpr")>>)
      PROVE  Inv'
  <2>1. PICK f : f = (IF a THEN "CallExpr" ELSE IF b THEN "RangeConst" ELSE IF c THEN "UnnamedTupleReadExpr"
                      ELSE IF d THEN "NamedTupleReadExpr" ELSE "VarExpr")
    OBVIOUS
  <2>2. f \in {"CallExpr", "RangeConst", "UnnamedTupleReadExpr", "NamedTupleReadExpr", "VarExpr",
                        "NamedTupleType", "UnnamedTupleType"}
    BY <2>1
  <2>3. Continue(<<N(f)>>)
    BY <1>7, <2>1, Zenon
  <2> QED
    BY <1>4, <1>7, <2>2, <2>3
<1>8. ASSUME At("tuple"),
             Continue(<<N(IF peek(2).type = "COL" THEN "NamedTupleType" ELSE "UnnamedTupleType")>>)
      PROVE  Inv'
  <2>1. PICK f : f = IF peek(2).type = "COL" THEN "NamedTupleType" ELSE "UnnamedTupleType"
    OBVIOUS
  <2>2. f \in {"CallExpr", "RangeConst", "UnnamedTupleReadExpr", "NamedTupleReadExpr", "VarExpr",
                        "NamedTupleType", "UnnamedTupleType"}
    BY <2>1
  <2>3. Continue(<<N(f)>>)
    BY <1>8, <2>1, Zenon
  <2> QED
    BY <1>4, <1>8, <2>2, <2>3
<1> QED
  BY <1>1, <1>2, <1>3, <1>5, <1>6, <1>7, <1>8, Zenon DEF Lookahead

-------------------------------------------------------------------------------
(* The theorems.                                                           *)

\* The parser starts with parseProgram and the global scope.
LEMMA InitInv == Init => Inv
<1> SUFFICES ASSUME Init PROVE Inv
  OBVIOUS
<1> DEFINE x == Until({"END"}, <<N("ProgramElement")>>)
           d == [n \in Names |-> IF n \in Intrinsics THEN "FUNCTION" ELSE "none"]
<1>1. stack = <<x>> /\ decls = <<d>> /\ failed = FALSE
  BY Zenon DEF Init, parseProgram
<1>2. d \in [Names -> Kinds]
  BY DEF Kinds
<1>3. OK(x) /\ Outer(x)
  BY Calls, Code1, OKBody, Zenon DEF Outer
<1>4. x.op = "until"
  BY DEF Until
<1> HIDE DEF x, d
<1>5. decls \in Tables /\ Len(decls) = 1
  BY <1>1, <1>2 DEF Tables
<1>6. stack \in Seq({x}) /\ Len(stack) = 1 /\ stack[1] = x
  BY <1>1
<1>7. \A i \in 1..1 : i = 1
  OBVIOUS
<1>8. Known(x) /\ ~Marked(x) /\ Weight(x) = 0
  BY <1>3, <1>4 DEF Known, Marked, OK
<1>9. Arranged(stack)
  BY <1>3, <1>6, <1>7, <1>8, Zenon DEF Arranged, Caught
<1>10. ~Recovering(stack)
  BY <1>4, <1>6 DEF Recovering
<1> DEFINE h == [i \in 1..2 |-> 0]
<1>11. h \in [1..2 -> Int] /\ h[1] = 0 /\ h[2] = 0 /\ 1 + 1 = 2 /\ (\A i \in 1..2 : h[i] >= 0) /\ 1 >= 1 + 0 /\ 1 = 1 + 0 /\ 0 = 0 + 0
  OBVIOUS
<1> HIDE DEF h
<1>12. IsHeight(h, stack)
  BY <1>6, <1>7, <1>8, <1>11, Zenon DEF IsHeight
<1>13. stack[1].op # "catch"
  BY <1>4, <1>6
<1>14. Fit(h, stack, 1)
  BY <1>6, <1>7, <1>8, <1>11, <1>12, <1>13, Zenon DEF Fit
<1>15. InOrder(stack, Len(decls), failed)
  BY <1>5, <1>9, <1>10, <1>11, <1>14, Zenon DEF InOrder
<1> QED
  BY <1>1, <1>5, <1>15 DEF Inv

\* Every step keeps the stack in order with the symbol table.
LEMMA StepInv == Inv /\ [Next]_vars => Inv'
<1> SUFFICES ASSUME Inv, [Next]_vars PROVE Inv'
  OBVIOUS
<1>1. CASE Scan
  BY <1>1 DEF Inv, Scan
<1>2. CASE UNCHANGED vars
  BY <1>2 DEF Inv, vars
<1> QED
  BY <1>1, <1>2, ConsumeStep, IdentStep, VarStep, CallStep, BranchStep, CatchStep, ErrorStep, SkipStep,
     SymbolsStep, AssignStep, LookaheadStep, Zenon DEF Next

\* However the tokens come and whatever errors are recovered from, what is
\* left to do closes no scope that is not there, everything that may throw is
\* caught, and a catch clause never finds fewer scopes than it recorded.
THEOREM StackStaysInOrder == Spec => []Inv
BY InitInv, StepInv, PTL DEF Spec

\* The height of a stack is the scopes it closes less those it opens.
LEMMA HeightCounts ==
  ASSUME NEW V, NEW s \in Seq(V), NEW h, IsHeight(h, s)
  PROVE  Cardinality({i \in DOMAIN s : s[i].op = "unscope"}) - Cardinality({i \in DOMAIN s : s[i].op = "scope"}) = h[1]
<1>1. PICK n \in Nat : n = Len(s) /\ DOMAIN s = 1..n
  BY SeqParts, Zenon
<1>2. h \in [1..(n + 1) -> Int] /\ h[n + 1] = 0 /\ \A i \in 1..n : h[i] = Weight(s[i]) + h[i + 1]
  BY <1>1, Zenon DEF IsHeight
<1> DEFINE A(o, j) == {i \in j..n : s[i].op = o}
           P(j) == /\ IsFiniteSet(A("unscope", j)) /\ IsFiniteSet(A("scope", j))
                   /\ Cardinality(A("unscope", j)) - Cardinality(A("scope", j)) = h[j]
           S == {d \in Nat : d <= n => P(n + 1 - d)}
<1>3. 0 \in S
  <2>1. A("unscope", n + 1) = {} /\ A("scope", n + 1) = {}
    OBVIOUS
  <2>2. IsFiniteSet({}) /\ Cardinality({}) = 0
    BY FS_EmptySet, Zenon
  <2>3. n + 1 - 0 = n + 1
    OBVIOUS
  <2>4. P(n + 1)
    <3> HIDE DEF A
    <3>1. Cardinality(A("unscope", n + 1)) = 0 /\ Cardinality(A("scope", n + 1)) = 0
          /\ IsFiniteSet(A("unscope", n + 1)) /\ IsFiniteSet(A("scope", n + 1))
      BY <2>1, <2>2, Zenon
    <3> QED
      BY <1>2, <3>1
  <2> QED
    BY <2>3, <2>4
<1>4. ASSUME NEW o, NEW j \in 1..n, IsFiniteSet(A(o, j + 1))
      PROVE  /\ IsFiniteSet(A(o, j))
             /\ Cardinality(A(o, j + 1)) \in Nat
             /\ Cardinality(A(o, j)) = Cardinality(A(o, j + 1)) + (IF s[j].op = o THEN 1 ELSE 0)
  <2>1. Cardinality(A(o, j + 1)) \in Nat
    BY <1>4, FS_CardinalityType
  <2>2. CASE s[j].op = o
    <3>1. A(o, j) = A(o, j + 1) \union {j} /\ j \notin A(o, j + 1)
      BY <2>2
    <3>2. /\ IsFiniteSet(A(o, j + 1) \union {j})
          /\ Cardinality(A(o, j + 1) \union {j}) =
               IF j \in A(o, j + 1) THEN Cardinality(A(o, j + 1)) ELSE Cardinality(A(o, j + 1)) + 1
      BY <1>4, FS_AddElement
    <3> HIDE DEF A
    <3> QED
      BY <2>1, <2>2, <3>1, <3>2
  <2>3. CASE s[j].op # o
    <3>1. A(o, j) = A(o, j + 1)
      BY <2>3
    <3> HIDE DEF A
    <3> QED
      BY <1>4, <2>1, <2>3, <3>1
  <2> QED
    BY <2>2, <2>3
<1>5. ASSUME NEW d \in Nat, d \in S PROVE d + 1 \in S
  <2> HIDE DEF P
  <2>0. d + 1 \in Nat
    OBVIOUS
  <2> SUFFICES ASSUME d + 1 <= n PROVE P(n + 1 - (d + 1))
    BY <2>0, Zenon
  <2>1. PICK j \in 1..n : j = n + 1 - (d + 1) /\ j + 1 = n + 1 - d /\ d <= n
    <3>1. n + 1 - (d + 1) \in 1..n /\ (n + 1 - (d + 1)) + 1 = n + 1 - d /\ d <= n
      OBVIOUS
    <3> QED
      BY <3>1, Zenon
  <2>2. P(j + 1)
    BY <1>5, <2>1, Zenon
  <2>3. h[j] = Weight(s[j]) + h[j + 1] /\ h[j + 1] \in Int
    BY <1>2
  <2> HIDE DEF A
  <2>4. /\ IsFiniteSet(A("unscope", j)) /\ Cardinality(A("unscope", j + 1)) \in Nat
        /\ Cardinality(A("unscope", j)) = Cardinality(A("unscope", j + 1)) + (IF s[j].op = "unscope" THEN 1 ELSE 0)
    BY <1>4, <2>2 DEF P
  <2>5. /\ IsFiniteSet(A("scope", j)) /\ Cardinality(A("scope", j + 1)) \in Nat
        /\ Cardinality(A("scope", j)) = Cardinality(A("scope", j + 1)) + (IF s[j].op = "scope" THEN 1 ELSE 0)
    BY <1>4, <2>2 DEF P
  <2>6. P(j)
    BY SMTT(60), <2>2, <2>3, <2>4, <2>5 DEF P, Weight
  <2> QED
    BY <2>1, <2>6, Zenon
<1>6. \A d \in Nat : d \in S
  <2> HIDE DEF S
  <2> QED
    BY <1>3, <1>5, InductionOnNat
<1>7. n <= n /\ n + 1 - n = 1
  OBVIOUS
<1>8. n \in S
  BY <1>6, Zenon
<1>9. P(1)
  <2> HIDE DEF P
  <2>1. P(n + 1 - n)
    BY <1>7, <1>8, Zenon
  <2> QED
    BY <1>7, <2>1, Zenon
<1> QED
  BY <1>1, <1>9

\* However many errors were recovered from, every function still running
\* finds its scopes in the symbol table: no unscope of parser.cpp takes the
\* global scope away, and parseFuncDecl's catch clause reaches its level.
THEOREM ScopesAlwaysCover == Spec => []ScopesCoverPending
<1>1. Inv => ScopesCoverPending
  <2> SUFFICES ASSUME Inv PROVE ScopesCoverPending
    OBVIOUS
  <2>1. PICK h : Fit(h, stack, Len(decls))
    BY Zenon DEF Inv, InOrder
  <2>2. PICK V : stack \in Seq(V)
    BY Zenon DEF Inv, InOrder, Arranged
  <2>3. IsHeight(h, stack) /\ Len(decls) >= 1 + h[1]
    BY <2>1, Zenon DEF Fit
  <2>4. OpenScopes = h[1]
    BY <2>2, <2>3, HeightCounts DEF OpenScopes, Count
  <2> QED
    BY <2>3, <2>4 DEF ScopesCoverPending
<1> QED
  BY <1>1, StackStaysInOrder, PTL

\* Until an error is reported, the symbol table has exactly the scopes that
\* the functions on the call stack still have to close.
THEOREM AcceptedScopesAlwaysClosed == Spec => []AcceptedScopesClosed
<1>1. Inv => AcceptedScopesClosed
  <2> SUFFICES ASSUME Inv, ~failed PROVE Len(decls) = 1 + OpenScopes
    BY Zenon DEF AcceptedScopesClosed
  <2>1. PICK h : Fit(h, stack, Len(decls)) /\ Len(decls) = 1 + h[1]
    BY Zenon DEF Inv, InOrder
  <2>2. PICK V : stack \in Seq(V)
    BY Zenon DEF Inv, InOrder, Arranged
  <2>3. IsHeight(h, stack)
    BY <2>1, Zenon DEF Fit
  <2>4. OpenScopes = h[1]
    BY <2>2, <2>3, HeightCounts DEF OpenScopes, Count
  <2> QED
    BY <2>1, <2>4
<1> QED
  BY <1>1, StackStaysInOrder, PTL

=============================================================================
