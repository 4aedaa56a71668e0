------------------------------- MODULE Frontend --------------------------------
(***************************************************************************)
(* The front end after the parser (src/frontend/frontend.cpp): the passes  *)
(* of FrontendPasses, the cloning of generic functions                     *)
(* (clone_generic_functions.cpp), type checking and, if no pass reported   *)
(* an error, IR generation.  Elements are handled one at a time, clones    *)
(* one call site at a time.  An element is named by its place in the       *)
(* program, a clone and an intrinsic by its name.                          *)
(*                                                                         *)
(* The driver is given its two large passes and the intrinsics: they are   *)
(* TypeCheckElement of TypeRules, EmitElement of IREmitter and intrinsics  *)
(* of FrontendPasses.                                                      *)
(***************************************************************************)
EXTENDS FrontendPasses

CONSTANTS Programs,     \* the programs parsed: sequences of elements
          MaxClones,    \* a bound on the clones of one program
          Intrinsics,   \* the intrinsic functions by name
          TypeCheck(_, _),   \* the checker after an element
          GenerateIR(_, _)   \* the emitter after an element

ASSUME BoundAssumption == MaxClones \in Nat
ASSUME IntrinsicsAssumption == Intrinsics = intrinsics

VARIABLES source,       \* the program as parsed
          phase,        \* the pass that runs
          elems,        \* Program::elems
          decls,        \* the elements
          todo,         \* the elements the pass has left
          cloning,      \* CloneGenericFunctions: the functions being visited, each with its call sites left,
                        \* and where the clones go
          checker,      \* the state of the checks
          emitter       \* the state of the emitter

vars == <<source, phase, elems, decls, todo, cloning, checker, emitter>>

NewChecker(errors) ==
  [decls |-> decls @@ Intrinsics, funcs |-> [name \in DOMAIN Intrinsics |-> name], repl |-> <<>>, elems |-> <<>>,
   scopes |-> <<<<>>>>, defs |-> <<>>, errors |-> errors, ok |-> TRUE, skip |-> FALSE, allow |-> FALSE, has |-> FALSE,
   types |-> <<>>, inst |-> <<>>, calls |-> <<>>, aborts |-> {}]

\* The context knows the intrinsics by their names (ir::intrinsics::byNames).
NewEmitter(all) ==
  [decls |-> all, syms |-> <<<<>>>>, sets |-> {}, setElems |-> <<>>, stmts |-> <<>>, calls |-> <<>>, tmp |-> 0,
   funcs |-> [name \in {f \in DOMAIN Intrinsics : Intrinsics[f].kids.genericParams = <<>>} |->
                [i \in DOMAIN Intrinsics[name].kids.results |-> emitType(K(Intrinsics[name].kids.results[i], "type"))]],
   bodies |-> <<>>, elems |-> <<>>, ivars |-> {}, indexVars |-> <<>>, index |-> FALSE, types |-> <<>>, aborts |-> {}]

IdOf(i) == ToString(i)

Init ==
  \E program \in Programs :
    LET ids == [i \in DOMAIN program |-> IdOf(i)]
        all == [id \in Range(ids) |-> program[CHOOSE i \in DOMAIN program : ids[i] = id]]
    IN  /\ source = all /\ phase = "fold" /\ elems = ids /\ decls = all /\ todo = <<>>
        /\ cloning = <<>> /\ checker = <<>> /\ emitter = <<>>

Fold ==
  /\ phase = "fold" /\ phase' = "constants"
  /\ decls' = [id \in DOMAIN decls |-> Folded(decls[id])]
  /\ UNCHANGED <<source, elems, todo, cloning, checker, emitter>>

CheckConstants ==
  /\ phase = "constants" /\ phase' = "sources"
  /\ checker' = NewChecker(When(\E i \in DOMAIN elems : NotLiteral(decls[elems[i]]), "literal"))
  /\ UNCHANGED <<source, elems, decls, todo, cloning, emitter>>

-------------------------------------------------------------------------------
(* CloneGenericFunctions.                                                  *)

Sites(n) == Paths(n, {"CallExpr", "ReducedMapExpr", "UnreducedMapExpr"})
IsGeneric(n) == n.class = "FuncDecl" /\ n.kids.genericParams # <<>>
FuncName(n) == K(n, "name").data.ident

GenericByName(all) ==
  LET generic == {id \in DOMAIN all : IsGeneric(all[id])}
  IN  [name \in {FuncName(all[id]) : id \in generic} |-> CHOOSE id \in generic : FuncName(all[id]) = name]

InferElementSources ==
  /\ phase = "sources" /\ phase' = "clone"
  /\ decls' = infer(elems, decls) /\ todo' = Reverse(elems)
  /\ cloning' = [stack |-> <<>>, count |-> 0, current |-> "", placed |-> <<>>,
                 generic |-> GenericByName(decls') @@ [name \in {f \in DOMAIN Intrinsics : IsGeneric(Intrinsics[f])} |-> name]]
  /\ UNCHANGED <<source, elems, checker, emitter>>

\* An original is not visited: its clones are.
VisitElement ==
  LET n == decls[Head(todo)]
  IN  /\ phase = "clone" /\ cloning.stack = <<>> /\ todo # <<>>
      /\ todo' = Tail(todo)
      /\ cloning' = [cloning EXCEPT !.current = IF n.class = "FuncDecl" THEN FuncName(n) ELSE @,
                                    !.stack = IF IsGeneric(n) THEN <<>> ELSE <<[id |-> Head(todo), sites |-> Sites(n)]>>]
      /\ UNCHANGED <<source, phase, elems, decls, checker, emitter>>

Frame == Last(cloning.stack)
Site == At(decls[Frame.id], Head(Frame.sites))
Callee == K(Site, "func").data.ident
Advanced == [cloning.stack EXCEPT ![Len(cloning.stack)].sites = Tail(@)]

CloningSite == phase = "clone" /\ cloning.stack # <<>> /\ Frame.sites # <<>>

\* cloneIfGeneric: the call gets a clone of its own, visited at once.
CloneGeneric ==
  LET all == decls @@ Intrinsics
      original == all[cloning.generic[Callee]]
      name == Callee \o "@" \o ToString(cloning.count + 1)
      was == original.data.originalName
      copy == [clone(original) EXCEPT !.kids["name"][1].data.ident = name,
                                      !.data.originalName = IF was = "" THEN FuncName(original) ELSE was]
      siblings == IF cloning.current \in DOMAIN cloning.placed THEN cloning.placed[cloning.current] ELSE <<>>
  IN  /\ CloningSite /\ Callee \in DOMAIN cloning.generic /\ cloning.count < MaxClones
      /\ decls' = (name :> copy) @@ [decls EXCEPT ![Frame.id] = Put(@, Head(Frame.sites),
                                                        [Site EXCEPT !.kids.func[1].data.ident = name])]
      /\ cloning' = [cloning EXCEPT !.stack = Append(Advanced, [id |-> name, sites |-> Sites(copy)]),
                                    !.count = @ + 1, !.generic = (name :> name) @@ @,
                                    !.placed = (cloning.current :> Append(siblings, name)) @@ @]
      /\ checker' = Need(checker, Dereferenced(original), "null pointer")
      /\ UNCHANGED <<source, phase, elems, todo, emitter>>

CloneOther ==
  /\ CloningSite /\ Callee \notin DOMAIN cloning.generic
  /\ cloning' = [cloning EXCEPT !.stack = Advanced]
  /\ UNCHANGED <<source, phase, elems, decls, todo, checker, emitter>>

VisitReturns ==
  /\ phase = "clone" /\ cloning.stack # <<>> /\ Frame.sites = <<>>
  /\ cloning' = [cloning EXCEPT !.stack = Front(@)]
  /\ UNCHANGED <<source, phase, elems, decls, todo, checker, emitter>>

\* The clones made for a function go before it, the last one first.
PlaceClones ==
  LET placed(id) == IF decls[id].class = "FuncDecl" /\ FuncName(decls[id]) \in DOMAIN cloning.placed
                    THEN Reverse(cloning.placed[FuncName(decls[id])]) ELSE <<>>
      WithDefs(r) == [checker EXCEPT !.decls = r.decls @@ Intrinsics, !.defs = r.defs]
  IN  /\ phase = "clone" /\ cloning.stack = <<>> /\ todo = <<>> /\ phase' = "check"
      /\ elems' = FlattenSeq([i \in DOMAIN elems |-> Append(placed(elems[i]), elems[i])]) /\ todo' = elems'
      /\ checker' = WithDefs(computeSetDefinitions(elems', decls))
      /\ UNCHANGED <<source, decls, cloning, emitter>>

-------------------------------------------------------------------------------
(* TypeChecker and IREmitter, element by element.                          *)

CheckElement ==
  /\ phase = "check" /\ todo # <<>>
  /\ checker' = TypeCheck(checker, Head(todo))
  /\ todo' = Tail(todo)
  /\ UNCHANGED <<source, phase, elems, decls, cloning, emitter>>

Checked ==
  /\ phase = "check" /\ todo = <<>>
  /\ IF checker.errors # {} THEN phase' = "rejected" /\ UNCHANGED <<todo, emitter>>
     ELSE phase' = "emit" /\ todo' = elems /\ emitter' = NewEmitter(checker.decls)
  /\ UNCHANGED <<source, elems, decls, cloning, checker>>

Emitting ==
  /\ phase = "emit" /\ todo # <<>>
  /\ emitter' = GenerateIR(emitter, Head(todo))
  /\ todo' = Tail(todo)
  /\ UNCHANGED <<source, phase, elems, decls, cloning, checker>>

Emitted ==
  /\ phase = "emit" /\ todo = <<>> /\ phase' = "done"
  /\ UNCHANGED <<source, elems, decls, todo, cloning, checker, emitter>>

Next ==
  \/ Fold \/ CheckConstants \/ InferElementSources
  \/ VisitElement \/ CloneGeneric \/ CloneOther \/ VisitReturns \/ PlaceClones
  \/ CheckElement \/ Checked \/ Emitting \/ Emitted

Spec == Init /\ [][Next]_vars

-------------------------------------------------------------------------------
(* Properties.                                                             *)

\* The type the checker gave an expression, as the IR type it becomes.
SameIR(t, u) ==
  IF t.k = "tensor" /\ u.k = "tensor" THEN t.comp = u.comp /\ t.dims = u.dims /\ (Len(t.dims) = 1 => t.col = u.col) ELSE t = u

\* Every expression of an accepted program has in the IR the type the checker
\* gave it, the orientation of vectors included: the checker's rules and
\* the emitter's builders compute it independently.
EmittedTypesAgree ==
  phase = "done" /\ emitter.aborts = {} =>
    \A site \in DOMAIN checker.types \intersect DOMAIN emitter.types :
      LET t == checker.types[site]
          u == emitter.types[site]
      IN  t.def /\ IsSingle(t) /\ u.k # "undefined" => SameIR(emitType(t.types[1]), u)

\* A program the checks accept is emitted without a failed assertion: what the
\* emitter, the builder and the IR nodes assert of types, symbols, functions
\* and assignments follows from what the checker established.
AcceptedProgramsEmit ==
  phase \in {"emit", "done"} => checker.aborts = {} /\ emitter.aborts = {}

\* The function a generic call ends up with was made for the sets the call
\* asked for, in every parameter its signature mentions, whichever call made it.
InstanceMatchesCall ==
  phase \in {"emit", "done"} =>
    \A site \in DOMAIN checker.calls :
      LET f == checker.funcs[K(At(checker.decls[site[1]], site[2]), "func").data.ident]
          original == (decls @@ Intrinsics)[cloning.generic[decls[f].data.originalName]]
          shown == {x.data.setName : x \in UNION {Nodes(v, "GenericIndexSet") : v \in Range(original.kids.args \o original.kids.results)}}
      IN  f \in DOMAIN checker.inst /\ \A p \in shown \intersect DOMAIN checker.inst[f] : checker.inst[f][p] = checker.calls[site][p]

\* The function a name was cloned from.
Origin(name) == IF name \in DOMAIN decls /\ decls[name].data.originalName # "" THEN decls[name].data.originalName ELSE name

\* A function without what cloning may change: callees' names, the sets bound
\* later, and the parts of a map its copy() leaves out.
RECURSIVE Erased(_)
Erased(n) ==
  LET isMap == n.class \in {"ReducedMapExpr", "UnreducedMapExpr"}
      isCall == isMap \/ n.class = "CallExpr"
      kid(f) == CASE f = "func" /\ isCall -> <<Origin(K(n, "func").data.ident)>>
                  [] isMap /\ f \in {"genericArgs", "through"} -> <<>>
                  [] OTHER -> [i \in DOMAIN n.kids[f] |-> Erased(n.kids[f][i])]
  IN  [class |-> n.class, kids |-> [f \in DOMAIN n.kids |-> kid(f)],
       data |-> [f \in DOMAIN n.data \ {"source", "setDef", "originalName", "ident"} |-> n.data[f]]
                @@ (IF n.class \in {"VarExpr", "RangeConst", "ElementType"} THEN [ident |-> n.data.ident] ELSE <<>>)]

\* A clone is its original: the same statements, operators and reductions, with
\* its calls going to clones of the functions the original calls.
ClonesKeepBodies ==
  phase = "check" /\ todo = elems =>
    \A id \in DOMAIN decls : decls[id].class = "FuncDecl" /\ decls[id].data.originalName # "" =>
      Erased(decls[id]) = Erased((decls @@ Intrinsics)[cloning.generic[decls[id].data.originalName]])

\* The value a literal under negations and transpositions stands for: the real
\* and imaginary parts of its numbers.
RECURSIVE Denoted(_)
Denoted(n) ==
  LET minus(m) == [i \in DOMAIN m |-> <<-m[i][1], -m[i][2]>>]
      real(m) == [i \in DOMAIN m |-> <<m[i], 0>>]
      vector(m) == [shape |-> IF n.data.transposed THEN <<Len(m), 1>> ELSE <<1, Len(m)>>, vals |-> m]
  IN  CASE n.class \in {"IntLiteral", "FloatLiteral"} -> [shape |-> <<>>, vals |-> real(<<n.data.val>>)]
        [] n.class = "ComplexLiteral" -> [shape |-> <<>>, vals |-> <<n.data.val>>]
        [] n.class \in {"IntVectorLiteral", "FloatVectorLiteral"} -> vector(real(n.data.vals))
        [] n.class = "ComplexVectorLiteral" -> vector(n.data.vals)
        [] n.class = "NDTensorLiteral" ->
             LET rows == [i \in DOMAIN n.kids.elems |-> Denoted(n.kids.elems[i]).vals]
                 m == FlattenSeq(IF ~n.data.transposed THEN rows
                                 ELSE [j \in DOMAIN rows[1] |-> [i \in DOMAIN rows |-> rows[i][j]]])
             IN  [shape |-> IF n.data.transposed THEN <<Len(rows[1]), Len(rows)>> ELSE <<Len(rows), Len(rows[1])>>, vals |-> m]
        [] n.class = "NegExpr" -> LET v == Denoted(K(n, "operand")) IN [v EXCEPT !.vals = IF n.data.negate THEN minus(@) ELSE @]
        [] n.class = "TransposeExpr" ->
             LET v == Denoted(K(n, "operand"))
                 rows == v.shape[1]
                 cols == v.shape[2]
             IN  IF v.shape = <<>> THEN v
                 ELSE [shape |-> <<cols, rows>>,
                       vals |-> [k \in DOMAIN v.vals |-> LET r == (k - 1) \div rows IN v.vals[((k - 1) % rows) * cols + r + 1]]]

\* A literal under negations and transpositions, except that the negation of a
\* complex scalar is left out: it is negated and keeps its negation.
RECURSIVE Constant(_)
RECURSIVE ComplexScalar(_)
ComplexScalar(n) == n.class = "ComplexLiteral" \/ (n.class = "TransposeExpr" /\ ComplexScalar(K(n, "operand")))
Constant(n) ==
  \/ n.class \in {"IntLiteral", "FloatLiteral", "ComplexLiteral"} \union VectorLiterals
  \/ n.class = "NDTensorLiteral" /\ \A i \in DOMAIN n.kids.elems : n.kids.elems[i].class \in VectorLiterals
  \/ n.class = "TransposeExpr" /\ Constant(K(n, "operand"))
  \/ n.class = "NegExpr" /\ Constant(K(n, "operand")) /\ ~(n.data.negate /\ ComplexScalar(K(n, "operand")))

\* Folding keeps the value of every constant that does not negate a complex
\* scalar, for which the code has no return (const_fold.cpp:28-34): a folded
\* negation negates each number once, both parts of a complex one, and a
\* transposition is dropped only where the literal is turned.
FoldKeepsValue ==
  phase = "constants" =>
    \A id \in DOMAIN source :
      LET folded == {p \in Range(Paths(source[id], {"NegExpr", "TransposeExpr"})) :
                       /\ Constant(At(source[id], p))
                       /\ p = <<>> \/ ~Constant(At(source[id], Front(p)))}
      IN  \A p \in folded : Denoted(At(decls[id], p)) = Denoted(At(source[id], p))

\* The temporaries assigned by a block that starts with those in done, or a
\* mark if a statement reads one that is not.
RECURSIVE Runs(_, _)
Unassigned == <<"tmp", -1>>
Runs(done, block) ==
  FoldLeft(LAMBDA d, s :
    LET inside == [i \in DOMAIN s.subs |-> Runs(d, s.subs[i])]
        again == UNION {s.subs[1][i].writes : i \in DOMAIN s.subs[1]}
        bad == \/ ~Temps(s.reads) \subseteq d
               \/ \E i \in DOMAIN inside : Unassigned \in inside[i]
               \/ s.op[1] = "while" /\ ~Temps(s.reads) \subseteq again
        after == IF s.op[1] = "block" THEN inside[1] ELSE d
    IN  (IF bad THEN {Unassigned} ELSE {}) \union after \union Temps(s.writes), done, block)

\* A temporary that holds the value of a call is assigned before it is read, on
\* every path: the call's statement comes before the statement that needs it,
\* and runs again at the end of a loop whose condition needs it.
TempsAssignedBeforeRead ==
  phase \in {"emit", "done"} => \A f \in DOMAIN emitter.bodies : Unassigned \notin Runs({}, emitter.bodies[f])

===============================================================================
