------------------------------- MODULE Lowering --------------------------------
(***************************************************************************)
(* A procedure on its way through lower() (src/lower/lower.cpp), pass by   *)
(* pass, and then run twice as generated code on one graph.                *)
(*                                                                         *)
(* A program is [body |-> the procedure, graphs |-> the graphs it is run   *)
(* on].                                                                    *)
(***************************************************************************)
EXTENDS Meaning

CONSTANTS
  Programs,      \* name -> program
  Funcs,         \* name -> function [args, results, body]
  Kernels,       \* name -> mapped function (see LowerMaps)
  Graphs,        \* the graphs (see Storage)
  EdgeSets,      \* the sets of Graphs that are edge sets
  FieldsOf(_),   \* the contents of the fields of a graph's sets
  Runs           \* how often the function is run

VARIABLES
  prog,      \* the program
  pass,      \* the last pass that was run, or what the function is doing
  body,      \* the procedure as the passes have rewritten it
  flat,      \* the procedure after insertTemporaries
  q,         \* its storage
  graph,     \* the graph it is bound to
  rest,      \* the statements of the current run still to be executed
  mem,       \* the memory of the function (see Codegen)
  start,     \* the fields when the current run began
  runs       \* the runs that were started

vars == <<prog, pass, body, flat, q, graph, rest, mem, start, runs>>

NoStorage == [st |-> <<>>, pe |-> <<>>, reg |-> <<>>]
NoMemory == [sc |-> <<>>, buf |-> <<>>, fault |-> ""]
Passes == <<"source", "inlineCalls", "flatten", "temporaries", "storage", "fields", "maps", "index", "accesses",
            "unroll1", "unroll2", "unroll3">>
Init ==
  /\ prog \in DOMAIN Programs
  /\ pass = "source"
  /\ body = Programs[prog].body
  /\ flat = Pass
  /\ q = NoStorage
  /\ graph = None /\ rest = <<>> /\ mem = NoMemory /\ start = <<>> /\ runs = 0

-------------------------------------------------------------------------------
(* lower(): one action for each pass.                                      *)

\* A pass whose assertion fails stops the compiler: nothing follows.
Rewrite(from, to, new) == /\ pass = from /\ body' = new
                          /\ pass' = IF NodesOf(new, "Abort") = <<>> THEN to ELSE "aborted"
                          /\ UNCHANGED <<prog, graph, rest, mem, start, runs>>

RunInlineCalls == Rewrite("source", "inlineCalls", InlineCalls(body, Funcs)) /\ UNCHANGED <<flat, q>>
RunFlatten == Rewrite("inlineCalls", "flatten", FlattenIndexExpressions(body)) /\ UNCHANGED <<flat, q>>
RunInsertTemporaries ==
  /\ Rewrite("flatten", "temporaries", InsertTemporaries(body))
  /\ flat' = body' /\ UNCHANGED q
RunUpdateStorage ==
  /\ Rewrite("temporaries", "storage", body)
  /\ q' = UpdateStorage(body, EdgeSets) /\ UNCHANGED flat
RunLowerFieldAccesses == Rewrite("storage", "fields", LowerFieldAccesses(body, <<>>)) /\ UNCHANGED <<flat, q>>
RunLowerMaps == Rewrite("fields", "maps", LowerMapStmts(body, Kernels, q)) /\ UNCHANGED <<flat, q>>
RunLowerIndexExpressions ==
  \E rev \in BOOLEAN : Rewrite("maps", "index", LowerIndexExpressions(body, q, rev)) /\ UNCHANGED <<flat, q>>
RunLowerTensorAccesses == Rewrite("index", "accesses", LowerTensorAccesses(body, q)) /\ UNCHANGED <<flat, q>>
RunLowerUnroll ==
  \E i \in 9..11 : Rewrite(Passes[i], Passes[i + 1], LowerUnroll(body)) /\ UNCHANGED <<flat, q>>

-------------------------------------------------------------------------------
(* The function: init binds it to a graph and allocates its buffers; a run *)
(* starts with an empty stack and executes the statements in order.        *)

Context(g) == [g |-> g, q |-> q, idx |-> IndexArrays(q, g), funcs |-> Funcs]

FunctionInit(g) ==
  /\ pass = "unroll3" /\ g \in Programs[prog].graphs
  /\ pass' = "bound" /\ graph' = g
  /\ mem' = [NoMemory EXCEPT !.buf = InitBuffers(body, FieldsOf(g), Context(g))]
  /\ UNCHANGED <<prog, body, flat, q, rest, start, runs>>

FieldsIn(m) == [x \in {y \in DOMAIN m.buf : y.n[1] = "field"} |-> m.buf[x]]

StartRun ==
  /\ pass \in {"bound", "ran"} /\ runs < Runs
  /\ pass' = "running" /\ runs' = runs + 1
  /\ rest' = Statements(body) /\ start' = FieldsIn(mem)
  /\ mem' = [mem EXCEPT !.sc = <<>>]
  /\ UNCHANGED <<prog, body, flat, q, graph>>

Step ==
  /\ pass = "running" /\ rest # <<>>
  /\ mem' = Exec(Head(rest), mem, Context(graph))
  /\ rest' = Tail(rest)
  /\ UNCHANGED <<prog, pass, body, flat, q, graph, start, runs>>

EndRun ==
  /\ pass = "running" /\ rest = <<>>
  /\ pass' = "ran"
  /\ UNCHANGED <<prog, body, flat, q, graph, rest, mem, start, runs>>

Finished == pass = "ran" /\ runs = Runs /\ UNCHANGED vars

Next ==
  \/ RunInlineCalls \/ RunFlatten \/ RunInsertTemporaries \/ RunUpdateStorage \/ RunLowerFieldAccesses \/ RunLowerMaps
  \/ RunLowerIndexExpressions \/ RunLowerTensorAccesses \/ RunLowerUnroll
  \/ \E g \in Graphs : FunctionInit(g)
  \/ StartRun \/ Step \/ EndRun \/ Finished

Spec == Init /\ [][Next]_vars

-------------------------------------------------------------------------------
(* Properties.                                                             *)

Tensor(x, b, g) == [ix \in Tuples(x.t, g) |-> b[IF ix = <<>> THEN 0 ELSE ix[1]]]
MeaningContext(g) == [g |-> g, funcs |-> Funcs, kernels |-> Kernels, elems |-> <<>>, nbrs |-> <<>>, add |-> FALSE]
MeaningOn(s, fields, g) == Mean(s, [x \in DOMAIN fields |-> Tensor(x, fields[x], g)], MeaningContext(g))

\* Inlining calls, flattening index expressions and inserting temporaries
\* (inline.cpp, flatten.cpp, temps.cpp) change no field and no variable of the
\* procedure, whatever actuals and results alias.
StagesKeepMeaning ==
  pass \in {"inlineCalls", "flatten", "temporaries"} =>
    \A g \in Programs[prog].graphs :
      LET source == MeaningOn(Programs[prog].body, FieldsOf(g), g)
          now == MeaningOn(body, FieldsOf(g), g)
      IN \A x \in DOMAIN source : x \in DOMAIN now /\ now[x] = source[x]

\* The entries of a matrix that have a place, and their places.
Entries(x) ==
  LET arrays == Context(graph).idx[LocsName(q, q.st[x].p)]
      n == SizeOf(x.t[1], graph)
  IN CASE Kind(q, x) = "Indexed" ->
            UNION {{[ix |-> <<i, arrays.colidx[l]>>, at |-> l] : l \in arrays.rowptr[i]..arrays.rowptr[i + 1] - 1} : i \in 0..n - 1}
       [] Kind(q, x) = "Diagonal" -> {[ix |-> <<i, i>>, at |-> i] : i \in 0..n - 1}
       [] OTHER -> {[ix |-> ix, at |-> IF Len(ix) = 1 THEN ix[1] ELSE ix[1] * SizeOf(x.t[2], graph) + ix[2]] :
                      ix \in Tuples(x.t, graph)}

Computed == {x \in DOMAIN mem.buf : ~IsWorkspace(x) /\ x \in TensorVars(flat) \cup DOMAIN start}

\* When a run ends, every field and every tensor holds what the procedure means
\* for the fields the run began with, in its stored entries and its scalars:
\* storage kinds, iteration orders, workspaces and unrolling (lower/) and the
\* second run on used memory change nothing.
RunComputesMeaning ==
  pass = "ran" =>
    LET meant == MeaningOn(flat, start, graph)
    IN /\ \A x \in Computed : x \in DOMAIN meant /\ \A e \in Entries(x) : mem.buf[x][e.at] = meant[x][e.ix]
       /\ \A x \in DOMAIN mem.sc : x \in DOMAIN meant => mem.sc[x] = meant[x][<<>>]

\* The entries of a matrix without a place (path_expression_analysis.cpp,
\* path_indices.cpp) are zero in the matrix the procedure means.
StorageCoversValues ==
  pass = "ran" =>
    LET meant == MeaningOn(flat, start, graph)
    IN \A x \in Computed : \A ix \in Tuples(x.t, graph) : ix \in {e.ix : e \in Entries(x)} \/ meant[x][ix] = 0

\* Generated code never stores outside a buffer or an undefined value, never
\* branches on one, and loc finds the entry it looks for (runtime.cpp:18): the
\* one read past the end of an index that merge loops make decides nothing.
AccessesInBounds == mem.fault = ""

\* Between statements the workspaces of merged matrices are zero
\* (copyFromWorkspace), as the next row and the next run rely on.
ScatterTargets == {s.d.x : s \in {n \in ToSet(NodesOf(flat, "AssignStmt")) :
                     Isa(n.k[1], "IndexExpr") /\ Len(n.d.x.t) = 2 /\ IsElwise(n.k[1])}}
WorkspacesClean ==
  \A x \in ScatterTargets : Workspace(x) \in DOMAIN mem.buf =>
    \A i \in DOMAIN mem.buf[Workspace(x)] : mem.buf[Workspace(x)][i] = 0
===============================================================================
