------------------------------ MODULE GpuKernels ------------------------------
(***************************************************************************)
(* How a lowered function becomes GPU kernels, and how the kernels run.    *)
(*                                                                         *)
(* lower() rewrites self additions to compound assignments, shards loops   *)
(* over sets into kernels, records what each kernel reads and writes, and  *)
(* moves and fuses kernels (src/lower/lower.cpp:180-196).  The generated   *)
(* host code then runs the statements in order; a kernel is launched over  *)
(* blocks of threads and the host waits for all of them.  Threads          *)
(* interleave between a load and the store that follows it; an atomic add  *)
(* is one step.                                                            *)
(***************************************************************************)
EXTENDS Integers, Sequences, SequencesExt, FiniteSets

CONSTANTS
  Programs,    \* the lowered functions: sequences of statements
  VarLen,      \* number of components of every variable
  SetLen,      \* number of elements of every set
  BlockSize,   \* threads per block and dimension
  SignBit,     \* weight of the sign bit of the index arithmetic
  Limit        \* bound on the values in memory

Vars == DOMAIN VarLen

\* Lengths are positive ints, and whole blocks fill the positive ints: the
\* block sizes of the build are powers of two.
ASSUME LaunchAssumption ==
  /\ BlockSize \in Nat \ {0} /\ SignBit \in Nat \ {0} /\ Limit \in Nat \ {0}
  /\ SignBit % BlockSize = 0
  /\ \A S \in DOMAIN SetLen : SetLen[S] \in 1..(SignBit - 1)
  /\ \A v \in Vars : VarLen[v] \in 1..(SignBit - 1)
  /\ "none" \notin Vars

\* Statements.  An atom assigns k + src to one component of dst: "set"
\* stores, "add" is a compound addition, "self" is written dst = dst + ...
Places == {"x", "y", "next", "one"}

Atoms == [dst : Vars, at : Places, op : {"set", "add", "self"}, k : Nat,
          src : Vars \union {"none"}, from : Places, once : BOOLEAN]

\* A loop over a set, with at most one loop to shard inside it.
Fors == [kind : {"for"}, set : DOMAIN SetLen, pre : Seq(Atoms),
         inner : Seq([set : DOMAIN SetLen, body : Seq(Atoms)]), post : Seq(Atoms)]

Hosts == [kind : {"host"}, atom : Atoms]

Memsets == [kind : {"memset"}, var : Vars]

ASSUME ProgramsAssumption ==
  \A p \in Programs :
    /\ p \in Seq(Fors \union Hosts \union Memsets) /\ p # <<>>
    /\ \A i \in DOMAIN p : p[i].kind = "for" =>
         /\ Len(p[i].inner) <= 1
         /\ \A j \in DOMAIN p[i].inner : \A a \in Range(p[i].inner[j].body) : ~a.once

\* Lowering leaves index expressions that stay inside what they index when the
\* loops have nx and ny iterations.
Fits(a, nx, ny) ==
  \A p \in {<<a.dst, a.at>>} \union {<<v, a.from>> : v \in {a.src} \ {"none"}} :
    (p[2] = "x" => nx <= VarLen[p[1]]) /\ (p[2] = "y" => ny <= VarLen[p[1]])

ASSUME IndexAssumption ==
  \A p \in Programs : \A i \in DOMAIN p :
    p[i].kind = "for" =>
      /\ \A a \in Range(p[i].pre \o p[i].post) : Fits(a, SetLen[p[i].set], 1)
      /\ \A j \in DOMAIN p[i].inner : \A a \in Range(p[i].inner[j].body) :
           Fits(a, SetLen[p[i].set], SetLen[p[i].inner[j].set])

VARIABLES
  source,   \* the function as lowering left it
  func,     \* the function after the passes
  phase,    \* "run" or "done", or "aborted" when a pass stopped the compiler
  pc,       \* index in func of the statement the host is at
  mem,      \* device memory: a sequence of components per variable
  threads   \* the threads of the running kernel

vars == <<source, func, phase, pc, mem, threads>>

-------------------------------------------------------------------------------
(* Atoms.                                                                  *)

\* The component an index expression names for the loop variables ix.
Component(v, at, ix) ==
  1 + CASE at = "x"    -> ix[1]
        [] at = "y"    -> ix[2]
        [] at = "next" -> (ix[1] + 1) % VarLen[v]
        [] at = "one"  -> 0

Value(m, a, ix) == (a.k + IF a.src = "none" THEN 0 ELSE m[a.src][Component(a.src, a.from, ix)])
                     % Limit

Stored(m, a, ix, val) ==
  [m EXCEPT ![a.dst][Component(a.dst, a.at, ix)] = IF a.op = "set" THEN val ELSE (@ + val) % Limit]

AtomReads(a) == {a.src} \ {"none"}

-------------------------------------------------------------------------------
(* What a loop means before any pass: its iterations in order.             *)

RunAtom(m, a, ix) == Stored(m, a, ix, Value(m, a, ix))

\* m after n steps, numbered from 1.
Stepped(n, m, Step(_, _)) ==
  LET after[i \in 0..n] == IF i = 0 THEN m ELSE Step(after[i - 1], i)
  IN  after[n]

RunAtoms(m, as, ix) == Stepped(Len(as), m, LAMBDA acc, i : RunAtom(acc, as[i], ix))

RunInner(m, l, x) == Stepped(SetLen[l.set], m, LAMBDA acc, i : RunAtoms(acc, l.body, <<x, i - 1>>))

RunIteration(m, s, x) ==
  LET begun == RunAtoms(m, s.pre, <<x, 0>>)
      inner == IF s.inner = <<>> THEN begun ELSE RunInner(begun, s.inner[1], x)
  IN  RunAtoms(inner, s.post, <<x, 0>>)

RunFor(m, s) == Stepped(SetLen[s.set], m, LAMBDA acc, i : RunIteration(acc, s, i - 1))

RunStmt(m, s) ==
  CASE s.kind = "for"    -> RunFor(m, s)
    [] s.kind = "host"   -> RunAtom(m, s.atom, <<0, 0>>)
    [] s.kind = "memset" -> [m EXCEPT ![s.var] = [i \in DOMAIN @ |-> 0]]

\* The memory a sequential run of the source leaves.
Zeros == [v \in Vars |-> [i \in 1..VarLen[v] |-> 0]]

Expected == Stepped(Len(source), Zeros, LAMBDA acc, i : RunStmt(acc, source[i]))

-------------------------------------------------------------------------------
(* Reads and writes (ReadWriteAnalysis).                                   *)

AtomsOf(s) ==
  CASE s.kind = "for"    -> s.pre \o FlattenSeq([i \in DOMAIN s.inner |-> s.inner[i].body]) \o s.post
    [] s.kind = "kernel" -> s.body
    [] s.kind = "host"   -> <<s.atom>>
    [] OTHER             -> <<>>

NonAtomicReads(s) ==
  UNION {AtomReads(a) \union (IF a.op = "self" THEN {a.dst} ELSE {}) : a \in Range(AtomsOf(s))}

\* A compound assignment to a scalar reads it atomically; a compound store
\* counts as a write only.
AllReads(s) == NonAtomicReads(s) \union {a.dst : a \in {b \in Range(AtomsOf(s)) : b.op = "add" /\ b.at = "one"}}

Writes(s) == IF s.kind = "memset" THEN {s.var} ELSE {a.dst : a \in Range(AtomsOf(s))}

-------------------------------------------------------------------------------
(* The passes.                                                             *)

\* s = s + e becomes s += e.
CompoundAtom(a) == IF a.op = "self" /\ a.at = "one" THEN [a EXCEPT !.op = "add"] ELSE a

CompoundAtoms(as) == [i \in DOMAIN as |-> CompoundAtom(as[i])]

CompoundLoop(l) == [l EXCEPT !.body = CompoundAtoms(l.body)]

CompoundStmt(s) ==
  CASE s.kind = "for"  -> [s EXCEPT !.pre = CompoundAtoms(s.pre), !.post = CompoundAtoms(s.post),
                                    !.inner = [i \in DOMAIN s.inner |-> CompoundLoop(s.inner[i])]]
    [] s.kind = "host" -> [s EXCEPT !.atom = CompoundAtom(s.atom)]
    [] OTHER           -> s

\* Code around an inner kernel loop runs in the threads with inner index 0.
Guarded(as, s) == [i \in DOMAIN as |-> [as[i] EXCEPT !.once = s.inner # <<>>]]

ShardFor(s) ==
  [kind |-> "kernel",
   dims |-> <<s.set>> \o [i \in DOMAIN s.inner |-> s.inner[i].set],
   body |-> Guarded(s.pre, s) \o FlattenSeq([i \in DOMAIN s.inner |-> s.inner[i].body]) \o Guarded(s.post, s),
   reads |-> {}, writes |-> {}]

ShardStmt(s) == IF s.kind = "for" THEN ShardFor(s) ELSE s

AnalyseStmt(s) == IF s.kind = "kernel" THEN [s EXCEPT !.reads = AllReads(s), !.writes = Writes(s)] ELSE s

\* Mutant: two kernels that write the same variable may change places.
ConflictReadsOnly(k, o) ==
  \/ k.writes \intersect AllReads(o) # {}
  \/ k.reads \intersect Writes(o) # {}

Conflict(k, o) ==
  \/ k.writes \intersect AllReads(o) # {}
  \/ k.reads \intersect Writes(o) # {}
  \/ k.writes \intersect Writes(o) # {}

SameSharding(k, o) == k.dims = o.dims

\* Mutant: the fused kernel keeps the argument list of the first.
FusedOwnArgs(k, o, forward) ==
  IF Len(k.dims) > 1 THEN [kind |-> "abort"] ELSE
  [k EXCEPT !.body = IF forward THEN k.body \o o.body ELSE o.body \o k.body]

\* k is the kernel that moves towards o, downwards when forward.  Only one
\* dimension can be fused: the assertion stops the compiler otherwise.
Fused(k, o, forward) ==
  IF Len(k.dims) > 1 THEN [kind |-> "abort"] ELSE
  [k EXCEPT !.body = IF forward THEN k.body \o o.body ELSE o.body \o k.body,
            !.reads = k.reads \union AllReads(o), !.writes = k.writes \union Writes(o)]

\* One statement of the walk: hold is the kernel being moved, out what is
\* already placed.  The last statement of a block is never taken as other.
Place(acc, o, forward) ==
  LET hold(out) == IF o.kind = "kernel" THEN [out |-> out, hold |-> <<o>>]
                                        ELSE [out |-> Append(out, o), hold |-> <<>>]
      k == acc.hold[1]
  IN  CASE acc.hold = <<>> -> hold(acc.out)
        [] acc.hold # <<>> /\ Conflict(k, o) -> hold(Append(acc.out, k))
        [] acc.hold # <<>> /\ ~Conflict(k, o) /\ o.kind # "kernel" ->
             [out |-> Append(acc.out, o), hold |-> acc.hold]
        [] acc.hold # <<>> /\ ~Conflict(k, o) /\ o.kind = "kernel" /\ SameSharding(k, o) ->
             [out |-> Append(acc.out, Fused(k, o, forward)), hold |-> <<>>]
        [] OTHER -> hold(Append(acc.out, k))

\* The walk over all statements of a block but the last.
Walked(walk, forward) ==
  LET acc[n \in 0..(Len(walk) - 1)] ==
        IF n = 0 THEN [out |-> <<>>, hold |-> <<>>] ELSE Place(acc[n - 1], walk[n], forward)
  IN  acc[Len(walk) - 1]

SwapKernels(list, forward) ==
  LET walk == IF forward THEN list ELSE Reverse(list)
      acc  == Walked(walk, forward)
      res  == acc.out \o acc.hold \o <<Last(walk)>>
  IN  IF forward THEN res ELSE Reverse(res)

FuseAll(list) == SwapKernels(SwapKernels(list, TRUE), FALSE)

-------------------------------------------------------------------------------
(* Launching: numBlocks = 1 + (len - 1) udiv blockSize, and every thread   *)
(* whose index is below the length executes the body.                      *)

Wrap(n) == n % (2 * SignBit)

Signed(n) == IF n >= SignBit THEN n - 2 * SignBit ELSE n

\* Mutant: the last block is left out when it is not full.
BlocksFull(len) == len \div BlockSize

Blocks(len) == Wrap(1 + Wrap(len - 1) \div BlockSize)

Tids(len) == {Signed(Wrap(t + b * BlockSize)) : t \in 0..(BlockSize - 1), b \in 0..(Blocks(len) - 1)}

Lens(s) == IF s.kind = "memset" THEN <<VarLen[s.var]>> ELSE [i \in DOMAIN s.dims |-> SetLen[s.dims[i]]]

\* All threads of a launch, as pairs of indices.
Grid(s) == Tids(Lens(s)[1]) \X (IF Len(Lens(s)) = 2 THEN Tids(Lens(s)[2]) ELSE {0})

InsideGuard(s, t) == t[1] < Lens(s)[1] /\ (Len(Lens(s)) = 2 => t[2] < Lens(s)[2])

Body(s) == IF s.kind = "memset"
             THEN <<[dst |-> s.var, at |-> "x", op |-> "set", k |-> 0, src |-> "none", from |-> "one", once |-> FALSE]>>
             ELSE s.body

-------------------------------------------------------------------------------
\* The passes of lower() for the GPU, in order.
Each(Op(_), list) == [i \in DOMAIN list |-> Op(list[i])]

Compiled(list) == FuseAll(Each(AnalyseStmt, Each(ShardStmt, Each(CompoundStmt, list))))

Init ==
  /\ source \in Programs
  /\ func = Compiled(source)
  /\ phase = IF \E i \in DOMAIN func : func[i].kind = "abort" THEN "aborted" ELSE "run"
  /\ pc = 1
  /\ mem = Zeros
  /\ threads = <<>>

HostStmt ==
  /\ phase = "run" /\ pc <= Len(func) /\ func[pc].kind = "host"
  /\ mem' = RunStmt(mem, func[pc])
  /\ pc' = pc + 1
  /\ UNCHANGED <<source, func, phase, threads>>

\* A launched thread is at atom 1, about to load its operand.
Launch ==
  /\ phase = "run" /\ pc <= Len(func) /\ func[pc].kind # "host"
  /\ threads = <<>>
  /\ threads' = [t \in Grid(func[pc]) |-> [at |-> 1, loaded |-> FALSE, reg |-> 0]]
  /\ UNCHANGED <<source, func, phase, pc, mem>>

AtomOf(t) == Body(func[pc])[threads[t].at]

Finished(t) == threads[t].at > Len(Body(func[pc]))

\* Mutant: a thread outside the range branches back instead of returning.
EarlyExitRetries(t) ==
  /\ t \in DOMAIN threads /\ ~Finished(t) /\ ~InsideGuard(func[pc], t)
  /\ threads' = [threads EXCEPT ![t].at = 1]
  /\ UNCHANGED <<source, func, phase, pc, mem>>

EarlyExit(t) ==
  /\ t \in DOMAIN threads /\ ~Finished(t) /\ ~InsideGuard(func[pc], t)
  /\ threads' = [threads EXCEPT ![t].at = Len(Body(func[pc])) + 1]
  /\ UNCHANGED <<source, func, phase, pc, mem>>

SkipGuarded(t) ==
  /\ t \in DOMAIN threads /\ ~Finished(t) /\ InsideGuard(func[pc], t)
  /\ AtomOf(t).once /\ t[2] # 0
  /\ threads' = [threads EXCEPT ![t].at = @ + 1]
  /\ UNCHANGED <<source, func, phase, pc, mem>>

\* The value of an atom; a self addition also loads the destination here.
Operand(t) == LET a == AtomOf(t) IN
  IF a.op = "self" THEN (mem[a.dst][Component(a.dst, a.at, t)] + Value(mem, a, t)) % Limit ELSE Value(mem, a, t)

LoadOperand(t) ==
  /\ t \in DOMAIN threads /\ ~Finished(t) /\ InsideGuard(func[pc], t)
  /\ ~threads[t].loaded /\ (AtomOf(t).once => t[2] = 0)
  /\ threads' = [threads EXCEPT ![t].loaded = TRUE, ![t].reg = Operand(t)]
  /\ UNCHANGED <<source, func, phase, pc, mem>>

\* A plain store, or the atomic add of a compound assignment.
Commit(t) ==
  /\ t \in DOMAIN threads /\ ~Finished(t) /\ threads[t].loaded
  /\ mem' = LET a == AtomOf(t) IN
              Stored(mem, IF a.op = "add" THEN a ELSE [a EXCEPT !.op = "set"], t, threads[t].reg)
  /\ threads' = [threads EXCEPT ![t] = [at |-> @.at + 1, loaded |-> FALSE, reg |-> 0]]
  /\ UNCHANGED <<source, func, phase, pc>>

\* cudaDeviceSynchronize returns when every thread of the launch has ended.
DeviceSync ==
  /\ threads # <<>>
  /\ \A t \in DOMAIN threads : Finished(t)
  /\ threads' = <<>>
  /\ pc' = pc + 1
  /\ UNCHANGED <<source, func, phase, mem>>

Return ==
  /\ phase = "run" /\ pc > Len(func)
  /\ phase' = "done"
  /\ UNCHANGED <<source, func, pc, mem, threads>>

Host == HostStmt \/ Launch \/ DeviceSync \/ Return

Thread(t) == EarlyExit(t) \/ SkipGuarded(t) \/ LoadOperand(t) \/ Commit(t)

\* Every index a thread can have.
AllTids == UNION {Tids(SetLen[S]) : S \in DOMAIN SetLen} \union UNION {Tids(VarLen[v]) : v \in Vars} \union {0}

Next == Host \/ (\E t \in AllTids \X AllTids : Thread(t))

\* The host program proceeds, and the device runs every thread it launched.
Fairness ==
  /\ WF_vars(Host)
  /\ \A t \in AllTids \X AllTids : WF_vars(Thread(t))

Spec == Init /\ [][Next]_vars /\ Fairness

-------------------------------------------------------------------------------
(* Properties.                                                             *)

Touches(a, v) == a.dst = v \/ a.src = v

TouchesOwn(a, v) == (a.dst = v => a.at = "x") /\ (a.src = v => a.from = "x")

\* A loop whose iterations do not depend on their order: every variable it
\* writes is used at the iteration's own component only, or is only added to.
RaceFree(s) ==
  s.kind = "for" =>
    \A v \in Writes(s) :
      \/ /\ \A a \in Range(s.pre \o s.post) : TouchesOwn(a, v)
         /\ \A i \in DOMAIN s.inner : \A a \in Range(s.inner[i].body) : ~Touches(a, v)
      \/ \A a \in Range(AtomsOf(s)) : Touches(a, v) => a.dst = v /\ a.op # "set" /\ a.at # "y" /\ a.src # v
                                                      /\ (a.op = "self" => a.at = "one")

\* A function of race-free loops leaves the memory its sequential run leaves,
\* however its kernels were moved and fused and their threads interleave
\* (KernelSwapRewriter, shardLoops, compile(GPUKernel)).
DoneMatchesSequential ==
  phase = "done" /\ (\A i \in DOMAIN source : RaceFree(source[i])) => mem = Expected

\* The body of a kernel runs for indices of its sets only, and a launch has
\* a thread for each of them (emitKernelLaunch, the guard of compile(GPUKernel)).
LaunchCoversDomain ==
  threads # <<>> =>
    {t \in DOMAIN threads : InsideGuard(func[pc], t)} =
      (0..(Lens(func[pc])[1] - 1)) \X (IF Len(Lens(func[pc])) = 2 THEN 0..(Lens(func[pc])[2] - 1) ELSE {0})

\* Everything a kernel's body names is passed to the kernel, after fusion too.
ArgumentsCoverBody ==
  phase = "run" => \A i \in DOMAIN func :
    func[i].kind = "kernel" =>
      \A a \in Range(func[i].body) : {a.dst} \union AtomReads(a) \subseteq func[i].reads \union func[i].writes

\* Every compiled function returns: the host waits for threads only, and no
\* thread waits for another (emitDeviceSync, the early exit).
Terminates == phase = "run" ~> phase = "done"
=============================================================================
