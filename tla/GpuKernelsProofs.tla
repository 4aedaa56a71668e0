-------------------------- MODULE GpuKernelsProofs --------------------------
(***************************************************************************)
(* Proofs about the kernels of GpuKernels: what the passes leave in a      *)
(* function, for every program they are given, which threads a launch      *)
(* starts, for every length and block size, and that a function of         *)
(* race-free loops computes what its source computes.                      *)
(*                                                                         *)
(* For the last, the memory while threads run is given in closed form: Mix *)
(* adds up what each thread, at the atom it has reached, would have made   *)
(* of the memory had it run alone.  The steps of the threads keep that     *)
(* form (ReadSame, CommitMix), and so do the iterations of the loop in     *)
(* their order (ForMix), so both end in the same memory.  Moving and       *)
(* fusing kernels composes the same maps of memories (FuseAllMeans).       *)
(***************************************************************************)
EXTENDS GpuKernels, DataLemmas

-------------------------------------------------------------------------------
(* Block arithmetic.                                                       *)

\* Division by a positive number brackets the dividend.
LEMMA Bracket ==
  ASSUME NEW n \in Nat, NEW b \in Nat \ {0}
  PROVE  /\ n \div b \in Nat
         /\ (n \div b) * b <= n /\ n < (n \div b) * b + b
<1>1. n \div b \in Nat
  OBVIOUS
<1> QED
  BY <1>1

\* A multiple of b that starts below another multiple of b ends there or below.
LEMMA NextMultiple ==
  ASSUME NEW q \in Nat, NEW p \in Nat, NEW b \in Nat \ {0}, q * b < p * b
  PROVE  q * b + b <= p * b
<1>1. q < p
  <2>1. CASE p <= q
    <3>1. p * b <= q * b
      BY <2>1
    <3>2. p * b \in Nat /\ q * b \in Nat
      OBVIOUS
    <3> QED
      BY <3>1, <3>2
  <2> QED
    BY <2>1
<1>2. (q + 1) * b <= p * b
  BY <1>1
<1>3. (q + 1) * b = q * b + b
  OBVIOUS
<1> QED
  BY <1>2, <1>3

\* Lengths that a launch can have.
Lengths == 1..(SignBit - 1)

\* The blocks of a launch reach beyond the last element, and end within the
\* positive ints.
LEMMA BlocksReach ==
  ASSUME NEW len \in Lengths
  PROVE  /\ Blocks(len) \in Nat \ {0}
         /\ len <= Blocks(len) * BlockSize
         /\ Blocks(len) * BlockSize <= SignBit
<1>0. len \in Nat /\ len >= 1 /\ len < SignBit /\ SignBit \in Nat /\ BlockSize \in Nat \ {0}
      /\ len - 1 \in Nat
  BY LaunchAssumption DEF Lengths
<1>1. Wrap(len - 1) = len - 1
  BY <1>0 DEF Wrap
<1>2. PICK q \in Nat : q = (len - 1) \div BlockSize
  BY <1>0, Bracket
<1>3. q * BlockSize <= len - 1 /\ len - 1 < q * BlockSize + BlockSize
  BY <1>0, <1>2, Bracket
<1>4. PICK p \in Nat : SignBit = p * BlockSize
  <2>1. SignBit % BlockSize = 0
    BY LaunchAssumption
  <2>2. SignBit = (SignBit \div BlockSize) * BlockSize
    BY <1>0, <2>1
  <2>3. SignBit \div BlockSize \in Nat
    BY <1>0, Bracket
  <2> QED
    BY <2>2, <2>3
<1>5. q * BlockSize \in Nat /\ p * BlockSize \in Nat
  BY <1>0
<1>6. q * BlockSize < p * BlockSize
  BY <1>0, <1>3, <1>4, <1>5
<1>7. q * BlockSize + BlockSize <= p * BlockSize
  BY <1>0, <1>6, NextMultiple
<1>8. q <= q * BlockSize
  BY <1>0
<1>9. Wrap(1 + q) = 1 + q
  BY <1>0, <1>3, <1>5, <1>8 DEF Wrap
<1>10. Blocks(len) = 1 + q
  BY <1>1, <1>2, <1>9 DEF Blocks
<1>11. (1 + q) * BlockSize = q * BlockSize + BlockSize
  BY <1>0
<1> QED
  BY <1>0, <1>3, <1>4, <1>5, <1>7, <1>10, <1>11

\* The thread indices of a launch that are below its length are the indices
\* of its elements: no element is left out and no index is negative.
LEMMA TidsCover ==
  ASSUME NEW len \in Lengths
  PROVE  /\ {t \in Tids(len) : t < len} = 0..(len - 1)
         /\ Tids(len) \subseteq Nat
<1>0. len \in Nat /\ len >= 1 /\ len < SignBit /\ SignBit \in Nat /\ BlockSize \in Nat \ {0}
  BY LaunchAssumption DEF Lengths
<1>1. PICK n \in Nat \ {0} : n = Blocks(len)
  BY BlocksReach
<1>2. len <= n * BlockSize /\ n * BlockSize <= SignBit
  BY <1>1, BlocksReach
<1>3. ASSUME NEW t \in 0..(BlockSize - 1), NEW b \in 0..(n - 1)
      PROVE  Signed(Wrap(t + b * BlockSize)) = t + b * BlockSize /\ t + b * BlockSize \in Nat
  <2>0. b \in Nat /\ t \in Nat /\ t < BlockSize
    BY <1>0
  <2>1. b * BlockSize \in Nat /\ n * BlockSize \in Nat
    BY <1>0, <2>0
  <2>2. (b + 1) * BlockSize <= n * BlockSize
    BY <1>0, <2>0
  <2>3. (b + 1) * BlockSize = b * BlockSize + BlockSize
    BY <1>0, <2>0
  <2>4. t + b * BlockSize < SignBit
    BY <1>0, <1>2, <2>0, <2>1, <2>2, <2>3
  <2>5. PICK i \in Nat : i = t + b * BlockSize
    BY <2>0, <2>1
  <2>6. Signed(Wrap(i)) = i
    BY <1>0, <2>4, <2>5 DEF Signed, Wrap
  <2> QED
    BY <2>5, <2>6
<1>4. ASSUME NEW i \in 0..(len - 1) PROVE i \in Tids(len)
  <2>1. PICK b \in Nat : b = i \div BlockSize
    BY <1>0, Bracket
  <2>2. b * BlockSize <= i /\ i < b * BlockSize + BlockSize
    BY <1>0, <2>1, Bracket
  <2>3. b * BlockSize \in Nat /\ n * BlockSize \in Nat
    BY <1>0
  <2>4. b * BlockSize < n * BlockSize
    BY <1>0, <1>2, <2>2, <2>3
  <2>5. b < n
    <3>1. CASE n <= b
      <4>1. n * BlockSize <= b * BlockSize
        BY <3>1, <1>0
      <4> QED
        BY <4>1, <2>3, <2>4
    <3> QED
      BY <3>1
  <2>6. b \in 0..(n - 1) /\ i - b * BlockSize \in 0..(BlockSize - 1)
    BY <1>0, <2>2, <2>3, <2>5
  <2>7. i - b * BlockSize + b * BlockSize = i
    BY <2>3
  <2>8. Signed(Wrap(i - b * BlockSize + b * BlockSize)) = i
    BY <1>3, <2>6, <2>7
  <2> QED
    BY <1>1, <2>6, <2>8 DEF Tids
<1>5. ASSUME NEW i \in Tids(len) PROVE i \in Nat
  <2>1. PICK t \in 0..(BlockSize - 1), b \in 0..(n - 1) : i = Signed(Wrap(t + b * BlockSize))
    BY <1>1 DEF Tids
  <2> QED
    BY <2>1, <1>3
<1> QED
  BY <1>0, <1>4, <1>5

-------------------------------------------------------------------------------
(* What the passes leave.                                                  *)

Kernels == [kind : {"kernel"}, dims : Seq(DOMAIN SetLen), body : Seq(Atoms),
            reads : SUBSET Vars, writes : SUBSET Vars]

\* The variables an atom names.
Names(a) == {a.dst} \union AtomReads(a)

\* Everything the body names is an argument of the kernel.
Covered(k) == \A a \in Range(k.body) : Names(a) \subseteq k.reads \union k.writes

GoodKernels == {k \in Kernels : Covered(k) /\ Len(k.dims) \in 1..2}

Aborts == {[kind |-> "abort"]}

\* The statements of a function the passes have gone through.
Lowered == GoodKernels \union Hosts \union Memsets \union Aborts

\* The loops of a program.
NestedFors == {s \in Fors : Len(s.inner) <= 1}

\* The kind of a statement tells its fields.
LEMMA KindOf ==
  ASSUME NEW s \in Lowered
  PROVE  /\ s.kind = "kernel" => s \in GoodKernels /\ s \in Kernels
         /\ s.kind = "host" => s \in Hosts
         /\ s.kind = "memset" => s \in Memsets
         /\ s.kind \in {"kernel", "host", "memset", "abort"}
<1>1. CASE s \in GoodKernels
  BY <1>1 DEF GoodKernels, Kernels
<1>2. CASE s \in Hosts
  BY <1>2 DEF Hosts
<1>3. CASE s \in Memsets
  BY <1>3 DEF Memsets
<1>4. CASE s \in Aborts
  BY <1>4 DEF Aborts
<1> QED
  BY <1>1, <1>2, <1>3, <1>4 DEF Lowered

\* The atoms of a statement are atoms.
LEMMA AtomsOfType ==
  ASSUME NEW s \in Lowered \union Kernels
  PROVE  AtomsOf(s) \in Seq(Atoms)
<1>1. CASE s \in Kernels
  BY <1>1 DEF Kernels, AtomsOf
<1>2. CASE s \in Hosts
  BY <1>2 DEF Hosts, AtomsOf
<1>3. CASE s \in Memsets
  BY <1>3 DEF Memsets, AtomsOf
<1>4. CASE s \in Aborts
  BY <1>4 DEF Aborts, AtomsOf
<1> QED
  BY <1>1, <1>2, <1>3, <1>4 DEF Lowered, GoodKernels

\* The elements of a sequence of atoms are atoms, and name variables.
LEMMA AtomsRange ==
  ASSUME NEW as \in Seq(Atoms)
  PROVE  /\ Range(as) \subseteq Atoms
         /\ \A a \in Range(as) : a.dst \in Vars /\ AtomReads(a) \subseteq Vars
<1>1. Range(as) \subseteq Atoms
  BY SeqParts, Zenon
<1> QED
  BY <1>1 DEF Atoms, AtomReads

\* What a statement reads and writes are variables.
LEMMA ReadsWritesType ==
  ASSUME NEW s \in Lowered \union Kernels
  PROVE  AllReads(s) \subseteq Vars /\ Writes(s) \subseteq Vars
<1>1. \A a \in Range(AtomsOf(s)) : a.dst \in Vars /\ AtomReads(a) \subseteq Vars
  BY AtomsOfType, AtomsRange
<1>2. NonAtomicReads(s) \subseteq Vars
  BY <1>1 DEF NonAtomicReads
<1>3. AllReads(s) \subseteq Vars
  BY <1>1, <1>2 DEF AllReads
<1>4. CASE s.kind = "memset"
  <2>1. s \in Memsets
    BY <1>4, KindOf DEF Kernels
  <2>2. s.var \in Vars
    BY <2>1 DEF Memsets
  <2> QED
    BY <1>3, <1>4, <2>2 DEF Writes
<1>5. CASE s.kind # "memset"
  <2>1. Writes(s) = {a.dst : a \in Range(AtomsOf(s))}
    BY <1>5 DEF Writes
  <2> QED
    BY <1>1, <1>3, <2>1
<1> QED
  BY <1>4, <1>5

\* The sets of a kernel hold what its atoms name.
LEMMA ReadsWritesCover ==
  ASSUME NEW k \in Kernels, NEW a \in Range(k.body)
  PROVE  Names(a) \subseteq AllReads(k) \union Writes(k)
<1>1. k.kind = "kernel" /\ AtomsOf(k) = k.body
  BY DEF AtomsOf, Kernels
<1>2. AtomReads(a) \subseteq NonAtomicReads(k)
  BY <1>1 DEF NonAtomicReads
<1>3. NonAtomicReads(k) \subseteq AllReads(k)
  BY DEF AllReads
<1>4. a.dst \in Writes(k)
  BY <1>1 DEF Writes
<1> QED
  BY <1>2, <1>3, <1>4 DEF Names

-------------------------------------------------------------------------------
(* The statements before fusion.                                           *)

\* Making an addition compound leaves an atom.
LEMMA CompoundType ==
  ASSUME NEW as \in Seq(Atoms)
  PROVE  CompoundAtoms(as) \in Seq(Atoms) /\ Len(CompoundAtoms(as)) = Len(as)
<1>1. \A a \in Atoms : CompoundAtom(a) \in Atoms
  BY DEF CompoundAtom, Atoms
<1>2. Len(as) \in Nat /\ DOMAIN as = 1..Len(as) /\ \A i \in DOMAIN as : as[i] \in Atoms
  BY SeqParts, Zenon
<1>3. CompoundAtoms(as) \in [1..Len(as) -> Atoms]
  BY <1>1, <1>2, Zenon DEF CompoundAtoms
<1> QED
  BY <1>2, <1>3, FunctionIsSeq, Zenon

\* Guarding atoms leaves atoms.
LEMMA GuardedType ==
  ASSUME NEW as \in Seq(Atoms), NEW s
  PROVE  Guarded(as, s) \in Seq(Atoms)
<1>1. \A a \in Atoms, b \in BOOLEAN : [a EXCEPT !.once = b] \in Atoms
  BY DEF Atoms
<1>2. Len(as) \in Nat /\ DOMAIN as = 1..Len(as) /\ \A i \in DOMAIN as : as[i] \in Atoms
  BY SeqParts, Zenon
<1>3. \A i \in DOMAIN as : [as[i] EXCEPT !.once = s.inner # <<>>] \in Atoms
  BY <1>1, <1>2, Zenon
<1>4. Guarded(as, s) \in [1..Len(as) -> Atoms]
  BY <1>2, <1>3, Zenon DEF Guarded
<1> QED
  BY <1>2, <1>4, FunctionIsSeq, Zenon

\* A loop stays a loop with the same loops inside.
LEMMA CompoundFor ==
  ASSUME NEW s \in NestedFors
  PROVE  CompoundStmt(s) \in NestedFors
<1>1. s.kind = "for" /\ s.pre \in Seq(Atoms) /\ s.post \in Seq(Atoms)
      /\ s.inner \in Seq([set : DOMAIN SetLen, body : Seq(Atoms)]) /\ Len(s.inner) <= 1
      /\ s \in Fors
  BY DEF NestedFors, Fors
<1>2. PICK pre \in Seq(Atoms) : pre = CompoundAtoms(s.pre)
  BY <1>1, CompoundType
<1>3. PICK post \in Seq(Atoms) : post = CompoundAtoms(s.post)
  BY <1>1, CompoundType
<1> DEFINE in == [i \in DOMAIN s.inner |-> CompoundLoop(s.inner[i])]
<1>4. ASSUME NEW i \in DOMAIN s.inner
      PROVE  CompoundLoop(s.inner[i]) \in [set : DOMAIN SetLen, body : Seq(Atoms)]
  <2>1. s.inner[i] \in [set : DOMAIN SetLen, body : Seq(Atoms)]
    BY <1>1, SeqParts, Zenon
  <2>2. CompoundAtoms(s.inner[i].body) \in Seq(Atoms)
    BY <2>1, CompoundType
  <2> QED
    BY <2>1, <2>2 DEF CompoundLoop
<1>5. in \in Seq([set : DOMAIN SetLen, body : Seq(Atoms)]) /\ Len(in) = Len(s.inner)
  <2>1. Len(s.inner) \in Nat /\ DOMAIN s.inner = 1..Len(s.inner)
    BY <1>1, SeqParts, ZenonT(60)
  <2>2. in \in [1..Len(s.inner) -> [set : DOMAIN SetLen, body : Seq(Atoms)]]
    BY <2>1, <1>4, Zenon
  <2> HIDE DEF in
  <2> QED
    BY <2>1, <2>2, FunctionIsSeq, Zenon
<1>6. CompoundStmt(s) = [s EXCEPT !.pre = pre, !.post = post, !.inner = in]
  BY <1>1, <1>2, <1>3 DEF CompoundStmt
<1> HIDE DEF in
<1> QED
  BY <1>1, <1>5, <1>6 DEF NestedFors, Fors

\* Flattening at most one sequence of atoms leaves a sequence of atoms.
LEMMA FlattenOne ==
  ASSUME NEW q \in Seq(Seq(Atoms)), Len(q) <= 1
  PROVE  FlattenSeq(q) \in Seq(Atoms)
<1>0. Len(q) \in Nat /\ DOMAIN q = 1..Len(q) /\ \A i \in DOMAIN q : q[i] \in Seq(Atoms)
  BY SeqParts, Zenon
<1>1. CASE Len(q) = 0
  <2>1. q = <<>>
    BY <1>1
  <2> QED
    BY <1>1, <2>1 DEF FlattenSeq
<1>2. CASE Len(q) = 1
  <2> DEFINE Is(f) == f = [i \in 1..Len(q) |-> IF i = 1 THEN q[i] ELSE f[i - 1] \o q[i]]
             g == [i \in 1..Len(q) |-> q[i]]
  <2>1. \A i \in 1..Len(q) : i = 1
    BY <1>2
  <2>2. Is(g)
    BY <2>1
  <2>3. Is(CHOOSE f : Is(f))
    BY <2>2, Zenon
  <2>4. FlattenSeq(q) = (CHOOSE f : Is(f))[Len(q)]
    BY <1>2 DEF FlattenSeq
  <2>5. PICK f : f = (CHOOSE h : Is(h))
    OBVIOUS
  <2>6. f[1] = q[1]
    BY <2>3, <2>5, <1>2
  <2> QED
    BY <1>0, <1>2, <2>4, <2>5, <2>6
<1> QED
  BY <1>0, <1>1, <1>2

\* A loop becomes a kernel over one or two sets.
LEMMA ShardType ==
  ASSUME NEW s \in NestedFors
  PROVE  ShardFor(s) \in Kernels /\ Len(ShardFor(s).dims) \in 1..2
<1>1. s.set \in DOMAIN SetLen /\ s.pre \in Seq(Atoms) /\ s.post \in Seq(Atoms)
      /\ s.inner \in Seq([set : DOMAIN SetLen, body : Seq(Atoms)]) /\ Len(s.inner) <= 1
  BY DEF NestedFors, Fors
<1>2. Len(s.inner) \in Nat /\ DOMAIN s.inner = 1..Len(s.inner)
      /\ \A i \in DOMAIN s.inner : s.inner[i] \in [set : DOMAIN SetLen, body : Seq(Atoms)]
  BY <1>1, SeqParts, Zenon
<1>3. PICK bodies \in Seq(Seq(Atoms)) : /\ bodies = [i \in DOMAIN s.inner |-> s.inner[i].body]
                                        /\ Len(bodies) <= 1
  <2> DEFINE b == [i \in DOMAIN s.inner |-> s.inner[i].body]
  <2>1. b \in [1..Len(s.inner) -> Seq(Atoms)]
    BY <1>2
  <2> HIDE DEF b
  <2>2. b \in Seq(Seq(Atoms)) /\ Len(b) = Len(s.inner)
    BY <1>2, <2>1, FunctionIsSeq, Zenon
  <2>3. Len(b) <= 1
    BY <1>1, <2>2
  <2> QED
    BY <2>2, <2>3 DEF b
<1>4. PICK sets \in Seq(DOMAIN SetLen) : /\ sets = [i \in DOMAIN s.inner |-> s.inner[i].set]
                                         /\ Len(sets) \in 0..1
  <2> DEFINE b == [i \in DOMAIN s.inner |-> s.inner[i].set]
  <2>1. b \in [1..Len(s.inner) -> DOMAIN SetLen]
    BY <1>2
  <2> HIDE DEF b
  <2>2. b \in Seq(DOMAIN SetLen) /\ Len(b) = Len(s.inner)
    BY <1>2, <2>1, FunctionIsSeq, Zenon
  <2>3. Len(b) \in 0..1
    <3>1. PICK n \in Nat : n = Len(s.inner) /\ n <= 1
      BY <1>1, <1>2, Zenon
    <3>2. n <= 1
      BY <3>1, Zenon
    <3>3. n \in 0..1
      BY <3>2
    <3> QED
      BY <2>2, <3>1, <3>3, Zenon
  <2> QED
    BY <2>2, <2>3 DEF b
<1>5. <<s.set>> \in Seq(DOMAIN SetLen) /\ Len(<<s.set>>) = 1
  BY <1>1
<1>6. PICK dims \in Seq(DOMAIN SetLen) : dims = <<s.set>> \o sets /\ Len(dims) \in 1..2
  <2>1. <<s.set>> \o sets \in Seq(DOMAIN SetLen) /\ Len(<<s.set>> \o sets) = 1 + Len(sets)
    BY <1>5, ConcatProperties
  <2>2. PICK n \in 0..1 : n = Len(sets)
    BY <1>4, Zenon
  <2>3. 1 + n \in 1..2
    OBVIOUS
  <2> QED
    BY <2>1, <2>2, <2>3, Zenon
<1>7. FlattenSeq(bodies) \in Seq(Atoms)
  BY <1>3, FlattenOne
<1>8. Guarded(s.pre, s) \in Seq(Atoms) /\ Guarded(s.post, s) \in Seq(Atoms)
  BY <1>1, GuardedType
<1>9. PICK body \in Seq(Atoms) : body = Guarded(s.pre, s) \o FlattenSeq(bodies) \o Guarded(s.post, s)
  <2>1. Guarded(s.pre, s) \o FlattenSeq(bodies) \in Seq(Atoms)
    BY <1>7, <1>8, ConcatProperties, Zenon
  <2>2. Guarded(s.pre, s) \o FlattenSeq(bodies) \o Guarded(s.post, s) \in Seq(Atoms)
    BY <1>8, <2>1, ConcatProperties, Zenon
  <2> QED
    BY <2>2, Zenon
<1>10. ShardFor(s) = [kind |-> "kernel", dims |-> dims, body |-> body, reads |-> {}, writes |-> {}]
  BY <1>3, <1>4, <1>6, <1>9, Zenon DEF ShardFor
<1> QED
  BY <1>6, <1>10 DEF Kernels

\* The analysis makes a kernel's arguments cover its body.
LEMMA AnalyseCovers ==
  ASSUME NEW k \in Kernels, Len(k.dims) \in 1..2
  PROVE  AnalyseStmt(k) \in GoodKernels
<1>1. PICK r \in SUBSET Vars, w \in SUBSET Vars : r = AllReads(k) /\ w = Writes(k)
  BY ReadsWritesType
<1>2. AnalyseStmt(k) = [k EXCEPT !.reads = r, !.writes = w]
  BY <1>1 DEF AnalyseStmt, Kernels
<1>3. \A a \in Range(k.body) : Names(a) \subseteq r \union w
  BY <1>1, ReadsWritesCover
<1> QED
  BY <1>2, <1>3 DEF GoodKernels, Kernels, Covered

\* Every statement of a program goes through the first passes.
PassStmt(s) == AnalyseStmt(ShardStmt(CompoundStmt(s)))

\* A loop becomes a kernel; host statements and memory sets stay.
LEMMA PassStmtType ==
  ASSUME NEW s \in NestedFors \union Hosts \union Memsets
  PROVE  PassStmt(s) \in Lowered
<1>1. CASE s \in NestedFors
  <2>1. PICK c \in NestedFors : c = CompoundStmt(s)
    BY <1>1, CompoundFor
  <2>2. ShardStmt(c) = ShardFor(c)
    BY DEF ShardStmt, NestedFors, Fors
  <2>3. AnalyseStmt(ShardFor(c)) \in GoodKernels
    BY ShardType, AnalyseCovers
  <2> QED
    BY <2>1, <2>2, <2>3 DEF PassStmt, Lowered
<1>2. CASE s \in Hosts
  <2>1. CompoundStmt(s) = [s EXCEPT !.atom = CompoundAtom(s.atom)]
    BY <1>2 DEF CompoundStmt, Hosts
  <2>2. CompoundAtom(s.atom) \in Atoms
    BY <1>2 DEF CompoundAtom, Hosts, Atoms
  <2>3. CompoundStmt(s) \in Hosts
    BY <1>2, <2>1, <2>2 DEF Hosts
  <2>4. PassStmt(s) = CompoundStmt(s)
    BY <2>3 DEF PassStmt, ShardStmt, AnalyseStmt, Hosts
  <2> QED
    BY <2>3, <2>4 DEF Lowered
<1>3. CASE s \in Memsets
  <2>1. PassStmt(s) = s
    BY <1>3 DEF PassStmt, CompoundStmt, ShardStmt, AnalyseStmt, Memsets
  <2> QED
    BY <1>3, <2>1 DEF Lowered
<1> QED
  BY <1>1, <1>2, <1>3

-------------------------------------------------------------------------------
(* Moving and fusing.                                                      *)

\* A fused kernel has the arguments of both kernels, and their bodies.
LEMMA FusedType ==
  ASSUME NEW k \in GoodKernels, NEW o \in GoodKernels, NEW forward
  PROVE  Fused(k, o, forward) \in Lowered
<1>0. k \in Kernels /\ o \in Kernels /\ Covered(k) /\ Len(k.dims) \in 1..2
      /\ k.body \in Seq(Atoms) /\ o.body \in Seq(Atoms)
      /\ k.reads \subseteq Vars /\ k.writes \subseteq Vars
  BY DEF GoodKernels, Kernels
<1>1. CASE Len(k.dims) > 1
  BY <1>1 DEF Fused, Lowered, Aborts
<1>2. CASE ~(Len(k.dims) > 1)
  <2>1. PICK body \in Seq(Atoms) :
          /\ body = IF forward THEN k.body \o o.body ELSE o.body \o k.body
          /\ Range(body) \subseteq Range(k.body) \union Range(o.body)
    <3>1. k.body \o o.body \in Seq(Atoms) /\ Range(k.body \o o.body) \subseteq Range(k.body) \union Range(o.body)
      BY <1>0, ConcatRange, Zenon
    <3>2. o.body \o k.body \in Seq(Atoms) /\ Range(o.body \o k.body) \subseteq Range(o.body) \union Range(k.body)
      BY <1>0, ConcatRange, Zenon
    <3>3. CASE forward
      BY <3>1, <3>3
    <3>4. CASE ~forward
      BY <3>2, <3>4
    <3> QED
      BY <3>3, <3>4
  <2>2. PICK r \in SUBSET Vars, w \in SUBSET Vars : r = AllReads(o) /\ w = Writes(o)
    BY <1>0, ReadsWritesType
  <2>3. PICK kr \in SUBSET Vars, kw \in SUBSET Vars : kr = k.reads \union r /\ kw = k.writes \union w
    BY <1>0
  <2>4. Fused(k, o, forward) = [k EXCEPT !.body = body, !.reads = kr, !.writes = kw]
    BY <1>2, <2>1, <2>2, <2>3, Zenon DEF Fused
  <2>5. \A a \in Range(body) : Names(a) \subseteq kr \union kw
    <3>1. ASSUME NEW a \in Range(k.body) PROVE Names(a) \subseteq kr \union kw
      <4>1. Names(a) \subseteq k.reads \union k.writes
        BY <1>0 DEF Covered
      <4> QED
        BY <4>1, <2>3
    <3>2. ASSUME NEW a \in Range(o.body) PROVE Names(a) \subseteq kr \union kw
      <4>1. Names(a) \subseteq r \union w
        BY <1>0, <2>2, ReadsWritesCover
      <4> QED
        BY <4>1, <2>3
    <3> QED
      BY <2>1, <3>1, <3>2
  <2>6. [k EXCEPT !.body = body, !.reads = kr, !.writes = kw] \in GoodKernels
    BY <1>0, <2>5 DEF GoodKernels, Kernels, Covered
  <2> QED
    BY <2>4, <2>6 DEF Lowered
<1> QED
  BY <1>1, <1>2

\* The kernels a walk can hold: none or one.
Holds == {<<>>} \union {<<k>> : k \in GoodKernels}

Accs == [out : Seq(Lowered), hold : Holds]

\* A statement of the walk leaves statements placed and at most a kernel held.
LEMMA PlaceType ==
  ASSUME NEW acc \in Accs, NEW o \in Lowered, NEW forward
  PROVE  Place(acc, o, forward) \in Accs
<1> DEFINE held(out) == IF o.kind = "kernel" THEN [out |-> out, hold |-> <<o>>]
                                             ELSE [out |-> Append(out, o), hold |-> <<>>]
<1>0. acc.out \in Seq(Lowered) /\ acc.hold \in Holds
  BY DEF Accs
<1>1. ASSUME NEW q \in Seq(Lowered), NEW e \in Lowered PROVE Append(q, e) \in Seq(Lowered)
  BY AppendProperties, Zenon
<1>2. ASSUME NEW out \in Seq(Lowered) PROVE held(out) \in Accs
  <2>1. Append(out, o) \in Seq(Lowered)
    BY <1>1, Zenon
  <2>2. CASE o.kind = "kernel"
    <3>1. o \in GoodKernels
      BY <2>2, KindOf
    <3>2. <<o>> \in Holds
      BY <3>1, Zenon DEF Holds
    <3> QED
      BY <2>2, <3>2 DEF Accs
  <2>3. CASE o.kind # "kernel"
    <3>1. <<>> \in Holds
      BY Zenon DEF Holds
    <3> QED
      BY <2>1, <2>3, <3>1 DEF Accs
  <2> QED
    BY <2>2, <2>3, Zenon
<1>3. CASE acc.hold = <<>>
  <2>1. Place(acc, o, forward) = held(acc.out)
    BY <1>3 DEF Place
  <2> QED
    BY <2>1, <1>0, <1>2, Zenon
<1>4. CASE acc.hold # <<>>
  <2>1. PICK k \in GoodKernels : acc.hold = <<k>>
    BY <1>0, <1>4, Zenon DEF Holds
  <2>2. acc.hold[1] = k /\ k \in Lowered
    BY <2>1 DEF Lowered
  <2>3. Append(acc.out, k) \in Seq(Lowered)
    BY <1>0, <1>1, <2>2, Zenon
  <2> HIDE DEF held
  <2>4. CASE Conflict(k, o)
    <3>1. Place(acc, o, forward) = held(Append(acc.out, k))
      BY <1>4, <2>2, <2>4 DEF Place, held
    <3> QED
      BY <3>1, <2>3, <1>2, Zenon
  <2>5. CASE ~Conflict(k, o) /\ o.kind # "kernel"
    <3>1. Place(acc, o, forward) = [out |-> Append(acc.out, o), hold |-> acc.hold]
      BY <1>4, <2>2, <2>5 DEF Place
    <3>2. Append(acc.out, o) \in Seq(Lowered)
      BY <1>0, <1>1, Zenon
    <3> QED
      BY <3>1, <3>2, <1>0 DEF Accs
  <2>6. CASE ~Conflict(k, o) /\ o.kind = "kernel" /\ SameSharding(k, o)
    <3>1. Place(acc, o, forward) = [out |-> Append(acc.out, Fused(k, o, forward)), hold |-> <<>>]
      BY <1>4, <2>2, <2>6 DEF Place
    <3>2. o \in GoodKernels
      BY <2>6, KindOf
    <3>3. Append(acc.out, Fused(k, o, forward)) \in Seq(Lowered)
      BY <1>0, <1>1, <3>2, FusedType, Zenon
    <3>4. <<>> \in Holds
      BY Zenon DEF Holds
    <3> QED
      BY <3>1, <3>3, <3>4 DEF Accs
  <2>7. CASE ~Conflict(k, o) /\ o.kind = "kernel" /\ ~SameSharding(k, o)
    <3>1. Place(acc, o, forward) = held(Append(acc.out, k))
      BY <1>4, <2>2, <2>7 DEF Place, held
    <3> QED
      BY <3>1, <2>3, <1>2, Zenon
  <2> QED
    BY <2>4, <2>5, <2>6, <2>7, Zenon
<1> QED
  BY <1>3, <1>4, Zenon

\* The walk's accumulator: g is the function that the walk of m statements is.
IsWalk(g, walk, forward, m) ==
  g = [n \in 0..m |-> IF n = 0 THEN [out |-> <<>>, hold |-> <<>>] ELSE Place(g[n - 1], walk[n], forward)]

\* Walks of every length exist.
LEMMA WalkExists ==
  ASSUME NEW walk, NEW forward
  PROVE  \A m \in Nat : \E g : IsWalk(g, walk, forward, m)
<1> DEFINE Base == [out |-> <<>>, hold |-> <<>>]
           S == {m \in Nat : \E g : IsWalk(g, walk, forward, m)}
<1>1. 0 \in S
  <2> DEFINE g == [n \in 0..0 |-> Base]
  <2>1. g = [n \in 0..0 |-> IF n = 0 THEN Base ELSE Place(g[n - 1], walk[n], forward)]
    OBVIOUS
  <2> QED
    BY <2>1 DEF IsWalk
<1>2. ASSUME NEW m \in Nat, m \in S PROVE m + 1 \in S
  <2>1. PICK g : IsWalk(g, walk, forward, m)
    BY <1>2
  <2> DEFINE h == [n \in 0..(m + 1) |-> IF n = 0 THEN Base ELSE Place(g[n - 1], walk[n], forward)]
  <2>2. \A n \in 0..m : h[n] = g[n]
    BY <2>1 DEF IsWalk
  <2>3. ASSUME NEW n \in 0..(m + 1), n # 0
        PROVE  h[n - 1] = g[n - 1]
    <3>1. n - 1 \in 0..m
      BY <2>3
    <3> QED
      BY <2>2, <3>1, Zenon
  <2>4. h = [n \in 0..(m + 1) |-> IF n = 0 THEN Base ELSE Place(h[n - 1], walk[n], forward)]
    BY <2>3
  <2>5. IsWalk(h, walk, forward, m + 1)
    BY <2>4, Zenon DEF IsWalk
  <2>6. m + 1 \in Nat
    OBVIOUS
  <2> HIDE DEF h
  <2> QED
    BY <2>5, <2>6, Zenon
<1> HIDE DEF S
<1>3. \A n \in Nat : n \in S
  BY <1>1, <1>2, InductionOnNat, Zenon
<1> QED
  BY <1>3, Zenon DEF S

\* The walk of a block leaves statements placed and at most a kernel held.
LEMMA WalkedType ==
  ASSUME NEW walk \in Seq(Lowered), walk # <<>>, NEW forward
  PROVE  Walked(walk, forward) \in Accs
<1>0. Len(walk) \in Nat /\ Len(walk) - 1 \in Nat /\ DOMAIN walk = 1..Len(walk)
      /\ \A i \in DOMAIN walk : walk[i] \in Lowered
  <2>1. Len(walk) \in Nat /\ DOMAIN walk = 1..Len(walk) /\ \A i \in DOMAIN walk : walk[i] \in Lowered
    BY SeqParts, Zenon
  <2>2. Len(walk) \in Nat \ {0}
    BY EmptySeq, ZenonT(60)
  <2> QED
    BY <2>1, <2>2
<1>1. PICK m \in Nat : m = Len(walk) - 1
  BY <1>0, Zenon
<1>2. PICK g : g = (CHOOSE f : IsWalk(f, walk, forward, m))
  OBVIOUS
<1>3. IsWalk(g, walk, forward, m)
  BY <1>2, WalkExists, Zenon
<1>4. Walked(walk, forward) = g[m]
  BY <1>1, <1>2 DEF Walked, IsWalk
<1> DEFINE S == {n \in Nat : n <= m => g[n] \in Accs}
<1>5. 0 \in S
  <2>1. <<>> \in Seq(Lowered) /\ <<>> \in Holds
    BY EmptySeq, Zenon DEF Holds
  <2>2. g[0] = [out |-> <<>>, hold |-> <<>>]
    BY <1>3 DEF IsWalk
  <2>3. [out |-> <<>>, hold |-> <<>>] \in Accs
    BY <2>1 DEF Accs
  <2>4. 0 \in Nat
    OBVIOUS
  <2> QED
    BY <2>2, <2>3, <2>4, Zenon
<1>6. ASSUME NEW n \in Nat, n \in S PROVE n + 1 \in S
  <2>1. CASE n + 1 <= m
    <3>1. g[n] \in Accs
      BY <2>1, <1>6
    <3>2. n + 1 \in 0..m /\ n + 1 # 0 /\ (n + 1) - 1 = n
      BY <2>1
    <3>3. g[n + 1] = Place(g[n], walk[n + 1], forward)
      BY <1>3, <3>2 DEF IsWalk
    <3>4. walk[n + 1] \in Lowered
      BY <1>0, <1>1, <2>1
    <3> QED
      BY <3>1, <3>3, <3>4, PlaceType
  <2>2. CASE ~(n + 1 <= m)
    BY <2>2
  <2> QED
    BY <2>1, <2>2
<1> HIDE DEF S
<1>7. m \in S
  BY <1>5, <1>6, InductionOnNat, Zenon
<1> QED
  BY <1>4, <1>7 DEF S

\* Turning a block around keeps its statements.
LEMMA ReverseType ==
  ASSUME NEW S, NEW q \in Seq(S), q # <<>>
  PROVE  Reverse(q) \in Seq(S) /\ Reverse(q) # <<>>
<1>1. Len(q) \in Nat /\ DOMAIN q = 1..Len(q) /\ \A i \in DOMAIN q : q[i] \in S
  BY SeqParts, Zenon
<1>2. Len(q) \in Nat \ {0}
  BY EmptySeq, Zenon
<1>3. ASSUME NEW i \in 1..Len(q) PROVE q[(Len(q) - i) + 1] \in S
  <2>1. (Len(q) - i) + 1 \in 1..Len(q)
    BY <1>1
  <2> QED
    BY <1>1, <2>1, Zenon
<1>4. Reverse(q) \in [1..Len(q) -> S]
  BY <1>3, Zenon DEF Reverse
<1>5. Reverse(q) \in Seq(S) /\ Len(Reverse(q)) = Len(q)
  BY <1>1, <1>4, FunctionIsSeq, Zenon
<1>6. Len(<<>>) = 0
  OBVIOUS
<1> QED
  BY <1>2, <1>5, <1>6, Zenon

\* A walk over a block leaves a block that is not empty.
LEMMA SwapType ==
  ASSUME NEW list \in Seq(Lowered), list # <<>>, NEW forward
  PROVE  SwapKernels(list, forward) \in Seq(Lowered) /\ SwapKernels(list, forward) # <<>>
<1>1. PICK walk \in Seq(Lowered) : walk = (IF forward THEN list ELSE Reverse(list)) /\ walk # <<>>
  <2>1. Reverse(list) \in Seq(Lowered) /\ Reverse(list) # <<>>
    BY ReverseType, Zenon
  <2>2. CASE forward
    BY <2>2
  <2>3. CASE ~forward
    BY <2>1, <2>3
  <2> QED
    BY <2>2, <2>3
<1>2. PICK acc \in Accs : acc = Walked(walk, forward)
  BY <1>1, WalkedType
<1>3. acc.out \in Seq(Lowered) /\ acc.hold \in Seq(Lowered)
  <2>1. acc.out \in Seq(Lowered) /\ acc.hold \in Holds
    BY DEF Accs
  <2>2. ASSUME NEW k \in GoodKernels PROVE <<k>> \in Seq(Lowered)
    BY DEF Lowered
  <2>3. <<>> \in Seq(Lowered)
    BY EmptySeq, Zenon
  <2> QED
    BY <2>1, <2>2, <2>3, Zenon DEF Holds
<1>4. PICK e \in Lowered : e = Last(walk)
  <2>1. Len(walk) \in Nat \ {0}
    BY <1>1, EmptySeq, Zenon
  <2>2. Len(walk) \in DOMAIN walk
    BY <2>1, SeqParts
  <2>3. walk[Len(walk)] \in Lowered
    BY <2>2, SeqParts, Zenon
  <2> QED
    BY <2>3 DEF Last
<1>5. <<e>> \in Seq(Lowered) /\ Len(<<e>>) = 1
  OBVIOUS
<1>6. PICK res \in Seq(Lowered) : res = acc.out \o acc.hold \o <<e>> /\ res # <<>>
  <2>1. acc.out \o acc.hold \in Seq(Lowered)
    BY <1>3, ConcatProperties, Zenon
  <2>2. PICK a \in Seq(Lowered) : a = acc.out \o acc.hold
    BY <2>1, Zenon
  <2>3. a \o <<e>> \in Seq(Lowered) /\ Len(a \o <<e>>) = Len(a) + 1
    BY <1>5, ConcatProperties
  <2>4. Len(a) \in Nat
    BY SeqParts, Zenon
  <2>5. Len(a \o <<e>>) # 0
    BY <2>3, <2>4
  <2>6. Len(<<>>) = 0
    OBVIOUS
  <2> QED
    BY <2>2, <2>3, <2>5, <2>6, Zenon
<1>7. SwapKernels(list, forward) = IF forward THEN res ELSE Reverse(res)
  BY <1>1, <1>2, <1>4, <1>6, Zenon DEF SwapKernels
<1>8. Reverse(res) \in Seq(Lowered) /\ Reverse(res) # <<>>
  BY <1>6, ReverseType, Zenon
<1>9. CASE forward
  BY <1>6, <1>7, <1>9
<1>10. CASE ~forward
  BY <1>7, <1>8, <1>10
<1> QED
  BY <1>9, <1>10

\* Compiling a program leaves kernels whose arguments cover their bodies,
\* host statements, memory sets, and aborts.
LEMMA CompiledType ==
  ASSUME NEW p \in Programs
  PROVE  Compiled(p) \in Seq(Lowered)
<1>1. p \in Seq(Fors \union Hosts \union Memsets) /\ p # <<>>
      /\ \A i \in DOMAIN p : p[i].kind = "for" => Len(p[i].inner) <= 1
  BY ProgramsAssumption
<1>2. Len(p) \in Nat /\ DOMAIN p = 1..Len(p) /\ \A i \in DOMAIN p : p[i] \in Fors \union Hosts \union Memsets
  BY <1>1, SeqParts, Zenon
<1>3. Len(p) \in Nat \ {0}
  BY <1>1, EmptySeq, Zenon
<1>4. ASSUME NEW i \in DOMAIN p PROVE PassStmt(p[i]) \in Lowered
  <2>1. p[i] \in NestedFors \union Hosts \union Memsets
    <3>1. p[i] \in Fors => p[i].kind = "for"
      BY DEF Fors
    <3> QED
      BY <1>1, <1>2, <3>1 DEF NestedFors
  <2> QED
    BY <2>1, PassStmtType
<1> DEFINE passed == Each(AnalyseStmt, Each(ShardStmt, Each(CompoundStmt, p)))
<1>5. passed = [i \in DOMAIN p |-> PassStmt(p[i])]
  BY DEF Each, PassStmt
<1>6. passed \in [1..Len(p) -> Lowered]
  BY <1>2, <1>4, <1>5, Zenon
<1> HIDE DEF passed
<1>7. passed \in Seq(Lowered) /\ Len(passed) = Len(p)
  BY <1>2, <1>6, FunctionIsSeq, Zenon
<1>8. passed # <<>>
  <2>1. Len(<<>>) = 0
    OBVIOUS
  <2> QED
    BY <1>3, <1>7, <2>1, Zenon
<1>9. PICK forth \in Seq(Lowered) : forth = SwapKernels(passed, TRUE) /\ forth # <<>>
  BY <1>7, <1>8, SwapType, Zenon
<1>10. SwapKernels(forth, FALSE) \in Seq(Lowered)
  BY <1>9, SwapType, Zenon
<1> QED
  BY <1>9, <1>10, Zenon DEF Compiled, FuseAll, passed

-------------------------------------------------------------------------------
(* The inductive invariant.                                                *)

\* The function is what the passes leave, and a function that aborted the
\* compiler does not run.
FuncLowered ==
  /\ func \in Seq(Lowered)
  /\ phase \in {"run", "done", "aborted"}
  /\ phase # "aborted" => \A i \in DOMAIN func : func[i].kind # "abort"

\* The threads are those of the kernel or memory set the host is at.
ThreadsLaunched ==
  /\ pc \in Nat \ {0}
  /\ threads # <<>> =>
       /\ phase = "run" /\ pc <= Len(func) /\ func[pc].kind # "host"
       /\ DOMAIN threads = Grid(func[pc])

Inv == FuncLowered /\ ThreadsLaunched

\* Compiled functions start with nothing launched.
LEMMA InitInv == Init => Inv
<1> SUFFICES ASSUME Init PROVE Inv
  OBVIOUS
<1>1. func \in Seq(Lowered)
  BY CompiledType DEF Init
<1>2. phase = IF \E i \in DOMAIN func : func[i].kind = "abort" THEN "aborted" ELSE "run"
  BY DEF Init
<1>3. FuncLowered
  BY <1>1, <1>2 DEF FuncLowered
<1>4. ThreadsLaunched
  BY DEF Init, ThreadsLaunched
<1> QED
  BY <1>3, <1>4 DEF Inv

\* A thread's step keeps the launch.
LEMMA ThreadInv ==
  ASSUME Inv, NEW t, Thread(t)
  PROVE  Inv'
<1>1. UNCHANGED <<source, func, phase, pc>>
  BY DEF Thread, EarlyExit, SkipGuarded, LoadOperand, Commit
<1>2. t \in DOMAIN threads /\ DOMAIN threads' = DOMAIN threads
  BY DEF Thread, EarlyExit, SkipGuarded, LoadOperand, Commit
<1>3. threads # <<>>
  BY <1>2
<1>4. Grid(func[pc])' = Grid(func[pc])
  BY <1>1 DEF Grid, Lens, Tids, Blocks, Signed, Wrap
<1> QED
  BY <1>1, <1>2, <1>3, <1>4 DEF Inv, FuncLowered, ThreadsLaunched

\* Every step keeps the invariant.
LEMMA NextInv ==
  ASSUME Inv, [Next]_vars
  PROVE  Inv'
<1>1. CASE HostStmt
  BY <1>1 DEF HostStmt, Inv, FuncLowered, ThreadsLaunched
<1>2. CASE Launch
  <2>1. DOMAIN threads' = Grid(func[pc])
    BY <1>2 DEF Launch
  <2>2. UNCHANGED <<func, phase, pc>>
    BY <1>2 DEF Launch
  <2>3. Grid(func[pc])' = Grid(func[pc])
    BY <2>2 DEF Grid, Lens, Tids, Blocks, Signed, Wrap
  <2> QED
    BY <1>2, <2>1, <2>2, <2>3 DEF Launch, Inv, FuncLowered, ThreadsLaunched
<1>3. CASE DeviceSync
  BY <1>3 DEF DeviceSync, Inv, FuncLowered, ThreadsLaunched
<1>4. CASE Return
  <2>1. Len(func) \in Nat
    BY SeqParts DEF Inv, FuncLowered
  <2>2. threads = <<>>
    BY <1>4, <2>1 DEF Return, Inv, ThreadsLaunched
  <2> QED
    BY <1>4, <2>2 DEF Return, Inv, FuncLowered, ThreadsLaunched
<1>5. CASE \E t \in AllTids \X AllTids : Thread(t)
  BY <1>5, ThreadInv
<1>6. CASE UNCHANGED vars
  <2>1. UNCHANGED <<func, phase, pc, threads>>
    BY <1>6 DEF vars
  <2>2. Grid(func[pc])' = Grid(func[pc])
    BY <2>1 DEF Grid, Lens, Tids, Blocks, Signed, Wrap
  <2> QED
    BY <2>1, <2>2 DEF Inv, FuncLowered, ThreadsLaunched
<1> QED
  BY <1>1, <1>2, <1>3, <1>4, <1>5, <1>6 DEF Next, Host

\* The invariant holds of every behaviour: the passes leave well-formed
\* statements, whatever they moved and fused, and the threads that run are
\* those of the statement the host waits at.
THEOREM KernelsStayLowered == Spec => []Inv
<1>1. Init => Inv
  BY InitInv
<1>2. Inv /\ [Next]_vars => Inv'
  BY NextInv
<1> QED
  BY <1>1, <1>2, PTL DEF Spec

-------------------------------------------------------------------------------
(* What follows from it.                                                   *)

\* The lengths of a statement that is launched are one or two valid lengths.
LEMMA LensType ==
  ASSUME NEW s \in Lowered, s.kind \in {"kernel", "memset"}
  PROVE  /\ Len(Lens(s)) \in 1..2
         /\ Lens(s)[1] \in Lengths
         /\ Len(Lens(s)) = 2 => Lens(s)[2] \in Lengths
<1>1. CASE s.kind = "memset"
  <2>1. s.var \in Vars
    BY <1>1, KindOf DEF Memsets
  <2>2. VarLen[s.var] \in Lengths
    BY <2>1, LaunchAssumption DEF Lengths
  <2>3. Lens(s) = <<VarLen[s.var]>>
    BY <1>1 DEF Lens
  <2> QED
    BY <2>2, <2>3
<1>2. CASE s.kind = "kernel"
  <2>1. s \in GoodKernels
    BY <1>2, KindOf
  <2>2. s.dims \in Seq(DOMAIN SetLen) /\ Len(s.dims) \in 1..2
    BY <2>1 DEF GoodKernels, Kernels
  <2>3. Len(s.dims) \in Nat /\ DOMAIN s.dims = 1..Len(s.dims)
        /\ \A i \in DOMAIN s.dims : s.dims[i] \in DOMAIN SetLen
    BY <2>2, SeqParts, Zenon
  <2>4. Lens(s) = [i \in DOMAIN s.dims |-> SetLen[s.dims[i]]]
    BY <1>2 DEF Lens
  <2>5. ASSUME NEW i \in DOMAIN s.dims PROVE Lens(s)[i] \in Lengths
    <3>1. SetLen[s.dims[i]] \in Lengths
      BY <2>3, LaunchAssumption, Zenon DEF Lengths
    <3> QED
      BY <2>4, <3>1, Zenon
  <2>6. Lens(s) \in [1..Len(s.dims) -> Lengths]
    BY <2>3, <2>4, <2>5, Zenon
  <2>7. Len(Lens(s)) = Len(s.dims)
    BY <2>3, <2>6, FunctionIsSeq, Zenon
  <2>8. PICK n \in 1..2 : n = Len(s.dims)
    BY <2>2, Zenon
  <2>9. 1 \in 1..n /\ (n = 2 => 2 \in 1..n)
    OBVIOUS
  <2> QED
    BY <2>3, <2>5, <2>7, <2>8, <2>9, Zenon
<1> QED
  BY <1>1, <1>2

\* The threads of a launch that pass the guard are the elements of its sets.
LEMMA GridCovers ==
  ASSUME NEW s \in Lowered, s.kind \in {"kernel", "memset"}
  PROVE  {t \in Grid(s) : InsideGuard(s, t)} =
           (0..(Lens(s)[1] - 1)) \X (IF Len(Lens(s)) = 2 THEN 0..(Lens(s)[2] - 1) ELSE {0})
<1>1. PICK l1 \in Lengths : l1 = Lens(s)[1]
  BY LensType, Zenon
<1>2. {t \in Tids(l1) : t < l1} = 0..(l1 - 1)
  BY TidsCover, Zenon
<1>3. CASE Len(Lens(s)) = 2
  <2>1. PICK l2 \in Lengths : l2 = Lens(s)[2]
    BY <1>3, LensType, Zenon
  <2>2. {t \in Tids(l2) : t < l2} = 0..(l2 - 1)
    BY TidsCover, Zenon
  <2>3. Grid(s) = Tids(l1) \X Tids(l2)
    BY <1>1, <1>3, <2>1, Zenon DEF Grid
  <2>4. \A t : InsideGuard(s, t) <=> t[1] < l1 /\ t[2] < l2
    BY <1>1, <1>3, <2>1, Zenon DEF InsideGuard
  <2>5. {t \in Tids(l1) \X Tids(l2) : t[1] < l1 /\ t[2] < l2} = (0..(l1 - 1)) \X (0..(l2 - 1))
    BY <1>2, <2>2
  <2> QED
    BY <1>1, <1>3, <2>1, <2>3, <2>4, <2>5
<1>4. CASE Len(Lens(s)) # 2
  <2>1. Grid(s) = Tids(l1) \X {0}
    BY <1>1, <1>4, Zenon DEF Grid
  <2>2. \A t : InsideGuard(s, t) <=> t[1] < l1
    BY <1>1, <1>4, Zenon DEF InsideGuard
  <2>3. {t \in Tids(l1) \X {0} : t[1] < l1} = (0..(l1 - 1)) \X {0}
    BY <1>2
  <2> QED
    BY <1>1, <1>4, <2>1, <2>2, <2>3
<1> QED
  BY <1>3, <1>4

\* Whatever the lengths and the block size, the threads of a launch that run
\* the body are exactly the elements of the kernel's sets (emitKernelLaunch,
\* the guard of compile(GPUKernel)).
THEOREM LaunchesCover == Spec => []LaunchCoversDomain
<1>1. Inv => LaunchCoversDomain
  <2> SUFFICES ASSUME Inv, threads # <<>> PROVE LaunchCoversDomain
    BY DEF LaunchCoversDomain
  <2>1. phase = "run" /\ pc <= Len(func) /\ func[pc].kind # "host" /\ DOMAIN threads = Grid(func[pc])
        /\ pc \in Nat \ {0}
    BY DEF Inv, ThreadsLaunched
  <2>2. func \in Seq(Lowered) /\ \A i \in DOMAIN func : func[i].kind # "abort"
    BY <2>1 DEF Inv, FuncLowered
  <2>3. Len(func) \in Nat /\ DOMAIN func = 1..Len(func) /\ \A i \in DOMAIN func : func[i] \in Lowered
    BY <2>2, SeqParts, Zenon
  <2>4. pc \in DOMAIN func
    BY <2>1, <2>3
  <2>5. func[pc] \in Lowered /\ func[pc].kind \in {"kernel", "memset"}
    BY <2>1, <2>2, <2>3, <2>4, KindOf
  <2> QED
    BY <2>1, <2>5, GridCovers, Zenon DEF LaunchCoversDomain
<1> QED
  BY <1>1, KernelsStayLowered, PTL

\* Whatever kernels were moved and fused, in both walks, everything the body
\* of a kernel names is among its arguments (KernelSwapRewriter).
THEOREM ArgumentsAlwaysCover == Spec => []ArgumentsCoverBody
<1>1. Inv => ArgumentsCoverBody
  <2> SUFFICES ASSUME Inv, NEW i \in DOMAIN func, func[i].kind = "kernel",
                      NEW a \in Range(func[i].body)
               PROVE  {a.dst} \union AtomReads(a) \subseteq func[i].reads \union func[i].writes
    BY DEF ArgumentsCoverBody
  <2>1. func[i] \in Lowered
    BY SeqParts, Zenon DEF Inv, FuncLowered
  <2>2. Covered(func[i])
    BY <2>1, KindOf DEF GoodKernels
  <2> QED
    BY <2>2, Zenon DEF Covered, Names
<1> QED
  BY <1>1, KernelsStayLowered, PTL

-------------------------------------------------------------------------------
(* Sums of numbers in a table.                                             *)

Sum(n, f) ==
  LET sum[i \in 0..n] == IF i = 0 THEN 0 ELSE sum[i - 1] + f[i - 1]
  IN  sum[n]

IsSum(g, n, f) == g = [i \in 0..n |-> IF i = 0 THEN 0 ELSE g[i - 1] + f[i - 1]]

\* Partial sums of every length exist.
LEMMA SumExists ==
  ASSUME NEW f
  PROVE  \A n \in Nat : \E g : IsSum(g, n, f)
<1> DEFINE S == {n \in Nat : \E g : IsSum(g, n, f)}
<1>1. 0 \in S
  <2> DEFINE g == [i \in 0..0 |-> 0]
  <2>1. g = [i \in 0..0 |-> IF i = 0 THEN 0 ELSE g[i - 1] + f[i - 1]]
    OBVIOUS
  <2> QED
    BY <2>1 DEF IsSum
<1>2. ASSUME NEW n \in Nat, n \in S PROVE n + 1 \in S
  <2>1. PICK g : IsSum(g, n, f)
    BY <1>2
  <2> DEFINE h == [i \in 0..(n + 1) |-> IF i = 0 THEN 0 ELSE g[i - 1] + f[i - 1]]
  <2>2. \A i \in 0..n : h[i] = g[i]
    BY <2>1 DEF IsSum
  <2>3. ASSUME NEW i \in 0..(n + 1), i # 0 PROVE h[i - 1] = g[i - 1]
    <3>1. i - 1 \in 0..n
      BY <2>3
    <3> QED
      BY <2>2, <3>1, Zenon
  <2>4. h = [i \in 0..(n + 1) |-> IF i = 0 THEN 0 ELSE h[i - 1] + f[i - 1]]
    BY <2>3
  <2>5. IsSum(h, n + 1, f)
    BY <2>4, Zenon DEF IsSum
  <2>6. n + 1 \in Nat
    OBVIOUS
  <2> HIDE DEF h
  <2> QED
    BY <2>5, <2>6, Zenon
<1> HIDE DEF S
<1>3. \A n \in Nat : n \in S
  BY <1>1, <1>2, InductionOnNat, Zenon
<1> QED
  BY <1>3, Zenon DEF S

\* The numbers in a table.
Ints(n, f) == \A i \in 0..(n - 1) : f[i] \in Int

\* The partial sums: sum[n] is the sum, each takes one number more.
Sums(g, n, f) ==
  /\ g \in [0..n -> Int] /\ g[0] = 0 /\ g[n] = Sum(n, f)
  /\ \A i \in 0..(n - 1) : g[i + 1] = g[i] + f[i]

\* The partial sums of numbers are numbers, each one number more than the last.
LEMMA SumIs ==
  ASSUME NEW n \in Nat, NEW f, Ints(n, f)
  PROVE  \E g : Sums(g, n, f)
<1>1. PICK g : g = (CHOOSE h : IsSum(h, n, f))
  OBVIOUS
<1>2. IsSum(g, n, f)
  BY <1>1, SumExists, Zenon
<1>3. Sum(n, f) = g[n]
  BY <1>1, Zenon DEF Sum, IsSum
<1>4. g[0] = 0 /\ \A i \in 0..(n - 1) : g[i + 1] = g[i] + f[i]
  <2>1. g[0] = 0
    BY <1>2 DEF IsSum
  <2>2. ASSUME NEW i \in 0..(n - 1) PROVE g[i + 1] = g[i] + f[i]
    <3>1. i + 1 \in 0..n /\ i + 1 # 0 /\ (i + 1) - 1 = i
      OBVIOUS
    <3> QED
      BY <1>2, <3>1 DEF IsSum
  <2> QED
    BY <2>1, <2>2, Zenon
<1> DEFINE S == {i \in Nat : i <= n => g[i] \in Int}
<1>5. 0 \in S
  BY <1>4
<1>6. ASSUME NEW i \in Nat, i \in S PROVE i + 1 \in S
  <2>1. CASE i + 1 <= n
    <3>1. i \in 0..(n - 1) /\ g[i] \in Int
      BY <2>1, <1>6
    <3>2. g[i + 1] = g[i] + f[i] /\ f[i] \in Int
      BY <3>1, <1>4, Zenon DEF Ints
    <3> QED
      BY <3>1, <3>2
  <2> QED
    BY <2>1
<1>7. \A i \in Nat : i \in S
  <2> HIDE DEF S
  <2> QED
    BY <1>5, <1>6, InductionOnNat, Zenon
<1>8. \A i \in 0..n : g[i] \in Int
  BY <1>7
<1>9. g = [i \in 0..n |-> g[i]]
  <2>1. DOMAIN g = 0..n /\ g = [i \in DOMAIN g |-> g[i]]
    BY <1>2 DEF IsSum
  <2> QED
    BY <2>1
<1>10. g \in [0..n -> Int]
  BY <1>8, <1>9
<1> QED
  BY <1>3, <1>4, <1>10, Zenon DEF Sums

\* Two tables that differ by d at one place.
Changed(n, f, h, k, d) ==
  /\ \A i \in 0..(n - 1) : i # k => h[i] = f[i]
  /\ h[k] = f[k] + d

\* Changing one number changes the sum by as much.
LEMMA SumChange ==
  ASSUME NEW n \in Nat, NEW f, NEW h, Ints(n, f), Ints(n, h),
         NEW k \in 0..(n - 1), NEW d \in Int, Changed(n, f, h, k, d)
  PROVE  Sum(n, h) = Sum(n, f) + d
<1>1. PICK g : Sums(g, n, f)
  BY SumIs, Zenon
<1>2. PICK e : Sums(e, n, h)
  BY SumIs, Zenon
<1> DEFINE S == {i \in Nat : i <= n => e[i] = IF i <= k THEN g[i] ELSE g[i] + d}
<1>3. 0 \in S
  BY <1>1, <1>2 DEF Sums
<1>4. ASSUME NEW i \in Nat, i \in S PROVE i + 1 \in S
  <2>1. CASE i + 1 <= n
    <3>1. i \in 0..(n - 1) /\ i <= n
      BY <2>1
    <3>2. g[i + 1] = g[i] + f[i] /\ e[i + 1] = e[i] + h[i] /\ f[i] \in Int /\ h[i] \in Int
      BY <1>1, <1>2, <3>1, Zenon DEF Sums, Ints
    <3>3. g[i] \in Int /\ e[i] \in Int
      BY <1>1, <1>2, <3>1 DEF Sums
    <3>4. e[i] = IF i <= k THEN g[i] ELSE g[i] + d
      BY <1>4, <3>1
    <3>5. CASE i = k
      <4>1. h[i] = f[i] + d
        BY <3>5, Zenon DEF Changed
      <4> QED
        BY <3>2, <3>3, <3>4, <3>5, <4>1
    <3>6. CASE i # k
      <4>1. h[i] = f[i]
        BY <3>1, <3>6, Zenon DEF Changed
      <4> QED
        BY <3>2, <3>3, <3>4, <3>6, <4>1
    <3> QED
      BY <3>5, <3>6
  <2> QED
    BY <2>1
<1>5. n \in S
  <2> HIDE DEF S
  <2> QED
    BY <1>3, <1>4, InductionOnNat, Zenon
<1>6. e[n] = g[n] + d
  BY <1>5
<1> QED
  BY <1>1, <1>2, <1>6, Zenon DEF Sums

\* Numbers that are all zero add up to zero.
LEMMA SumZero ==
  ASSUME NEW n \in Nat, NEW f, \A i \in 0..(n - 1) : f[i] = 0
  PROVE  Sum(n, f) = 0
<1>0. Ints(n, f)
  BY DEF Ints
<1>1. PICK g : Sums(g, n, f)
  BY <1>0, SumIs, Zenon
<1> DEFINE S == {i \in Nat : i <= n => g[i] = 0}
<1>3. 0 \in S
  BY <1>1 DEF Sums
<1>4. ASSUME NEW i \in Nat, i \in S PROVE i + 1 \in S
  <2>1. CASE i + 1 <= n
    <3>1. i \in 0..(n - 1) /\ i <= n
      BY <2>1
    <3>2. g[i + 1] = g[i] + f[i] /\ f[i] = 0
      BY <1>1, <3>1, Zenon DEF Sums
    <3> QED
      BY <1>4, <3>1, <3>2
  <2> QED
    BY <2>1
<1>5. n \in S
  <2> HIDE DEF S
  <2> QED
    BY <1>3, <1>4, InductionOnNat, Zenon
<1>6. g[n] = 0
  BY <1>5
<1> QED
  BY <1>1, <1>6, Zenon DEF Sums

\* A sum of numbers is a number.
LEMMA SumType ==
  ASSUME NEW n \in Nat, NEW f, Ints(n, f)
  PROVE  Sum(n, f) \in Int
<1>1. PICK g : Sums(g, n, f)
  BY SumIs, Zenon
<1> QED
  BY <1>1 DEF Sums

\* The threads of a launch, inside the guard.
Threads(p, q) == (0..(p - 1)) \X (0..(q - 1))

Row(q, f, x) == [y \in 0..(q - 1) |-> f[<<x, y>>]]

Sum2(p, q, f) == Sum(p, [x \in 0..(p - 1) |-> Sum(q, Row(q, f, x))])

\* The sums of the rows are numbers.
LEMMA RowSums ==
  ASSUME NEW p \in Nat, NEW q \in Nat, NEW f \in [Threads(p, q) -> Int]
  PROVE  /\ \A x \in 0..(p - 1) : Ints(q, Row(q, f, x)) /\ Sum(q, Row(q, f, x)) \in Int
         /\ Ints(p, [x \in 0..(p - 1) |-> Sum(q, Row(q, f, x))])
<1>1. ASSUME NEW x \in 0..(p - 1)
      PROVE  Ints(q, Row(q, f, x)) /\ Sum(q, Row(q, f, x)) \in Int
  <2>1. \A y \in 0..(q - 1) : f[<<x, y>>] \in Int
    BY DEF Threads
  <2>2. Ints(q, Row(q, f, x))
    BY <2>1 DEF Ints, Row
  <2> QED
    BY <2>2, SumType, Zenon
<1> QED
  BY <1>1, Zenon DEF Ints

\* A sum over all threads is a number.
LEMMA Sum2Type ==
  ASSUME NEW p \in Nat, NEW q \in Nat, NEW f \in [Threads(p, q) -> Int]
  PROVE  Sum2(p, q, f) \in Int
  BY RowSums, SumType, Zenon DEF Sum2

\* Adding to one entry adds to the sum.
LEMMA Sum2Change ==
  ASSUME NEW p \in Nat, NEW q \in Nat,
         NEW f \in [Threads(p, q) -> Int], NEW h \in [Threads(p, q) -> Int],
         NEW t \in Threads(p, q), NEW d \in Int,
         \A s \in Threads(p, q) : s # t => h[s] = f[s], h[t] = f[t] + d
  PROVE  Sum2(p, q, h) = Sum2(p, q, f) + d
<1>1. PICK x \in 0..(p - 1), y \in 0..(q - 1) : t = <<x, y>>
  BY DEF Threads
<1> DEFINE F == [i \in 0..(p - 1) |-> Sum(q, Row(q, f, i))]
           H == [i \in 0..(p - 1) |-> Sum(q, Row(q, h, i))]
<1>2. Ints(p, F) /\ Ints(p, H)
  BY RowSums, Zenon
<1>3. Changed(q, Row(q, f, x), Row(q, h, x), y, d)
  <2>1. ASSUME NEW i \in 0..(q - 1), i # y PROVE h[<<x, i>>] = f[<<x, i>>]
    <3>1. <<x, i>> \in Threads(p, q) /\ <<x, i>> # t
      BY <1>1, <2>1 DEF Threads
    <3> QED
      BY <3>1, Zenon
  <2> QED
    BY <1>1, <2>1 DEF Changed, Row
<1>4. H[x] = F[x] + d
  <2>1. Ints(q, Row(q, f, x)) /\ Ints(q, Row(q, h, x))
    BY RowSums, Zenon
  <2>2. Sum(q, Row(q, h, x)) = Sum(q, Row(q, f, x)) + d
    BY <1>3, <2>1, SumChange, Zenon
  <2> QED
    BY <2>2, Zenon
<1>5. ASSUME NEW i \in 0..(p - 1), i # x PROVE H[i] = F[i]
  <2>1. ASSUME NEW j \in 0..(q - 1) PROVE h[<<i, j>>] = f[<<i, j>>]
    <3>1. <<i, j>> \in Threads(p, q) /\ <<i, j>> # t
      BY <1>1, <1>5 DEF Threads
    <3> QED
      BY <3>1, Zenon
  <2>2. Row(q, h, i) = Row(q, f, i)
    BY <2>1, Zenon DEF Row
  <2> QED
    BY <2>2, Zenon
<1> HIDE DEF F, H
<1>6. Changed(p, F, H, x, d)
  BY <1>4, <1>5, Zenon DEF Changed
<1>7. Sum(p, H) = Sum(p, F) + d
  BY <1>2, <1>6, SumChange, ZenonT(60)
<1> QED
  BY <1>7, Zenon DEF Sum2, F, H

\* Zeros of all threads add up to zero.
LEMMA Sum2Zero ==
  ASSUME NEW p \in Nat, NEW q \in Nat, NEW f,
         \A s \in Threads(p, q) : f[s] = 0
  PROVE  Sum2(p, q, f) = 0
<1>1. ASSUME NEW x \in 0..(p - 1) PROVE Sum(q, Row(q, f, x)) = 0
  <2>1. ASSUME NEW y \in 0..(q - 1) PROVE Row(q, f, x)[y] = 0
    <3>1. <<x, y>> \in Threads(p, q)
      BY DEF Threads
    <3>2. Row(q, f, x)[y] = f[<<x, y>>]
      BY DEF Row
    <3> QED
      BY <3>1, <3>2
  <2> QED
    BY <2>1, SumZero, Zenon
<1>2. \A x \in 0..(p - 1) : [i \in 0..(p - 1) |-> Sum(q, Row(q, f, i))][x] = 0
  BY <1>1, Zenon
<1> QED
  BY <1>2, SumZero, Zenon DEF Sum2

\* A sum with one entry that counts.
LEMMA Sum2Single ==
  ASSUME NEW p \in Nat, NEW q \in Nat, NEW f \in [Threads(p, q) -> Int],
         NEW t \in Threads(p, q), \A s \in Threads(p, q) : s # t => f[s] = 0
  PROVE  Sum2(p, q, f) = f[t]
<1> DEFINE z == [s \in Threads(p, q) |-> 0]
<1>1. z \in [Threads(p, q) -> Int] /\ Sum2(p, q, z) = 0
  <2>1. \A s \in Threads(p, q) : z[s] = 0
    OBVIOUS
  <2>2. Sum2(p, q, z) = 0
    <3> HIDE DEF z
    <3> QED
      BY <2>1, Sum2Zero, Zenon
  <2> QED
    BY <2>2
<1>2. f[t] \in Int /\ f[t] = z[t] + f[t]
  OBVIOUS
<1>3. \A s \in Threads(p, q) : s # t => f[s] = z[s]
  OBVIOUS
<1> HIDE DEF z
<1>4. Sum2(p, q, f) = Sum2(p, q, z) + f[t]
  BY <1>1, <1>2, <1>3, Sum2Change
<1> QED
  BY <1>1, <1>2, <1>4

-------------------------------------------------------------------------------
(* Remainders.                                                             *)

\* Numbers of one residue class have one remainder.
LEMMA RemainderIs ==
  ASSUME NEW k \in Nat \ {0}, NEW a \in Int, NEW i \in Int, NEW r \in 0..(k - 1), a = i * k + r
  PROVE  a % k = r
  OBVIOUS

\* Every number is a multiple and a remainder.
LEMMA Divided ==
  ASSUME NEW k \in Nat \ {0}, NEW a \in Int
  PROVE  \E i \in Int, r \in 0..(k - 1) : a = i * k + r /\ a % k = r
  OBVIOUS

\* Adding x to a sum adds to it what x changes in one of its terms.
LEMMA RemainderMoves ==
  ASSUME NEW k \in Nat \ {0}, NEW a \in Int, NEW l \in Int, NEW x \in Int
  PROVE  ((a % k) + x) % k = (a + (((l + x) % k) - l)) % k
<1>1. PICK i \in Int, r \in 0..(k - 1) : a = i * k + r /\ a % k = r
  BY Divided
<1>2. PICK b \in Int, c \in Int : b = l + x /\ c = r + x
  OBVIOUS
<1>3. PICK j \in Int, s \in 0..(k - 1) : b = j * k + s /\ b % k = s
  BY Divided
<1>4. PICK h \in Int, u \in 0..(k - 1) : c = h * k + u /\ c % k = u
  BY Divided
<1>5. PICK g \in Int : g = i - j + h
  OBVIOUS
<1>6. PICK e \in Int : e = a + (s - l)
  OBVIOUS
<1>7. e = g * k + u
  <2>1. g * k = i * k - j * k + h * k
    BY <1>5
  <2> QED
    BY <2>1, <1>1, <1>2, <1>3, <1>4, <1>6
<1>8. e % k = u
  BY <1>7, RemainderIs
<1> QED
  BY <1>1, <1>2, <1>3, <1>4, <1>6, <1>8

-------------------------------------------------------------------------------
(* Cells of the memory.                                                    *)

Cells == 0..(Limit - 1)

IsMem(m) ==
  /\ m = [v \in Vars |-> m[v]]
  /\ \A v \in Vars : m[v] \in [1..VarLen[v] -> Cells]

\* Memories that agree in every cell are the same.
LEMMA MemEqual ==
  ASSUME NEW m, NEW n, IsMem(m), IsMem(n),
         \A v \in Vars : \A c \in 1..VarLen[v] : m[v][c] = n[v][c]
  PROVE  m = n
<1>1. ASSUME NEW v \in Vars PROVE m[v] = n[v]
  <2>1. m[v] \in [1..VarLen[v] -> Cells] /\ n[v] \in [1..VarLen[v] -> Cells]
    BY Zenon DEF IsMem
  <2>2. PICK D : D = 1..VarLen[v]
    OBVIOUS
  <2>3. PICK f, g : f = m[v] /\ g = n[v]
    OBVIOUS
  <2>4. f \in [D -> Cells] /\ g \in [D -> Cells]
    BY <2>1, <2>2, <2>3, Zenon
  <2>5. \A c \in D : f[c] = g[c]
    BY <2>2, <2>3, Zenon
  <2>6. f = g
    BY <2>4, <2>5
  <2> QED
    BY <2>3, <2>6, Zenon
<1>2. [v \in Vars |-> m[v]] = [v \in Vars |-> n[v]]
  BY <1>1, Zenon
<1> QED
  BY <1>2, Zenon DEF IsMem

\* A cell of a memory holds a number below the limit.
LEMMA CellType ==
  ASSUME NEW m, IsMem(m), NEW v \in Vars, NEW c \in 1..VarLen[v]
  PROVE  m[v][c] \in Cells /\ m[v][c] \in Int
<1>1. m[v] \in [1..VarLen[v] -> Cells]
  BY Zenon DEF IsMem
<1> QED
  BY <1>1, LaunchAssumption DEF Cells

\* Remainders are values of cells.
LEMMA RemainderFits ==
  ASSUME NEW x \in Int
  PROVE  x % Limit \in Cells
  BY LaunchAssumption DEF Cells

Put(m, v, c, x) == [m EXCEPT ![v][c] = x]

\* Memory n is m but for one cell, which has x.
OnlyAt(n, m, v, c, x) ==
  /\ n[v][c] = x
  /\ \A w \in Vars : \A d \in 1..VarLen[w] : <<w, d>> # <<v, c>> => n[w][d] = m[w][d]
  /\ \A w \in Vars : w # v => n[w] = m[w]

\* Storing changes one cell.
LEMMA PutIs ==
  ASSUME NEW m, IsMem(m), NEW v \in Vars, NEW c \in 1..VarLen[v], NEW x \in Cells
  PROVE  IsMem(Put(m, v, c, x)) /\ OnlyAt(Put(m, v, c, x), m, v, c, x)
<1>0. m = [w \in Vars |-> m[w]] /\ \A w \in Vars : m[w] \in [1..VarLen[w] -> Cells]
  BY Zenon DEF IsMem
<1>1. PICK e : e = [m[v] EXCEPT ![c] = x]
  OBVIOUS
<1>2. e \in [1..VarLen[v] -> Cells] /\ e[c] = x /\ \A d \in 1..VarLen[v] : d # c => e[d] = m[v][d]
  BY <1>0, <1>1
<1>3. PICK n : n = Put(m, v, c, x)
  OBVIOUS
<1>4. n = [m EXCEPT ![v] = e]
  BY <1>1, <1>3 DEF Put
<1>5. DOMAIN n = Vars /\ n = [w \in Vars |-> n[w]] /\ n[v] = e /\ \A w \in Vars : w # v => n[w] = m[w]
  BY <1>0, <1>4
<1>6. ASSUME NEW w \in Vars PROVE n[w] \in [1..VarLen[w] -> Cells]
  BY <1>0, <1>2, <1>5, Zenon
<1>7. IsMem(n)
  BY <1>5, <1>6, Zenon DEF IsMem
<1>8. ASSUME NEW w \in Vars, NEW d \in 1..VarLen[w], <<w, d>> # <<v, c>> PROVE n[w][d] = m[w][d]
  <2>1. CASE w = v
    <3>1. d # c
      BY <1>8, <2>1, Zenon
    <3> QED
      BY <1>2, <1>5, <2>1, <3>1, Zenon
  <2>2. CASE w # v
    BY <1>5, <2>2, Zenon
  <2> QED
    BY <2>1, <2>2, Zenon
<1>9. OnlyAt(n, m, v, c, x)
  BY <1>2, <1>5, <1>8, Zenon DEF OnlyAt
<1> QED
  BY <1>3, <1>7, <1>9, Zenon

-------------------------------------------------------------------------------
(* What an atom does.                                                      *)

Target(a, t) == Component(a.dst, a.at, t)

InRange(a, t) ==
  /\ Target(a, t) \in 1..VarLen[a.dst]
  /\ a.src # "none" => Component(a.src, a.from, t) \in 1..VarLen[a.src]

\* An atom's value, which a self addition adds at once.
OperandOf(m, a, t) ==
  IF a.op = "self" THEN (m[a.dst][Target(a, t)] + Value(m, a, t)) % Limit ELSE Value(m, a, t)

\* What a thread's commit stores.
CommitOf(m, a, t, x) ==
  Stored(m, IF a.op = "add" THEN a ELSE [a EXCEPT !.op = "set"], t, x)

NewCell(m, a, t, x) == IF a.op = "add" THEN (m[a.dst][Target(a, t)] + x) % Limit ELSE x

\* The fields of an atom.
LEMMA AtomParts ==
  ASSUME NEW a \in Atoms
  PROVE  /\ a.dst \in Vars /\ a.op \in {"set", "add", "self"} /\ a.k \in Nat
         /\ a.src \in Vars \union {"none"} /\ a.once \in BOOLEAN
         /\ a.at \in Places /\ a.from \in Places
  BY DEF Atoms

\* An atom in range loads a value that fits a cell.
LEMMA OperandType ==
  ASSUME NEW m, IsMem(m), NEW a \in Atoms, NEW t, InRange(a, t)
  PROVE  Value(m, a, t) \in Cells /\ OperandOf(m, a, t) \in Cells
<1>1. Value(m, a, t) \in Cells
  <2>1. CASE a.src = "none"
    <3>1. Value(m, a, t) = (a.k + 0) % Limit
      BY <2>1, Zenon DEF Value
    <3> QED
      BY <3>1, AtomParts, RemainderFits
  <2>2. CASE a.src # "none"
    <3>1. PICK c : c = Component(a.src, a.from, t)
      OBVIOUS
    <3>2. a.src \in Vars /\ c \in 1..VarLen[a.src] /\ a.k \in Nat
      BY <2>2, <3>1, AtomParts, Zenon DEF InRange
    <3>3. m[a.src][c] \in Int
      BY <3>2, CellType, Zenon
    <3>4. Value(m, a, t) = (a.k + m[a.src][c]) % Limit
      BY <2>2, <3>1, Zenon DEF Value
    <3>5. a.k + m[a.src][c] \in Int
      BY <3>2, <3>3
    <3> QED
      BY <3>4, <3>5, RemainderFits, Zenon
  <2> QED
    BY <2>1, <2>2, Zenon
<1>2. m[a.dst][Target(a, t)] \in Int /\ Value(m, a, t) \in Int
  <2>1. a.dst \in Vars /\ Target(a, t) \in 1..VarLen[a.dst]
    BY AtomParts, Zenon DEF InRange
  <2>2. m[a.dst][Target(a, t)] \in Int
    BY <2>1, CellType, Zenon
  <2>3. Cells \subseteq Int
    BY LaunchAssumption DEF Cells
  <2> QED
    BY <1>1, <2>2, <2>3, Zenon
<1>3. m[a.dst][Target(a, t)] + Value(m, a, t) \in Int
  BY <1>2
<1>4. (m[a.dst][Target(a, t)] + Value(m, a, t)) % Limit \in Cells
  BY <1>3, RemainderFits, Zenon
<1> QED
  BY <1>1, <1>4, Zenon DEF OperandOf

\* An atom in range stores a value that fits a cell.
LEMMA NewCellType ==
  ASSUME NEW m, IsMem(m), NEW a \in Atoms, NEW t, InRange(a, t), NEW x \in Cells
  PROVE  NewCell(m, a, t, x) \in Cells
<1>1. a.dst \in Vars /\ Target(a, t) \in 1..VarLen[a.dst]
  BY AtomParts, Zenon DEF InRange
<1>2. m[a.dst][Target(a, t)] \in Int
  BY <1>1, CellType, Zenon
<1>3. x \in Int
  BY LaunchAssumption DEF Cells
<1>4. m[a.dst][Target(a, t)] + x \in Int
  BY <1>2, <1>3
<1> QED
  BY <1>4, RemainderFits, Zenon DEF NewCell

\* Committing stores one cell.
LEMMA CommitIs ==
  ASSUME NEW m, NEW a \in Atoms, NEW t, NEW x
  PROVE  CommitOf(m, a, t, x) = Put(m, a.dst, Target(a, t), NewCell(m, a, t, x))
<1>1. CASE a.op = "add"
  <2>1. CommitOf(m, a, t, x) = Stored(m, a, t, x)
    BY <1>1, Zenon DEF CommitOf
  <2>2. Stored(m, a, t, x) = [m EXCEPT ![a.dst][Target(a, t)] = (@ + x) % Limit]
    BY <1>1 DEF Stored, Target
  <2>3. [m EXCEPT ![a.dst][Target(a, t)] = (@ + x) % Limit] =
          [m EXCEPT ![a.dst][Target(a, t)] = (m[a.dst][Target(a, t)] + x) % Limit]
    OBVIOUS
  <2> QED
    BY <1>1, <2>1, <2>2, <2>3, Zenon DEF Put, NewCell
<1>2. CASE a.op # "add"
  <2>1. PICK b : b = [a EXCEPT !.op = "set"]
    OBVIOUS
  <2>2. b.op = "set" /\ b.dst = a.dst /\ b.at = a.at
    BY <2>1 DEF Atoms
  <2>3. CommitOf(m, a, t, x) = Stored(m, b, t, x)
    BY <1>2, <2>1, Zenon DEF CommitOf
  <2>4. Stored(m, b, t, x) = [m EXCEPT ![a.dst][Target(a, t)] = x]
    BY <2>2 DEF Stored, Target
  <2> QED
    BY <1>2, <2>3, <2>4, Zenon DEF Put, NewCell
<1> QED
  BY <1>1, <1>2, Zenon

\* Running an atom is loading its operand and committing it.
LEMMA RunAtomIs ==
  ASSUME NEW m, NEW a \in Atoms, NEW t
  PROVE  RunAtom(m, a, t) = Put(m, a.dst, Target(a, t), NewCell(m, a, t, OperandOf(m, a, t)))
<1>1. RunAtom(m, a, t) = Stored(m, a, t, Value(m, a, t))
  BY Zenon DEF RunAtom
<1>2. CASE a.op = "set"
  BY <1>1, <1>2, Zenon DEF Stored, Put, Target, NewCell, OperandOf
<1>3. CASE a.op # "set"
  <2>1. Stored(m, a, t, Value(m, a, t)) =
          [m EXCEPT ![a.dst][Target(a, t)] = (@ + Value(m, a, t)) % Limit]
    BY <1>3 DEF Stored, Target
  <2>2. [m EXCEPT ![a.dst][Target(a, t)] = (@ + Value(m, a, t)) % Limit] =
          [m EXCEPT ![a.dst][Target(a, t)] = (m[a.dst][Target(a, t)] + Value(m, a, t)) % Limit]
    OBVIOUS
  <2>3. NewCell(m, a, t, OperandOf(m, a, t)) = (m[a.dst][Target(a, t)] + Value(m, a, t)) % Limit
    <3>1. a.op = "add" \/ a.op = "self"
      BY <1>3, AtomParts
    <3>2. CASE a.op = "add"
      BY <3>2 DEF NewCell, OperandOf
    <3>3. CASE a.op = "self"
      BY <3>3 DEF NewCell, OperandOf
    <3> QED
      BY <3>1, <3>2, <3>3, Zenon
  <2> QED
    BY <1>1, <2>1, <2>2, <2>3, Zenon DEF Put
<1> QED
  BY <1>2, <1>3, Zenon

-------------------------------------------------------------------------------
(* Repeated steps.                                                         *)

\* Induction up to a bound.
LEMMA InductionUpTo ==
  ASSUME NEW n \in Nat, NEW S, 0 \in S, \A i \in 0..(n - 1) : i \in S => i + 1 \in S
  PROVE  \A i \in 0..n : i \in S
<1> DEFINE T == {i \in Nat : i <= n => i \in S}
<1>1. 0 \in T
  OBVIOUS
<1>2. ASSUME NEW i \in Nat, i \in T PROVE i + 1 \in T
  <2>1. CASE i + 1 <= n
    <3>1. i \in 0..(n - 1) /\ i \in S
      BY <1>2, <2>1
    <3> QED
      BY <3>1
  <2> QED
    BY <2>1
<1>3. \A i \in Nat : i \in T
  <2> HIDE DEF T
  <2> QED
    BY <1>1, <1>2, InductionOnNat, Zenon
<1> QED
  BY <1>3

\* An interval that starts at zero holds both of its ends.
LEMMA SelfBound ==
  ASSUME NEW n \in Nat
  PROVE  n \in 0..n /\ 0 \in 0..n
  OBVIOUS

IsIter(g, n, x, st) == g = [i \in 0..n |-> IF i = 0 THEN x ELSE st[<<g[i - 1], i>>]]

\* The values n steps pass through, st being the table of the steps.
Iter(n, x, st) == CHOOSE g : IsIter(g, n, x, st)

\* Steps of every number exist.
LEMMA IterExists ==
  ASSUME NEW x, NEW st
  PROVE  \A n \in Nat : \E g : IsIter(g, n, x, st)
<1> DEFINE S == {n \in Nat : \E g : IsIter(g, n, x, st)}
<1>1. 0 \in S
  <2> DEFINE g == [i \in 0..0 |-> x]
  <2>1. g = [i \in 0..0 |-> IF i = 0 THEN x ELSE st[<<g[i - 1], i>>]]
    OBVIOUS
  <2> QED
    BY <2>1 DEF IsIter
<1>2. ASSUME NEW n \in Nat, n \in S PROVE n + 1 \in S
  <2>1. PICK g : IsIter(g, n, x, st)
    BY <1>2
  <2> DEFINE h == [i \in 0..(n + 1) |-> IF i = 0 THEN x ELSE st[<<g[i - 1], i>>]]
  <2>2. \A i \in 0..n : h[i] = g[i]
    BY <2>1 DEF IsIter
  <2>3. ASSUME NEW i \in 0..(n + 1), i # 0 PROVE h[i - 1] = g[i - 1]
    <3>1. i - 1 \in 0..n
      BY <2>3
    <3> QED
      BY <2>2, <3>1, Zenon
  <2>4. h = [i \in 0..(n + 1) |-> IF i = 0 THEN x ELSE st[<<h[i - 1], i>>]]
    BY <2>3
  <2>5. IsIter(h, n + 1, x, st)
    BY <2>4, Zenon DEF IsIter
  <2>6. n + 1 \in Nat
    OBVIOUS
  <2> HIDE DEF h
  <2> QED
    BY <2>5, <2>6, Zenon
<1> HIDE DEF S
<1>3. \A n \in Nat : n \in S
  BY <1>1, <1>2, InductionOnNat, Zenon
<1> QED
  BY <1>3, Zenon DEF S

Iterates(g, n, x, st, X) ==
  /\ g \in [0..n -> X] /\ g[0] = x
  /\ \A i \in 0..(n - 1) : g[i + 1] = st[<<g[i], i + 1>>]

\* The values are those of the steps, one after the other.
LEMMA IterIs ==
  ASSUME NEW n \in Nat, NEW X, NEW x \in X, NEW st \in [X \X (1..n) -> X]
  PROVE  Iterates(Iter(n, x, st), n, x, st, X) /\ IsIter(Iter(n, x, st), n, x, st)
<1>1. PICK g : g = Iter(n, x, st)
  OBVIOUS
<1>2. IsIter(g, n, x, st)
  BY <1>1, IterExists, Zenon DEF Iter
<1>3. g[0] = x
  BY <1>2 DEF IsIter
<1>4. ASSUME NEW i \in 0..(n - 1) PROVE g[i + 1] = st[<<g[i], i + 1>>]
  <2>1. i + 1 \in 0..n /\ i + 1 # 0 /\ (i + 1) - 1 = i
    OBVIOUS
  <2> QED
    BY <1>2, <2>1 DEF IsIter
<1> DEFINE S == {i \in 0..n : g[i] \in X}
<1>5. 0 \in S
  BY <1>3
<1>6. ASSUME NEW i \in 0..(n - 1), i \in S PROVE i + 1 \in S
  <2>1. i + 1 \in 1..n /\ g[i] \in X
    BY <1>6
  <2>2. <<g[i], i + 1>> \in X \X (1..n)
    BY <2>1
  <2>3. g[i + 1] \in X
    BY <1>4, <2>2
  <2> QED
    BY <2>1, <2>3
<1>7. \A i \in 0..n : g[i] \in X
  <2> HIDE DEF S
  <2>1. \A i \in 0..n : i \in S
    BY <1>5, <1>6, InductionUpTo, Zenon
  <2> QED
    BY <2>1, Zenon DEF S
<1>8. DOMAIN g = 0..n /\ g = [i \in DOMAIN g |-> g[i]]
  BY <1>2 DEF IsIter
<1>9. g \in [0..n -> X]
  BY <1>7, <1>8
<1> QED
  BY <1>1, <1>2, <1>3, <1>4, <1>9, Zenon DEF Iterates

-------------------------------------------------------------------------------
(* A thread alone.                                                         *)

Mems == {m \in [Vars -> UNION {[1..VarLen[v] -> Cells] : v \in Vars}] :
           \A v \in Vars : m[v] \in [1..VarLen[v] -> Cells]}

\* The set of memories is what IsMem describes.
LEMMA MemsAre == \A m : m \in Mems <=> IsMem(m)
<1> TAKE m
<1>1. ASSUME m \in Mems PROVE IsMem(m)
  BY <1>1 DEF Mems, IsMem
<1>2. ASSUME IsMem(m) PROVE m \in Mems
  <2>1. \A v \in Vars : m[v] \in UNION {[1..VarLen[w] -> Cells] : w \in Vars}
    BY <1>2, Zenon DEF IsMem
  <2>2. m \in [Vars -> UNION {[1..VarLen[v] -> Cells] : v \in Vars}]
    BY <1>2, <2>1, Zenon DEF IsMem
  <2> QED
    BY <1>2, <2>2, Zenon DEF Mems, IsMem
<1> QED
  BY <1>1, <1>2, Zenon

Executes(a, t) == a.once => t[2] = 0

\* The atoms that run stay inside the variables.
Safe(B, t) == \A i \in 1..Len(B) : Executes(B[i], t) => InRange(B[i], t)

AloneStep(m, a, t) == IF Executes(a, t) THEN RunAtom(m, a, t) ELSE m

\* The memories a thread passes through when no other runs.
Alone(m, B, t) ==
  Iter(Len(B), m, [p \in Mems \X (1..Len(B)) |-> AloneStep(p[1], B[p[2]], t)])

\* An atom in range leaves a memory.
LEMMA RunAtomType ==
  ASSUME NEW m \in Mems, NEW a \in Atoms, NEW t, InRange(a, t)
  PROVE  RunAtom(m, a, t) \in Mems
<1>1. IsMem(m)
  BY MemsAre, Zenon
<1>2. OperandOf(m, a, t) \in Cells
  BY <1>1, OperandType, Zenon
<1>3. NewCell(m, a, t, OperandOf(m, a, t)) \in Cells
  BY <1>1, <1>2, NewCellType, Zenon
<1>4. a.dst \in Vars /\ Target(a, t) \in 1..VarLen[a.dst]
  BY AtomParts, Zenon DEF InRange
<1>5. IsMem(Put(m, a.dst, Target(a, t), NewCell(m, a, t, OperandOf(m, a, t))))
  BY <1>1, <1>3, <1>4, PutIs, Zenon
<1> QED
  BY <1>5, RunAtomIs, MemsAre, Zenon

AloneGoes(g, m, B, t) ==
  /\ g \in [0..Len(B) -> Mems] /\ g[0] = m
  /\ \A i \in 0..(Len(B) - 1) : g[i + 1] = AloneStep(g[i], B[i + 1], t)

\* A thread alone passes from memory to memory by its atoms.
LEMMA AloneIs ==
  ASSUME NEW m \in Mems, NEW B \in Seq(Atoms), NEW t, Safe(B, t)
  PROVE  AloneGoes(Alone(m, B, t), m, B, t)
<1>0. Len(B) \in Nat /\ \A i \in 1..Len(B) : B[i] \in Atoms
  BY SeqParts, Zenon
<1>1. ASSUME NEW n \in Mems, NEW i \in 1..Len(B) PROVE AloneStep(n, B[i], t) \in Mems
  BY <1>0, RunAtomType, Zenon DEF AloneStep, Safe
<1> DEFINE st == [p \in Mems \X (1..Len(B)) |-> AloneStep(p[1], B[p[2]], t)]
<1>2. \A p \in Mems \X (1..Len(B)) : p[1] \in Mems /\ p[2] \in 1..Len(B)
  OBVIOUS
<1>3. st \in [Mems \X (1..Len(B)) -> Mems]
  BY <1>1, <1>2, Zenon
<1>4. ASSUME NEW n \in Mems, NEW i \in 1..Len(B) PROVE st[<<n, i>>] = AloneStep(n, B[i], t)
  OBVIOUS
<1> HIDE DEF st
<1>5. PICK g : g = Iter(Len(B), m, st)
  OBVIOUS
<1>6. Iterates(g, Len(B), m, st, Mems)
  BY <1>0, <1>3, <1>5, IterIs, Zenon
<1>7. ASSUME NEW i \in 0..(Len(B) - 1) PROVE g[i + 1] = AloneStep(g[i], B[i + 1], t)
  <2>1. i + 1 \in 1..Len(B) /\ i \in 0..Len(B)
    BY <1>0
  <2>2. g[i] \in Mems
    BY <1>6, <2>1 DEF Iterates
  <2>3. g[i + 1] = st[<<g[i], i + 1>>]
    BY <1>6, Zenon DEF Iterates
  <2> QED
    BY <1>4, <2>1, <2>2, <2>3, Zenon
<1>8. AloneGoes(g, m, B, t)
  BY <1>6, <1>7, Zenon DEF AloneGoes, Iterates
<1> QED
  BY <1>5, <1>8, Zenon DEF Alone, st

\* The parts of a thread's run.
LEMMA AloneParts ==
  ASSUME NEW m \in Mems, NEW B \in Seq(Atoms), NEW t, Safe(B, t)
  PROVE  /\ Len(B) \in Nat /\ Alone(m, B, t)[0] = m
         /\ \A i \in 0..Len(B) : Alone(m, B, t)[i] \in Mems
         /\ \A i \in 0..(Len(B) - 1) :
              Alone(m, B, t)[i + 1] = AloneStep(Alone(m, B, t)[i], B[i + 1], t)
<1>1. PICK g : g = Alone(m, B, t)
  OBVIOUS
<1>2. AloneGoes(g, m, B, t)
  BY <1>1, AloneIs, Zenon
<1>3. Len(B) \in Nat
  BY SeqParts, Zenon
<1>4. \A i \in 0..Len(B) : g[i] \in Mems
  BY <1>2 DEF AloneGoes
<1> QED
  BY <1>1, <1>2, <1>3, <1>4, Zenon DEF AloneGoes

\* A step that runs changes one cell.
LEMMA AloneRuns ==
  ASSUME NEW m \in Mems, NEW a \in Atoms, NEW t, InRange(a, t)
  PROVE  /\ a.dst \in Vars /\ Target(a, t) \in 1..VarLen[a.dst]
         /\ OnlyAt(RunAtom(m, a, t), m, a.dst, Target(a, t), NewCell(m, a, t, OperandOf(m, a, t)))
<1>1. IsMem(m)
  BY MemsAre, Zenon
<1>2. OperandOf(m, a, t) \in Cells
  BY <1>1, OperandType, Zenon
<1>3. PICK x \in Cells : x = NewCell(m, a, t, OperandOf(m, a, t))
  BY <1>1, <1>2, NewCellType, Zenon
<1>4. a.dst \in Vars /\ Target(a, t) \in 1..VarLen[a.dst]
  BY AtomParts, Zenon DEF InRange
<1>5. PICK c \in 1..VarLen[a.dst] : c = Target(a, t)
  BY <1>4, Zenon
<1>6. RunAtom(m, a, t) = Put(m, a.dst, c, x)
  BY <1>3, <1>5, RunAtomIs, Zenon
<1>7. OnlyAt(Put(m, a.dst, c, x), m, a.dst, c, x)
  BY <1>1, <1>4, PutIs, Zenon
<1> QED
  BY <1>3, <1>4, <1>5, <1>6, <1>7, Zenon

\* No atom that the thread runs stores this cell.
Silent(B, t, w, d) ==
  \A i \in 1..Len(B) : Executes(B[i], t) => ~(B[i].dst = w /\ Target(B[i], t) = d)

\* A cell the thread does not store keeps its value.
LEMMA SilentKeeps ==
  ASSUME NEW m \in Mems, NEW B \in Seq(Atoms), NEW t, Safe(B, t),
         NEW w \in Vars, NEW d \in 1..VarLen[w], Silent(B, t, w, d)
  PROVE  \A i \in 0..Len(B) : Alone(m, B, t)[i][w][d] = m[w][d]
<1>0. /\ Len(B) \in Nat /\ Alone(m, B, t)[0] = m
      /\ \A i \in 0..Len(B) : Alone(m, B, t)[i] \in Mems
      /\ \A i \in 0..(Len(B) - 1) :
           Alone(m, B, t)[i + 1] = AloneStep(Alone(m, B, t)[i], B[i + 1], t)
  BY AloneParts, ZenonT(60)
<1>1. PICK g : g = Alone(m, B, t)
  OBVIOUS
<1> DEFINE S == {i \in 0..Len(B) : g[i][w][d] = m[w][d]}
<1>2. 0 \in S
  BY <1>0, <1>1
<1>3. ASSUME NEW i \in 0..(Len(B) - 1), i \in S PROVE i + 1 \in S
  <2>1. i + 1 \in 1..Len(B) /\ i \in 0..Len(B) /\ i + 1 \in 0..Len(B)
    BY <1>0
  <2>2. B[i + 1] \in Atoms /\ g[i] \in Mems /\ g[i + 1] = AloneStep(g[i], B[i + 1], t)
        /\ g[i][w][d] = m[w][d]
    BY <1>0, <1>1, <1>3, <2>1, SeqParts, Zenon
  <2>3. CASE Executes(B[i + 1], t)
    <3>1. InRange(B[i + 1], t) /\ <<w, d>> # <<B[i + 1].dst, Target(B[i + 1], t)>>
      BY <2>1, <2>3 DEF Safe, Silent
    <3>2. PICK b, n : b = B[i + 1] /\ n = RunAtom(g[i], b, t)
      BY <2>2, Zenon
    <3>3. OnlyAt(n, g[i], b.dst, Target(b, t), NewCell(g[i], b, t, OperandOf(g[i], b, t)))
      BY <2>2, <3>1, <3>2, AloneRuns, Zenon
    <3>4. n[w][d] = g[i][w][d]
      BY <3>1, <3>2, <3>3, Zenon DEF OnlyAt
    <3> QED
      BY <2>1, <2>2, <2>3, <3>2, <3>4, Zenon DEF AloneStep
  <2>4. CASE ~Executes(B[i + 1], t)
    BY <2>1, <2>2, <2>4, Zenon DEF AloneStep
  <2> QED
    BY <2>3, <2>4, Zenon
<1>4. \A i \in 0..Len(B) : i \in S
  <2> HIDE DEF S
  <2> QED
    BY <1>0, <1>2, <1>3, InductionUpTo, Zenon
<1> QED
  BY <1>1, <1>4, Zenon

\* The thread passes over the n atoms behind i, to e.
Skipped(B, i, n, e, t) == e = i + n /\ \A j \in 0..(n - 1) : ~Executes(B[i + j + 1], t)

\* Atoms the thread passes over change nothing.
LEMMA AloneSkips ==
  ASSUME NEW m \in Mems, NEW B \in Seq(Atoms), NEW t, Safe(B, t),
         NEW i \in 0..Len(B), NEW n \in Nat, NEW e \in 0..Len(B), Skipped(B, i, n, e, t)
  PROVE  Alone(m, B, t)[e] = Alone(m, B, t)[i]
<1>0. /\ Len(B) \in Nat
      /\ \A k \in 0..(Len(B) - 1) :
           Alone(m, B, t)[k + 1] = AloneStep(Alone(m, B, t)[k], B[k + 1], t)
  BY AloneParts, ZenonT(60)
<1>1. PICK g : g = Alone(m, B, t)
  OBVIOUS
<1> DEFINE S == {j \in 0..n : g[i + j] = g[i]}
<1>2. 0 \in S
  OBVIOUS
<1>3. ASSUME NEW j \in 0..(n - 1), j \in S PROVE j + 1 \in S
  <2>1. PICK k \in 0..(Len(B) - 1) : k = i + j /\ j + 1 \in 0..n /\ i + (j + 1) = k + 1
    BY <1>0 DEF Skipped
  <2>2. g[k + 1] = AloneStep(g[k], B[k + 1], t) /\ ~Executes(B[k + 1], t) /\ g[k] = g[i]
    BY <1>0, <1>1, <1>3, <2>1, Zenon DEF Skipped
  <2>3. g[k + 1] = g[i]
    BY <2>2, Zenon DEF AloneStep
  <2> QED
    BY <2>1, <2>3, Zenon
<1>4. \A j \in 0..n : j \in S
  <2> HIDE DEF S
  <2> QED
    BY <1>2, <1>3, InductionUpTo, Zenon
<1>5. n \in 0..n
  OBVIOUS
<1> QED
  BY <1>1, <1>4, <1>5, Zenon DEF Skipped

-------------------------------------------------------------------------------
(* All threads of a kernel.                                                *)

\* What one thread adds to a cell.
Gain(m, B, p, q, pos, v, c) ==
  [t \in Threads(p, q) |-> Alone(m, B, t)[pos[t]][v][c] - m[v][c]]

\* The memory when thread t has run the first pos[t] atoms: what each thread
\* adds to a cell when it runs alone, together.
Mix(m, B, p, q, pos) ==
  [v \in Vars |-> [c \in 1..VarLen[v] |->
     (m[v][c] + Sum2(p, q, Gain(m, B, p, q, pos, v, c))) % Limit]]

Positions(B, p, q) == [Threads(p, q) -> 0..Len(B)]

\* The atoms the threads run stay inside the variables.
AllSafe(B, p, q) == \A t \in Threads(p, q) : Safe(B, t)

\* What a thread adds to a cell is a number.
LEMMA GainType ==
  ASSUME NEW m \in Mems, NEW B \in Seq(Atoms), NEW p \in Nat, NEW q \in Nat, AllSafe(B, p, q),
         NEW pos \in Positions(B, p, q), NEW v \in Vars, NEW c \in 1..VarLen[v]
  PROVE  Gain(m, B, p, q, pos, v, c) \in [Threads(p, q) -> Int]
<1>1. ASSUME NEW t \in Threads(p, q)
      PROVE  Alone(m, B, t)[pos[t]][v][c] - m[v][c] \in Int
  <2>1. Safe(B, t)
    BY Zenon DEF AllSafe
  <2>2. pos[t] \in 0..Len(B)
    BY DEF Positions
  <2>3. \A i \in 0..Len(B) : Alone(m, B, t)[i] \in Mems
    BY <2>1, AloneParts, Zenon
  <2>4. PICK n \in Mems : n = Alone(m, B, t)[pos[t]]
    BY <2>2, <2>3, Zenon
  <2>5. n[v][c] \in Int /\ m[v][c] \in Int
    BY MemsAre, CellType, Zenon
  <2>6. n[v][c] - m[v][c] \in Int
    BY <2>5
  <2> QED
    BY <2>4, <2>6, Zenon
<1> QED
  BY <1>1, Zenon DEF Gain

\* A cell of the mix.
LEMMA MixCell ==
  ASSUME NEW m, NEW B, NEW p, NEW q, NEW pos, NEW v \in Vars, NEW c \in 1..VarLen[v]
  PROVE  Mix(m, B, p, q, pos)[v][c] = (m[v][c] + Sum2(p, q, Gain(m, B, p, q, pos, v, c))) % Limit
  BY Zenon DEF Mix

\* The mix of threads in range is a memory.
LEMMA MixType ==
  ASSUME NEW m \in Mems, NEW B \in Seq(Atoms), NEW p \in Nat, NEW q \in Nat, AllSafe(B, p, q),
         NEW pos \in Positions(B, p, q)
  PROVE  Mix(m, B, p, q, pos) \in Mems
<1>1. ASSUME NEW v \in Vars, NEW c \in 1..VarLen[v]
      PROVE  (m[v][c] + Sum2(p, q, Gain(m, B, p, q, pos, v, c))) % Limit \in Cells
  <2>1. Gain(m, B, p, q, pos, v, c) \in [Threads(p, q) -> Int]
    BY GainType, Zenon
  <2>2. Sum2(p, q, Gain(m, B, p, q, pos, v, c)) \in Int
    BY <2>1, Sum2Type, Zenon
  <2>3. m[v][c] \in Int
    BY MemsAre, CellType, Zenon
  <2>4. m[v][c] + Sum2(p, q, Gain(m, B, p, q, pos, v, c)) \in Int
    BY <2>2, <2>3
  <2> QED
    BY <2>4, RemainderFits, Zenon
<1>2. \A v \in Vars : [c \in 1..VarLen[v] |->
        (m[v][c] + Sum2(p, q, Gain(m, B, p, q, pos, v, c))) % Limit] \in [1..VarLen[v] -> Cells]
  BY <1>1, Zenon
<1>3. IsMem(Mix(m, B, p, q, pos))
  BY <1>2, Zenon DEF Mix, IsMem
<1> QED
  BY <1>3, MemsAre, Zenon

\* Positions at which the threads have the same memories mix to the same.
LEMMA MixSame ==
  ASSUME NEW m, NEW B, NEW p, NEW q, NEW pos, NEW new,
         \A t \in Threads(p, q) : Alone(m, B, t)[pos[t]] = Alone(m, B, t)[new[t]]
  PROVE  Mix(m, B, p, q, pos) = Mix(m, B, p, q, new)
<1>1. ASSUME NEW v, NEW c PROVE Gain(m, B, p, q, pos, v, c) = Gain(m, B, p, q, new, v, c)
  BY Zenon DEF Gain
<1> QED
  BY <1>1, Zenon DEF Mix

\* A small number is its remainder.
LEMMA SmallRemainder ==
  ASSUME NEW x \in Cells
  PROVE  x % Limit = x /\ x \in Int
<1>1. Limit \in Nat \ {0} /\ x \in 0..(Limit - 1)
  BY LaunchAssumption DEF Cells
<1>2. x = 0 * Limit + x
  BY <1>1
<1> QED
  BY <1>1, <1>2, RemainderIs

\* No thread but t stores the cell.
Sole(B, p, q, t, v, c) == \A s \in Threads(p, q) : s # t => Silent(B, s, v, c)

\* A cell that only thread t stores has in the mix what it has for t alone.
LEMMA MixOwn ==
  ASSUME NEW m \in Mems, NEW B \in Seq(Atoms), NEW p \in Nat, NEW q \in Nat, AllSafe(B, p, q),
         NEW pos \in Positions(B, p, q), NEW v \in Vars, NEW c \in 1..VarLen[v],
         NEW t \in Threads(p, q), Sole(B, p, q, t, v, c)
  PROVE  /\ m[v][c] + Sum2(p, q, Gain(m, B, p, q, pos, v, c)) = Alone(m, B, t)[pos[t]][v][c]
         /\ Mix(m, B, p, q, pos)[v][c] = Alone(m, B, t)[pos[t]][v][c]
         /\ Alone(m, B, t)[pos[t]][v][c] \in Cells /\ m[v][c] \in Int
<1>1. PICK f \in [Threads(p, q) -> Int] : f = Gain(m, B, p, q, pos, v, c)
  BY GainType, Zenon
<1>2. m[v][c] \in Int
  BY MemsAre, CellType, Zenon
<1>3. ASSUME NEW s \in Threads(p, q), s # t PROVE f[s] = 0
  <2>1. Safe(B, s) /\ Silent(B, s, v, c) /\ pos[s] \in 0..Len(B)
    BY <1>3 DEF AllSafe, Positions, Sole
  <2>2. Alone(m, B, s)[pos[s]][v][c] = m[v][c]
    BY <2>1, SilentKeeps, ZenonT(60)
  <2>3. f[s] = m[v][c] - m[v][c]
    BY <1>1, <2>2, Zenon DEF Gain
  <2> QED
    BY <1>2, <2>3
<1>4. Sum2(p, q, f) = f[t]
  BY <1>3, Sum2Single, ZenonT(60)
<1>5. PICK x : x = Alone(m, B, t)[pos[t]][v][c]
  OBVIOUS
<1>6. f[t] = x - m[v][c]
  BY <1>1, <1>5, Zenon DEF Gain
<1>7. x \in Cells
  <2>1. Safe(B, t) /\ pos[t] \in 0..Len(B)
    BY DEF AllSafe, Positions
  <2>2. Alone(m, B, t)[pos[t]] \in Mems
    BY <2>1, AloneParts, Zenon
  <2> QED
    BY <1>5, <2>2, MemsAre, CellType, Zenon
<1>8. x \in Int /\ x % Limit = x
  BY <1>7, SmallRemainder, Zenon
<1>9. m[v][c] + Sum2(p, q, f) = x
  BY <1>2, <1>4, <1>6, <1>8
<1>10. Mix(m, B, p, q, pos)[v][c] = x % Limit
  BY <1>1, <1>9, MixCell, ZenonT(60)
<1> QED
  BY <1>1, <1>2, <1>5, <1>7, <1>8, <1>9, <1>10, Zenon

-------------------------------------------------------------------------------
(* Kernels without races.                                                  *)

\* Every thread uses its own component only, in one thread of its row.
Own(B, q, w) ==
  \A i \in 1..Len(B) : Touches(B[i], w) => TouchesOwn(B[i], w) /\ (B[i].once \/ q = 1)

\* The variable is only added to, with values of others.
Added(B, w) ==
  \A i \in 1..Len(B) : Touches(B[i], w) => B[i].dst = w /\ B[i].op = "add" /\ B[i].src # w

Unwritten(B, w) == \A i \in 1..Len(B) : B[i].dst # w

Fine(B, p, q) ==
  /\ B \in Seq(Atoms) /\ AllSafe(B, p, q)
  /\ \A w \in Vars : Own(B, q, w) \/ Added(B, w) \/ Unwritten(B, w)

\* The cells an atom uses in thread t.
Uses(a, t, w, d) ==
  (a.dst = w /\ Target(a, t) = d) \/ (a.src = w /\ Component(w, a.from, t) = d)

\* No other thread stores a cell that t uses, unless it is added to.
LEMMA OthersSilent ==
  ASSUME NEW B, NEW p \in Nat, NEW q \in Nat, Fine(B, p, q),
         NEW t \in Threads(p, q), NEW i \in 1..Len(B), Executes(B[i], t),
         NEW w \in Vars, NEW d, Uses(B[i], t, w, d), ~Added(B, w)
  PROVE  Sole(B, p, q, t, w, d)
<1> SUFFICES ASSUME NEW s \in Threads(p, q), NEW j \in 1..Len(B), Executes(B[j], s),
                    B[j].dst = w, Target(B[j], s) = d
             PROVE  s = t
  BY Zenon DEF Silent, Sole
<1>1. Own(B, q, w)
  BY Zenon DEF Fine, Unwritten
<1>2. PICK x \in 0..(p - 1), y \in 0..(q - 1) : t = <<x, y>>
  BY DEF Threads
<1>3. PICK u \in 0..(p - 1), z \in 0..(q - 1) : s = <<u, z>>
  BY DEF Threads
<1>4. Touches(B[i], w) /\ Touches(B[j], w)
  BY Zenon DEF Uses, Touches
<1>5. /\ TouchesOwn(B[i], w) /\ (B[i].once \/ q = 1)
      /\ TouchesOwn(B[j], w) /\ (B[j].once \/ q = 1)
  BY <1>1, <1>4, Zenon DEF Own
<1>6. y = 0 /\ z = 0
  BY <1>2, <1>3, <1>5 DEF Executes
<1>7. d = 1 + x
  <2>1. ASSUME NEW v PROVE Component(v, "x", t) = 1 + x
    BY <1>2 DEF Component
  <2> QED
    <3>1. CASE B[i].dst = w /\ Target(B[i], t) = d
      <4>1. Component(B[i].dst, B[i].at, t) = d /\ B[i].at = "x"
        BY <3>1, <1>5, Zenon DEF TouchesOwn, Target
      <4> QED
        BY <2>1, <4>1
    <3>2. CASE B[i].src = w /\ Component(w, B[i].from, t) = d
      <4>1. B[i].from = "x"
        BY <3>2, <1>5, Zenon DEF TouchesOwn
      <4> QED
        BY <2>1, <3>2, <4>1
    <3> QED
      BY <3>1, <3>2, Zenon DEF Uses
<1>8. d = 1 + u
  <2>1. ASSUME NEW v PROVE Component(v, "x", s) = 1 + u
    BY <1>3 DEF Component
  <2> QED
    BY <2>1, <1>5, Zenon DEF TouchesOwn, Target
<1>9. x = u
  BY <1>7, <1>8
<1> QED
  BY <1>2, <1>3, <1>6, <1>9

\* A thread reads from the memory of all what it would read alone.
LEMMA ReadSame ==
  ASSUME NEW m \in Mems, NEW B, NEW p \in Nat, NEW q \in Nat, Fine(B, p, q),
         NEW pos \in Positions(B, p, q), NEW t \in Threads(p, q),
         pos[t] + 1 \in 1..Len(B), Executes(B[pos[t] + 1], t)
  PROVE  OperandOf(Mix(m, B, p, q, pos), B[pos[t] + 1], t) =
           OperandOf(Alone(m, B, t)[pos[t]], B[pos[t] + 1], t)
<1>1. PICK a, n, l : a = B[pos[t] + 1] /\ n = Mix(m, B, p, q, pos) /\ l = Alone(m, B, t)[pos[t]]
  OBVIOUS
<1>2. B \in Seq(Atoms) /\ AllSafe(B, p, q) /\ Safe(B, t)
  BY Zenon DEF Fine, AllSafe
<1>3. a \in Atoms /\ InRange(a, t)
  BY <1>1, <1>2, SeqParts, ZenonT(60) DEF Safe
<1>4. ASSUME NEW w \in Vars, NEW d \in 1..VarLen[w], Uses(a, t, w, d), ~Added(B, w)
      PROVE  n[w][d] = l[w][d]
  <2>1. Sole(B, p, q, t, w, d)
    BY <1>1, <1>4, OthersSilent, Zenon
  <2> QED
    BY <1>1, <1>2, <2>1, MixOwn, ZenonT(60)
<1>5. Value(n, a, t) = Value(l, a, t)
  <2>1. CASE a.src = "none"
    BY <2>1, Zenon DEF Value
  <2>2. CASE a.src # "none"
    <3>1. PICK w, d : w = a.src /\ d = Component(a.src, a.from, t)
      OBVIOUS
    <3>2. w \in Vars /\ d \in 1..VarLen[w]
      BY <1>3, <2>2, <3>1, AtomParts, Zenon DEF InRange
    <3>3. Uses(a, t, w, d) /\ Touches(a, w)
      BY <3>1, Zenon DEF Uses, Touches
    <3>4. ~Added(B, w)
      BY <1>1, <3>1, <3>3, Zenon DEF Added
    <3>5. n[w][d] = l[w][d]
      BY <1>4, <3>2, <3>3, <3>4, Zenon
    <3> QED
      BY <2>2, <3>1, <3>5, Zenon DEF Value
  <2> QED
    BY <2>1, <2>2, Zenon
<1>6. a.op = "self" => n[a.dst][Target(a, t)] = l[a.dst][Target(a, t)]
  <2>1. SUFFICES ASSUME a.op = "self" PROVE n[a.dst][Target(a, t)] = l[a.dst][Target(a, t)]
    BY Zenon
  <2>2. a.op # "add"
    BY <2>1
  <2>3. ~Added(B, a.dst)
    BY <1>1, <2>2, Zenon DEF Added, Touches
  <2>4. a.dst \in Vars /\ Target(a, t) \in 1..VarLen[a.dst] /\ Uses(a, t, a.dst, Target(a, t))
    BY <1>3, AtomParts, Zenon DEF InRange, Uses
  <2> QED
    BY <1>4, <2>3, <2>4, Zenon
<1>7. OperandOf(n, a, t) = OperandOf(l, a, t)
  BY <1>5, <1>6, Zenon DEF OperandOf
<1> QED
  BY <1>1, <1>7, Zenon

\* Thread t has moved by one atom.
Moved(pos, new, t, p, q) ==
  new[t] = pos[t] + 1 /\ \A s \in Threads(p, q) : s # t => new[s] = pos[s]

\* The commit of a thread moves it by one atom.
LEMMA CommitMix ==
  ASSUME NEW m \in Mems, NEW B, NEW p \in Nat, NEW q \in Nat, Fine(B, p, q),
         NEW pos \in Positions(B, p, q), NEW t \in Threads(p, q),
         pos[t] + 1 \in 1..Len(B), Executes(B[pos[t] + 1], t),
         NEW new \in Positions(B, p, q), Moved(pos, new, t, p, q)
  PROVE  CommitOf(Mix(m, B, p, q, pos), B[pos[t] + 1], t,
                  OperandOf(Alone(m, B, t)[pos[t]], B[pos[t] + 1], t)) = Mix(m, B, p, q, new)
<1>1. PICK a, n, l, x : /\ a = B[pos[t] + 1] /\ n = Mix(m, B, p, q, pos) /\ l = Alone(m, B, t)[pos[t]]
                        /\ x = OperandOf(l, a, t)
  OBVIOUS
<1>2. B \in Seq(Atoms) /\ AllSafe(B, p, q) /\ Safe(B, t)
  BY Zenon DEF Fine, AllSafe
<1>3. a \in Atoms /\ InRange(a, t) /\ Executes(a, t)
  BY <1>1, <1>2, SeqParts, ZenonT(60) DEF Safe
<1>4. n \in Mems /\ Mix(m, B, p, q, new) \in Mems
  BY <1>1, <1>2, MixType, Zenon
<1>5. new[t] = pos[t] + 1 /\ \A s \in Threads(p, q) : s # t => new[s] = pos[s]
  BY Zenon DEF Moved
<1>6. pos[t] \in 0..(Len(B) - 1) /\ pos[t] \in 0..Len(B)
  <2>1. pos[t] \in 0..Len(B) /\ Len(B) \in Nat
    BY <1>2, SeqParts DEF Positions
  <2> QED
    BY <2>1
<1>7. l \in Mems /\ Alone(m, B, t)[new[t]] = RunAtom(l, a, t)
  <2>1. Alone(m, B, t)[pos[t] + 1] = AloneStep(l, a, t) /\ l \in Mems
    <3>1. /\ \A i \in 0..Len(B) : Alone(m, B, t)[i] \in Mems
          /\ \A i \in 0..(Len(B) - 1) :
               Alone(m, B, t)[i + 1] = AloneStep(Alone(m, B, t)[i], B[i + 1], t)
      BY <1>2, AloneParts, ZenonT(60)
    <3> QED
      BY <1>1, <1>6, <3>1, Zenon
  <2> QED
    BY <1>3, <1>5, <2>1, Zenon DEF AloneStep
<1>8. PICK v, c, r, z : v = a.dst /\ c = Target(a, t) /\ r = RunAtom(l, a, t) /\ z = NewCell(l, a, t, x)
  OBVIOUS
<1>9. v \in Vars /\ c \in 1..VarLen[v] /\ OnlyAt(r, l, v, c, z)
  BY <1>1, <1>3, <1>7, <1>8, AloneRuns, Zenon
<1>10. x \in Cells /\ z \in Cells
  <2>1. IsMem(l)
    BY <1>7, MemsAre, Zenon
  <2>2. x \in Cells
    BY <1>1, <1>3, <2>1, OperandType, Zenon
  <2> QED
    BY <1>3, <1>8, <2>1, <2>2, NewCellType, Zenon
<1>11. PICK y : y = NewCell(n, a, t, x)
  OBVIOUS
<1>12. y \in Cells
  BY <1>3, <1>4, <1>10, <1>11, MemsAre, NewCellType, Zenon
<1>13. IsMem(Put(n, v, c, y)) /\ OnlyAt(Put(n, v, c, y), n, v, c, y)
  BY <1>4, <1>9, <1>12, MemsAre, PutIs, Zenon
<1>14. ASSUME NEW w \in Vars, NEW d \in 1..VarLen[w], <<w, d>> # <<v, c>>
       PROVE  Mix(m, B, p, q, new)[w][d] = Put(n, v, c, y)[w][d]
  <2>1. r[w][d] = l[w][d] /\ Put(n, v, c, y)[w][d] = n[w][d]
    BY <1>9, <1>13, <1>14, Zenon DEF OnlyAt
  <2>2. ASSUME NEW s \in Threads(p, q)
        PROVE  Alone(m, B, s)[new[s]][w][d] = Alone(m, B, s)[pos[s]][w][d]
    BY <1>1, <1>5, <1>7, <1>8, <2>1, Zenon
  <2>3. Gain(m, B, p, q, new, w, d) = Gain(m, B, p, q, pos, w, d)
    BY <2>2, Zenon DEF Gain
  <2>4. Mix(m, B, p, q, new)[w][d] = Mix(m, B, p, q, pos)[w][d]
    <3>1. Mix(m, B, p, q, new)[w][d] = (m[w][d] + Sum2(p, q, Gain(m, B, p, q, new, w, d))) % Limit
      BY MixCell, ZenonT(60)
    <3>2. Mix(m, B, p, q, pos)[w][d] = (m[w][d] + Sum2(p, q, Gain(m, B, p, q, pos, w, d))) % Limit
      BY MixCell, ZenonT(60)
    <3> QED
      BY <2>3, <3>1, <3>2, Zenon
  <2> QED
    BY <1>1, <2>1, <2>4, Zenon
<1>15. Mix(m, B, p, q, new)[v][c] = y
  <2>1. PICK f \in [Threads(p, q) -> Int], h \in [Threads(p, q) -> Int] :
          f = Gain(m, B, p, q, pos, v, c) /\ h = Gain(m, B, p, q, new, v, c)
    BY <1>2, <1>9, GainType, Zenon
  <2>2. \A s \in Threads(p, q) : s # t => h[s] = f[s]
    BY <1>5, <2>1, Zenon DEF Gain
  <2>3. m[v][c] \in Int /\ l[v][c] \in Int /\ x \in Int /\ z \in Int
    <3>1. m[v][c] \in Int /\ l[v][c] \in Int
      BY <1>7, <1>9, MemsAre, CellType, Zenon
    <3> QED
      BY <3>1, <1>10, SmallRemainder, Zenon
  <2>4. f[t] = l[v][c] - m[v][c] /\ h[t] = z - m[v][c]
    <3>1. r[v][c] = z
      BY <1>9, Zenon DEF OnlyAt
    <3> QED
      BY <1>1, <1>7, <1>8, <2>1, <3>1, Zenon DEF Gain
  <2>5. PICK e \in Int : e = z - l[v][c]
    BY <2>3
  <2>6. h[t] = f[t] + e
    <3>1. PICK i \in Int, j \in Int, k \in Int : i = m[v][c] /\ j = l[v][c] /\ k = z
      BY <2>3, Zenon
    <3>2. k - i = (j - i) + (k - j)
      OBVIOUS
    <3> QED
      BY <2>4, <2>5, <3>1, <3>2, Zenon
  <2>7. Sum2(p, q, h) = Sum2(p, q, f) + e
    BY <2>2, <2>6, Sum2Change, Zenon
  <2>8. PICK b \in Int : b = m[v][c] + Sum2(p, q, f)
    <3>1. Sum2(p, q, f) \in Int
      BY Sum2Type, Zenon
    <3> QED
      BY <2>3, <3>1
  <2>9. n[v][c] = b % Limit
    BY <1>1, <1>9, <2>1, <2>8, MixCell, ZenonT(60)
  <2>10. m[v][c] + Sum2(p, q, h) = b + (z - l[v][c])
    <3>1. Sum2(p, q, f) \in Int
      BY Sum2Type, Zenon
    <3>2. PICK i \in Int, j \in Int, k \in Int : i = m[v][c] /\ j = Sum2(p, q, f) /\ k = l[v][c]
      BY <2>3, <3>1, Zenon
    <3>3. b = i + j /\ e = z - k /\ Sum2(p, q, h) = j + e
      BY <2>5, <2>7, <2>8, <3>2, Zenon
    <3>4. i + (j + e) = b + (z - k)
      BY <2>3, <3>3
    <3> QED
      BY <3>2, <3>3, <3>4, Zenon
  <2>11. Mix(m, B, p, q, new)[v][c] = (b + (z - l[v][c])) % Limit
    <3>1. Mix(m, B, p, q, new)[v][c] = (m[v][c] + Sum2(p, q, Gain(m, B, p, q, new, v, c))) % Limit
      BY <1>9, MixCell, ZenonT(60)
    <3> QED
      BY <2>1, <2>10, <3>1, Zenon
  <2>12. CASE a.op = "add"
    <3>1. z = (l[v][c] + x) % Limit /\ y = (n[v][c] + x) % Limit
      BY <2>12, <1>8, <1>11, Zenon DEF NewCell
    <3>2. ((b % Limit) + x) % Limit = (b + (((l[v][c] + x) % Limit) - l[v][c])) % Limit
      <4>1. PICK k \in Int : k = l[v][c]
        BY <2>3, Zenon
      <4>2. x \in Int /\ Limit \in Nat \ {0}
        BY <2>3, LaunchAssumption
      <4>3. ((b % Limit) + x) % Limit = (b + (((k + x) % Limit) - k)) % Limit
        BY <4>2, RemainderMoves, ZenonT(60)
      <4> QED
        BY <4>1, <4>3, Zenon
    <3> QED
      BY <2>9, <2>11, <3>1, <3>2, Zenon
  <2>13. CASE a.op # "add"
    <3>1. z = x /\ y = x
      BY <2>13, <1>8, <1>11, Zenon DEF NewCell
    <3>2. ~Added(B, v) /\ Uses(a, t, v, c)
      BY <1>1, <1>8, <2>13, Zenon DEF Added, Touches, Uses
    <3>3. Sole(B, p, q, t, v, c)
      BY <1>1, <1>9, <3>2, OthersSilent, Zenon
    <3>4. b = l[v][c]
      <4>1. v \in Vars /\ c \in 1..VarLen[v]
        BY <1>9, Zenon
      <4>2. B \in Seq(Atoms) /\ AllSafe(B, p, q)
        BY <1>2, Zenon
      <4>3. m[v][c] + Sum2(p, q, Gain(m, B, p, q, pos, v, c)) = Alone(m, B, t)[pos[t]][v][c]
        BY <4>1, <4>2, <3>3, MixOwn, ZenonT(60)
      <4> QED
        BY <1>1, <2>1, <2>8, <4>3, Zenon
    <3>5. b + (z - l[v][c]) = x
      BY <2>3, <3>1, <3>4
    <3> QED
      BY <1>10, <2>11, <3>1, <3>5, SmallRemainder, Zenon
  <2> QED
    BY <2>12, <2>13, Zenon
<1>16. ASSUME NEW w \in Vars, NEW d \in 1..VarLen[w]
       PROVE  Mix(m, B, p, q, new)[w][d] = Put(n, v, c, y)[w][d]
  <2>1. CASE <<w, d>> = <<v, c>>
    <3>1. w = v /\ d = c
      BY <2>1
    <3> QED
      BY <1>13, <1>15, <3>1, Zenon DEF OnlyAt
  <2> QED
    BY <2>1, <1>14, Zenon
<1>17. Mix(m, B, p, q, new) = Put(n, v, c, y)
  BY <1>4, <1>13, <1>16, MemsAre, MemEqual, Zenon
<1>18. CommitOf(n, a, t, x) = Put(n, v, c, y)
  BY <1>3, <1>8, <1>11, CommitIs, Zenon
<1> QED
  BY <1>1, <1>17, <1>18, Zenon

\* The steps of a run of atoms exist, and stay in memories when each of them does.
IsAtomsRun(g, m, as, ix) ==
  g = [i \in 0..Len(as) |-> IF i = 0 THEN m ELSE RunAtom(g[i - 1], as[i], ix)]

AtomsRunSteps(as, ix) == \A acc \in Mems : \A i \in 1..Len(as) : RunAtom(acc, as[i], ix) \in Mems

AtomsRun(g, m, as, ix) ==
  /\ g \in [0..Len(as) -> Mems] /\ g[0] = m /\ g[Len(as)] = RunAtoms(m, as, ix)
  /\ \A i \in 0..(Len(as) - 1) : g[i + 1] = RunAtom(g[i], as[i + 1], ix)

\* The memories a sequence of atoms passes through.
LEMMA AtomsRunIs ==
  ASSUME NEW m \in Mems, NEW as, NEW ix, Len(as) \in Nat, AtomsRunSteps(as, ix)
  PROVE  \E g : AtomsRun(g, m, as, ix)
<1>0. PICK n \in Nat : n = Len(as)
  BY Zenon
<1>1. \A acc \in Mems : \A i \in 1..n : RunAtom(acc, as[i], ix) \in Mems
  BY <1>0, Zenon DEF AtomsRunSteps
<1> DEFINE st == [r \in Mems \X (1..n) |-> RunAtom(r[1], as[r[2]], ix)]
<1>2. \A r \in Mems \X (1..n) : r[1] \in Mems /\ r[2] \in 1..n
  OBVIOUS
<1>3. st \in [Mems \X (1..n) -> Mems]
  BY <1>1, <1>2, Zenon
<1>4. ASSUME NEW o \in Mems, NEW i \in 1..n PROVE st[<<o, i>>] = RunAtom(o, as[i], ix)
  <2>1. <<o, i>> \in Mems \X (1..n) /\ <<o, i>>[1] = o /\ <<o, i>>[2] = i
    OBVIOUS
  <2> QED
    BY <2>1, Zenon
<1> HIDE DEF st
<1>5. PICK h : h = Iter(n, m, st)
  OBVIOUS
<1>6. Iterates(h, n, m, st, Mems) /\ IsIter(h, n, m, st)
  BY <1>3, <1>5, IterIs, Zenon
<1>7. ASSUME NEW i \in 0..n
      PROVE  (IF i = 0 THEN m ELSE st[<<h[i - 1], i>>]) = (IF i = 0 THEN m ELSE RunAtom(h[i - 1], as[i], ix))
  <2>1. CASE i = 0
    BY <2>1, Zenon
  <2>2. CASE i # 0
    <3>1. i - 1 \in 0..n /\ i \in 1..n
      BY <2>2
    <3>2. h[i - 1] \in Mems
      BY <1>6, <3>1 DEF Iterates
    <3> QED
      BY <1>4, <2>2, <3>1, <3>2, Zenon
  <2> QED
    BY <2>1, <2>2, Zenon
<1>8. IsAtomsRun(h, m, as, ix)
  <2>1. h = [i \in 0..n |-> IF i = 0 THEN m ELSE st[<<h[i - 1], i>>]]
    BY <1>6, Zenon DEF IsIter
  <2>2. [i \in 0..n |-> IF i = 0 THEN m ELSE st[<<h[i - 1], i>>]]
          = [i \in 0..n |-> IF i = 0 THEN m ELSE RunAtom(h[i - 1], as[i], ix)]
    BY <1>7, Zenon
  <2>3. h = [i \in 0..n |-> IF i = 0 THEN m ELSE RunAtom(h[i - 1], as[i], ix)]
    BY <2>1, <2>2, Zenon
  <2> QED
    BY <1>0, <2>3, Zenon DEF IsAtomsRun
<1>9. PICK g : g = (CHOOSE f : IsAtomsRun(f, m, as, ix))
  OBVIOUS
<1>10. IsAtomsRun(g, m, as, ix)
  BY <1>8, <1>9, Zenon
<1>11. RunAtoms(m, as, ix) = g[n]
  BY <1>0, <1>9, Zenon DEF RunAtoms, Stepped, IsAtomsRun
<1>12. g = [i \in 0..n |-> IF i = 0 THEN m ELSE RunAtom(g[i - 1], as[i], ix)]
  BY <1>0, <1>10, Zenon DEF IsAtomsRun
<1>13. g[0] = m
  BY <1>12
<1>14. ASSUME NEW i \in 0..(n - 1) PROVE g[i + 1] = RunAtom(g[i], as[i + 1], ix)
  <2>1. i + 1 \in 0..n /\ i + 1 # 0 /\ (i + 1) - 1 = i
    OBVIOUS
  <2>2. g[i + 1] = RunAtom(g[(i + 1) - 1], as[i + 1], ix)
    BY <1>12, <2>1, Zenon
  <2> QED
    BY <2>1, <2>2
<1> DEFINE S == {i \in 0..n : g[i] \in Mems}
<1>15. 0 \in S
  BY <1>13
<1>16. ASSUME NEW i \in 0..(n - 1), i \in S PROVE i + 1 \in S
  <2>1. i + 1 \in 1..n /\ i + 1 \in 0..n /\ g[i] \in Mems
    BY <1>16
  <2>2. g[i + 1] \in Mems
    BY <1>1, <1>14, <2>1, Zenon
  <2> QED
    BY <2>1, <2>2, Zenon
<1>17. \A i \in 0..n : g[i] \in Mems
  <2> HIDE DEF S
  <2>1. \A i \in 0..n : i \in S
    BY <1>15, <1>16, InductionUpTo, Zenon
  <2> QED
    BY <2>1, Zenon DEF S
<1>18. g \in [0..n -> Mems]
  <2>1. DOMAIN g = 0..n /\ g = [i \in DOMAIN g |-> g[i]]
    BY <1>12
  <2> QED
    BY <1>17, <2>1
<1>19. AtomsRun(g, m, as, ix)
  BY <1>0, <1>11, <1>13, <1>14, <1>18, Zenon DEF AtomsRun
<1> QED
  BY <1>19, Zenon

\* The steps of a run of the inner loop exist, and stay in memories when each of them does.
IsInnerRun(g, m, l, x) ==
  g = [i \in 0..SetLen[l.set] |-> IF i = 0 THEN m ELSE RunAtoms(g[i - 1], l.body, <<x, i - 1>>)]

InnerRunSteps(l, x) == \A acc \in Mems : \A i \in 1..SetLen[l.set] : RunAtoms(acc, l.body, <<x, i - 1>>) \in Mems

InnerRun(g, m, l, x) ==
  /\ g \in [0..SetLen[l.set] -> Mems] /\ g[0] = m /\ g[SetLen[l.set]] = RunInner(m, l, x)
  /\ \A i \in 0..(SetLen[l.set] - 1) : g[i + 1] = RunAtoms(g[i], l.body, <<x, (i + 1) - 1>>)

\* The memories an inner loop passes through.
LEMMA InnerRunIs ==
  ASSUME NEW m \in Mems, NEW l, NEW x, SetLen[l.set] \in Nat, InnerRunSteps(l, x)
  PROVE  \E g : InnerRun(g, m, l, x)
<1>0. PICK n \in Nat : n = SetLen[l.set]
  BY Zenon
<1>1. \A acc \in Mems : \A i \in 1..n : RunAtoms(acc, l.body, <<x, i - 1>>) \in Mems
  BY <1>0, Zenon DEF InnerRunSteps
<1> DEFINE st == [r \in Mems \X (1..n) |-> RunAtoms(r[1], l.body, <<x, r[2] - 1>>)]
<1>2. \A r \in Mems \X (1..n) : r[1] \in Mems /\ r[2] \in 1..n
  OBVIOUS
<1>3. st \in [Mems \X (1..n) -> Mems]
  BY <1>1, <1>2, Zenon
<1>4. ASSUME NEW o \in Mems, NEW i \in 1..n PROVE st[<<o, i>>] = RunAtoms(o, l.body, <<x, i - 1>>)
  <2>1. <<o, i>> \in Mems \X (1..n) /\ <<o, i>>[1] = o /\ <<o, i>>[2] = i
    OBVIOUS
  <2> QED
    BY <2>1, Zenon
<1> HIDE DEF st
<1>5. PICK h : h = Iter(n, m, st)
  OBVIOUS
<1>6. Iterates(h, n, m, st, Mems) /\ IsIter(h, n, m, st)
  BY <1>3, <1>5, IterIs, Zenon
<1>7. ASSUME NEW i \in 0..n
      PROVE  (IF i = 0 THEN m ELSE st[<<h[i - 1], i>>]) = (IF i = 0 THEN m ELSE RunAtoms(h[i - 1], l.body, <<x, i - 1>>))
  <2>1. CASE i = 0
    BY <2>1, Zenon
  <2>2. CASE i # 0
    <3>1. i - 1 \in 0..n /\ i \in 1..n
      BY <2>2
    <3>2. h[i - 1] \in Mems
      BY <1>6, <3>1 DEF Iterates
    <3> QED
      BY <1>4, <2>2, <3>1, <3>2, Zenon
  <2> QED
    BY <2>1, <2>2, Zenon
<1>8. IsInnerRun(h, m, l, x)
  <2>1. h = [i \in 0..n |-> IF i = 0 THEN m ELSE st[<<h[i - 1], i>>]]
    BY <1>6, Zenon DEF IsIter
  <2>2. [i \in 0..n |-> IF i = 0 THEN m ELSE st[<<h[i - 1], i>>]]
          = [i \in 0..n |-> IF i = 0 THEN m ELSE RunAtoms(h[i - 1], l.body, <<x, i - 1>>)]
    BY <1>7, Zenon
  <2>3. h = [i \in 0..n |-> IF i = 0 THEN m ELSE RunAtoms(h[i - 1], l.body, <<x, i - 1>>)]
    BY <2>1, <2>2, Zenon
  <2> QED
    BY <1>0, <2>3, Zenon DEF IsInnerRun
<1>9. PICK g : g = (CHOOSE f : IsInnerRun(f, m, l, x))
  OBVIOUS
<1>10. IsInnerRun(g, m, l, x)
  BY <1>8, <1>9, Zenon
<1>11. RunInner(m, l, x) = g[n]
  BY <1>0, <1>9, Zenon DEF RunInner, Stepped, IsInnerRun
<1>12. g = [i \in 0..n |-> IF i = 0 THEN m ELSE RunAtoms(g[i - 1], l.body, <<x, i - 1>>)]
  BY <1>0, <1>10, Zenon DEF IsInnerRun
<1>13. g[0] = m
  BY <1>12
<1>14. ASSUME NEW i \in 0..(n - 1) PROVE g[i + 1] = RunAtoms(g[i], l.body, <<x, (i + 1) - 1>>)
  <2>1. i + 1 \in 0..n /\ i + 1 # 0 /\ (i + 1) - 1 = i
    OBVIOUS
  <2>2. g[i + 1] = RunAtoms(g[(i + 1) - 1], l.body, <<x, (i + 1) - 1>>)
    BY <1>12, <2>1, Zenon
  <2> QED
    BY <2>1, <2>2
<1> DEFINE S == {i \in 0..n : g[i] \in Mems}
<1>15. 0 \in S
  BY <1>13
<1>16. ASSUME NEW i \in 0..(n - 1), i \in S PROVE i + 1 \in S
  <2>1. i + 1 \in 1..n /\ i + 1 \in 0..n /\ g[i] \in Mems
    BY <1>16
  <2>2. g[i + 1] \in Mems
    BY <1>1, <1>14, <2>1, Zenon
  <2> QED
    BY <2>1, <2>2, Zenon
<1>17. \A i \in 0..n : g[i] \in Mems
  <2> HIDE DEF S
  <2>1. \A i \in 0..n : i \in S
    BY <1>15, <1>16, InductionUpTo, Zenon
  <2> QED
    BY <2>1, Zenon DEF S
<1>18. g \in [0..n -> Mems]
  <2>1. DOMAIN g = 0..n /\ g = [i \in DOMAIN g |-> g[i]]
    BY <1>12
  <2> QED
    BY <1>17, <2>1
<1>19. InnerRun(g, m, l, x)
  BY <1>0, <1>11, <1>13, <1>14, <1>18, Zenon DEF InnerRun
<1> QED
  BY <1>19, Zenon

\* The steps of a run of a loop exist, and stay in memories when each of them does.
IsForRun(g, m, s) ==
  g = [i \in 0..SetLen[s.set] |-> IF i = 0 THEN m ELSE RunIteration(g[i - 1], s, i - 1)]

ForRunSteps(s) == \A acc \in Mems : \A i \in 1..SetLen[s.set] : RunIteration(acc, s, i - 1) \in Mems

ForRun(g, m, s) ==
  /\ g \in [0..SetLen[s.set] -> Mems] /\ g[0] = m /\ g[SetLen[s.set]] = RunFor(m, s)
  /\ \A i \in 0..(SetLen[s.set] - 1) : g[i + 1] = RunIteration(g[i], s, (i + 1) - 1)

\* The memories a loop passes through.
LEMMA ForRunIs ==
  ASSUME NEW m \in Mems, NEW s, SetLen[s.set] \in Nat, ForRunSteps(s)
  PROVE  \E g : ForRun(g, m, s)
<1>0. PICK n \in Nat : n = SetLen[s.set]
  BY Zenon
<1>1. \A acc \in Mems : \A i \in 1..n : RunIteration(acc, s, i - 1) \in Mems
  BY <1>0, Zenon DEF ForRunSteps
<1> DEFINE st == [r \in Mems \X (1..n) |-> RunIteration(r[1], s, r[2] - 1)]
<1>2. \A r \in Mems \X (1..n) : r[1] \in Mems /\ r[2] \in 1..n
  OBVIOUS
<1>3. st \in [Mems \X (1..n) -> Mems]
  BY <1>1, <1>2, Zenon
<1>4. ASSUME NEW o \in Mems, NEW i \in 1..n PROVE st[<<o, i>>] = RunIteration(o, s, i - 1)
  <2>1. <<o, i>> \in Mems \X (1..n) /\ <<o, i>>[1] = o /\ <<o, i>>[2] = i
    OBVIOUS
  <2> QED
    BY <2>1, Zenon
<1> HIDE DEF st
<1>5. PICK h : h = Iter(n, m, st)
  OBVIOUS
<1>6. Iterates(h, n, m, st, Mems) /\ IsIter(h, n, m, st)
  BY <1>3, <1>5, IterIs, Zenon
<1>7. ASSUME NEW i \in 0..n
      PROVE  (IF i = 0 THEN m ELSE st[<<h[i - 1], i>>]) = (IF i = 0 THEN m ELSE RunIteration(h[i - 1], s, i - 1))
  <2>1. CASE i = 0
    BY <2>1, Zenon
  <2>2. CASE i # 0
    <3>1. i - 1 \in 0..n /\ i \in 1..n
      BY <2>2
    <3>2. h[i - 1] \in Mems
      BY <1>6, <3>1 DEF Iterates
    <3> QED
      BY <1>4, <2>2, <3>1, <3>2, Zenon
  <2> QED
    BY <2>1, <2>2, Zenon
<1>8. IsForRun(h, m, s)
  <2>1. h = [i \in 0..n |-> IF i = 0 THEN m ELSE st[<<h[i - 1], i>>]]
    BY <1>6, Zenon DEF IsIter
  <2>2. [i \in 0..n |-> IF i = 0 THEN m ELSE st[<<h[i - 1], i>>]]
          = [i \in 0..n |-> IF i = 0 THEN m ELSE RunIteration(h[i - 1], s, i - 1)]
    BY <1>7, Zenon
  <2>3. h = [i \in 0..n |-> IF i = 0 THEN m ELSE RunIteration(h[i - 1], s, i - 1)]
    BY <2>1, <2>2, Zenon
  <2> QED
    BY <1>0, <2>3, Zenon DEF IsForRun
<1>9. PICK g : g = (CHOOSE f : IsForRun(f, m, s))
  OBVIOUS
<1>10. IsForRun(g, m, s)
  BY <1>8, <1>9, Zenon
<1>11. RunFor(m, s) = g[n]
  BY <1>0, <1>9, Zenon DEF RunFor, Stepped, IsForRun
<1>12. g = [i \in 0..n |-> IF i = 0 THEN m ELSE RunIteration(g[i - 1], s, i - 1)]
  BY <1>0, <1>10, Zenon DEF IsForRun
<1>13. g[0] = m
  BY <1>12
<1>14. ASSUME NEW i \in 0..(n - 1) PROVE g[i + 1] = RunIteration(g[i], s, (i + 1) - 1)
  <2>1. i + 1 \in 0..n /\ i + 1 # 0 /\ (i + 1) - 1 = i
    OBVIOUS
  <2>2. g[i + 1] = RunIteration(g[(i + 1) - 1], s, (i + 1) - 1)
    BY <1>12, <2>1, Zenon
  <2> QED
    BY <2>1, <2>2
<1> DEFINE S == {i \in 0..n : g[i] \in Mems}
<1>15. 0 \in S
  BY <1>13
<1>16. ASSUME NEW i \in 0..(n - 1), i \in S PROVE i + 1 \in S
  <2>1. i + 1 \in 1..n /\ i + 1 \in 0..n /\ g[i] \in Mems
    BY <1>16
  <2>2. g[i + 1] \in Mems
    BY <1>1, <1>14, <2>1, Zenon
  <2> QED
    BY <2>1, <2>2, Zenon
<1>17. \A i \in 0..n : g[i] \in Mems
  <2> HIDE DEF S
  <2>1. \A i \in 0..n : i \in S
    BY <1>15, <1>16, InductionUpTo, Zenon
  <2> QED
    BY <2>1, Zenon DEF S
<1>18. g \in [0..n -> Mems]
  <2>1. DOMAIN g = 0..n /\ g = [i \in DOMAIN g |-> g[i]]
    BY <1>12
  <2> QED
    BY <1>17, <2>1
<1>19. ForRun(g, m, s)
  BY <1>0, <1>11, <1>13, <1>14, <1>18, Zenon DEF ForRun
<1> QED
  BY <1>19, Zenon

\* A sequential run of a list of statements.
RunList(m, list) == Stepped(Len(list), m, LAMBDA acc, i : RunStmt(acc, list[i]))

\* The steps of a sequential run exist, and stay in memories when each of them does.
IsListRun(g, m, list) ==
  g = [i \in 0..Len(list) |-> IF i = 0 THEN m ELSE RunStmt(g[i - 1], list[i])]

ListRunSteps(list) == \A acc \in Mems : \A i \in 1..Len(list) : RunStmt(acc, list[i]) \in Mems

ListRun(g, m, list) ==
  /\ g \in [0..Len(list) -> Mems] /\ g[0] = m /\ g[Len(list)] = RunList(m, list)
  /\ \A i \in 0..(Len(list) - 1) : g[i + 1] = RunStmt(g[i], list[i + 1])

\* The memories a function passes through in order.
LEMMA ListRunIs ==
  ASSUME NEW m \in Mems, NEW list, Len(list) \in Nat, ListRunSteps(list)
  PROVE  \E g : ListRun(g, m, list)
<1>0. PICK n \in Nat : n = Len(list)
  BY Zenon
<1>1. \A acc \in Mems : \A i \in 1..n : RunStmt(acc, list[i]) \in Mems
  BY <1>0, Zenon DEF ListRunSteps
<1> DEFINE st == [r \in Mems \X (1..n) |-> RunStmt(r[1], list[r[2]])]
<1>2. \A r \in Mems \X (1..n) : r[1] \in Mems /\ r[2] \in 1..n
  OBVIOUS
<1>3. st \in [Mems \X (1..n) -> Mems]
  BY <1>1, <1>2, Zenon
<1>4. ASSUME NEW o \in Mems, NEW i \in 1..n PROVE st[<<o, i>>] = RunStmt(o, list[i])
  <2>1. <<o, i>> \in Mems \X (1..n) /\ <<o, i>>[1] = o /\ <<o, i>>[2] = i
    OBVIOUS
  <2> QED
    BY <2>1, Zenon
<1> HIDE DEF st
<1>5. PICK h : h = Iter(n, m, st)
  OBVIOUS
<1>6. Iterates(h, n, m, st, Mems) /\ IsIter(h, n, m, st)
  BY <1>3, <1>5, IterIs, Zenon
<1>7. ASSUME NEW i \in 0..n
      PROVE  (IF i = 0 THEN m ELSE st[<<h[i - 1], i>>]) = (IF i = 0 THEN m ELSE RunStmt(h[i - 1], list[i]))
  <2>1. CASE i = 0
    BY <2>1, Zenon
  <2>2. CASE i # 0
    <3>1. i - 1 \in 0..n /\ i \in 1..n
      BY <2>2
    <3>2. h[i - 1] \in Mems
      BY <1>6, <3>1 DEF Iterates
    <3> QED
      BY <1>4, <2>2, <3>1, <3>2, Zenon
  <2> QED
    BY <2>1, <2>2, Zenon
<1>8. IsListRun(h, m, list)
  <2>1. h = [i \in 0..n |-> IF i = 0 THEN m ELSE st[<<h[i - 1], i>>]]
    BY <1>6, Zenon DEF IsIter
  <2>2. [i \in 0..n |-> IF i = 0 THEN m ELSE st[<<h[i - 1], i>>]]
          = [i \in 0..n |-> IF i = 0 THEN m ELSE RunStmt(h[i - 1], list[i])]
    BY <1>7, Zenon
  <2>3. h = [i \in 0..n |-> IF i = 0 THEN m ELSE RunStmt(h[i - 1], list[i])]
    BY <2>1, <2>2, Zenon
  <2> QED
    BY <1>0, <2>3, Zenon DEF IsListRun
<1>9. PICK g : g = (CHOOSE f : IsListRun(f, m, list))
  OBVIOUS
<1>10. IsListRun(g, m, list)
  BY <1>8, <1>9, Zenon
<1>11. RunList(m, list) = g[n]
  BY <1>0, <1>9, Zenon DEF RunList, Stepped, IsListRun
<1>12. g = [i \in 0..n |-> IF i = 0 THEN m ELSE RunStmt(g[i - 1], list[i])]
  BY <1>0, <1>10, Zenon DEF IsListRun
<1>13. g[0] = m
  BY <1>12
<1>14. ASSUME NEW i \in 0..(n - 1) PROVE g[i + 1] = RunStmt(g[i], list[i + 1])
  <2>1. i + 1 \in 0..n /\ i + 1 # 0 /\ (i + 1) - 1 = i
    OBVIOUS
  <2>2. g[i + 1] = RunStmt(g[(i + 1) - 1], list[i + 1])
    BY <1>12, <2>1, Zenon
  <2> QED
    BY <2>1, <2>2
<1> DEFINE S == {i \in 0..n : g[i] \in Mems}
<1>15. 0 \in S
  BY <1>13
<1>16. ASSUME NEW i \in 0..(n - 1), i \in S PROVE i + 1 \in S
  <2>1. i + 1 \in 1..n /\ i + 1 \in 0..n /\ g[i] \in Mems
    BY <1>16
  <2>2. g[i + 1] \in Mems
    BY <1>1, <1>14, <2>1, Zenon
  <2> QED
    BY <2>1, <2>2, Zenon
<1>17. \A i \in 0..n : g[i] \in Mems
  <2> HIDE DEF S
  <2>1. \A i \in 0..n : i \in S
    BY <1>15, <1>16, InductionUpTo, Zenon
  <2> QED
    BY <2>1, Zenon DEF S
<1>18. g \in [0..n -> Mems]
  <2>1. DOMAIN g = 0..n /\ g = [i \in DOMAIN g |-> g[i]]
    BY <1>12
  <2> QED
    BY <1>17, <2>1
<1>19. ListRun(g, m, list)
  BY <1>0, <1>11, <1>13, <1>14, <1>18, Zenon DEF ListRun
<1> QED
  BY <1>19, Zenon

-------------------------------------------------------------------------------
(* A loop runs to the mix of its threads.                                  *)

\* Atoms that do the same.
SameRun(a, b) ==
  /\ a.dst = b.dst /\ a.at = b.at /\ a.k = b.k /\ a.src = b.src /\ a.from = b.from
  /\ (a.op = "set") <=> (b.op = "set")

\* Atoms that differ only in their guard, or in how they add, do the same.
LEMMA RunSame ==
  ASSUME NEW m, NEW a, NEW b, NEW t, SameRun(a, b)
  PROVE  RunAtom(m, a, t) = RunAtom(m, b, t) /\ (InRange(a, t) <=> InRange(b, t))
<1>1. Value(m, a, t) = Value(m, b, t)
  BY Zenon DEF SameRun, Value
<1>2. PICK x : x = Value(m, a, t)
  OBVIOUS
<1>3. Stored(m, a, t, x) = Stored(m, b, t, x)
  <2>1. CASE a.op = "set"
    <3>1. b.op = "set" /\ a.dst = b.dst /\ a.at = b.at
      BY <2>1, Zenon DEF SameRun
    <3> QED
      BY <2>1, <3>1 DEF Stored
  <2>2. CASE a.op # "set"
    <3>1. b.op # "set" /\ a.dst = b.dst /\ a.at = b.at
      BY <2>2, Zenon DEF SameRun
    <3> QED
      BY <2>2, <3>1 DEF Stored
  <2> QED
    BY <2>1, <2>2, Zenon
<1>4. InRange(a, t) <=> InRange(b, t)
  BY Zenon DEF SameRun, InRange, Target
<1> QED
  BY <1>1, <1>2, <1>3, <1>4, Zenon DEF RunAtom

\* Running an atom on the mix moves its thread.
LEMMA RunMix ==
  ASSUME NEW m \in Mems, NEW B, NEW p \in Nat, NEW q \in Nat, Fine(B, p, q),
         NEW pos \in Positions(B, p, q), NEW t \in Threads(p, q),
         pos[t] + 1 \in 1..Len(B), Executes(B[pos[t] + 1], t),
         NEW new \in Positions(B, p, q), Moved(pos, new, t, p, q)
  PROVE  RunAtom(Mix(m, B, p, q, pos), B[pos[t] + 1], t) = Mix(m, B, p, q, new)
<1>1. PICK a, n, x : /\ a = B[pos[t] + 1] /\ n = Mix(m, B, p, q, pos)
                     /\ x = OperandOf(Alone(m, B, t)[pos[t]], B[pos[t] + 1], t)
  OBVIOUS
<1>2. OperandOf(n, a, t) = x
  <2>1. OperandOf(Mix(m, B, p, q, pos), B[pos[t] + 1], t) =
          OperandOf(Alone(m, B, t)[pos[t]], B[pos[t] + 1], t)
    BY ReadSame
  <2> QED
    BY <1>1, <2>1, Zenon
<1>3. CommitOf(n, a, t, x) = Mix(m, B, p, q, new)
  BY <1>1, CommitMix, Zenon
<1>4. a \in Atoms
  BY <1>1, SeqParts, ZenonT(60) DEF Fine
<1>5. RunAtom(n, a, t) = CommitOf(n, a, t, x)
  <2>1. RunAtom(n, a, t) = Put(n, a.dst, Target(a, t), NewCell(n, a, t, OperandOf(n, a, t)))
    BY <1>4, RunAtomIs, Zenon
  <2>2. CommitOf(n, a, t, x) = Put(n, a.dst, Target(a, t), NewCell(n, a, t, x))
    BY <1>4, CommitIs, Zenon
  <2> QED
    BY <1>2, <2>1, <2>2, Zenon
<1> QED
  BY <1>1, <1>3, <1>5, Zenon

\* The atoms of as are those of B behind i, and thread t runs them.
Segment(as, B, i, t) ==
  \A j \in 1..Len(as) :
    i + j \in 1..Len(B) /\ SameRun(as[j], B[i + j]) /\ Executes(B[i + j], t)

\* Atoms that a kernel's body has run inside the variables.
LEMMA SegmentSteps ==
  ASSUME NEW B, NEW p \in Nat, NEW q \in Nat, Fine(B, p, q),
         NEW t \in Threads(p, q), NEW as \in Seq(Atoms), NEW i, Segment(as, B, i, t)
  PROVE  AtomsRunSteps(as, t)
<1>1. ASSUME NEW o \in Mems, NEW j \in 1..Len(as) PROVE RunAtom(o, as[j], t) \in Mems
  <2>1. B \in Seq(Atoms) /\ Safe(B, t)
    BY Zenon DEF Fine, AllSafe
  <2>2. PICK b, a : b = B[i + j] /\ a = as[j]
    OBVIOUS
  <2>3. a \in Atoms /\ SameRun(a, b) /\ InRange(b, t)
    BY <2>1, <2>2, SeqParts, Zenon DEF Segment, Safe
  <2>4. InRange(a, t)
    BY <2>3, RunSame, Zenon
  <2> QED
    BY <2>2, <2>3, <2>4, RunAtomType, Zenon
<1> QED
  BY <1>1, Zenon DEF AtomsRunSteps

\* A segment of a body leaves a memory.
LEMMA SegmentType ==
  ASSUME NEW B, NEW p \in Nat, NEW q \in Nat, Fine(B, p, q),
         NEW t \in Threads(p, q), NEW as \in Seq(Atoms), NEW i, Segment(as, B, i, t), NEW m \in Mems
  PROVE  RunAtoms(m, as, t) \in Mems
<1>1. AtomsRunSteps(as, t) /\ Len(as) \in Nat
  BY SegmentSteps, SeqParts, Zenon
<1>2. PICK g : AtomsRun(g, m, as, t)
  BY <1>1, AtomsRunIs, Zenon
<1>3. Len(as) \in 0..Len(as)
  BY <1>1, SelfBound, Zenon
<1>4. g[Len(as)] \in Mems
  BY <1>2, <1>3 DEF AtomsRun
<1> QED
  BY <1>2, <1>4, Zenon DEF AtomsRun

\* Running atoms on the mix moves their thread.
LEMMA SegmentRun ==
  ASSUME NEW m \in Mems, NEW B, NEW p \in Nat, NEW q \in Nat, Fine(B, p, q),
         NEW pos \in Positions(B, p, q), NEW t \in Threads(p, q), NEW as \in Seq(Atoms),
         Segment(as, B, pos[t], t),
         NEW new \in Positions(B, p, q), new[t] = pos[t] + Len(as),
         \A s \in Threads(p, q) : s # t => new[s] = pos[s]
  PROVE  RunAtoms(Mix(m, B, p, q, pos), as, t) = Mix(m, B, p, q, new)
<1>0. Len(as) \in Nat /\ Len(B) \in Nat /\ B \in Seq(Atoms) /\ AllSafe(B, p, q) /\ Safe(B, t)
      /\ pos[t] \in 0..Len(B)
  BY SeqParts DEF Fine, AllSafe, Positions
<1>01. PICK L \in Nat, i \in Nat : L = Len(as) /\ i = pos[t]
  <2>1. Len(as) \in Nat /\ pos[t] \in 0..Len(B)
    BY <1>0, Zenon
  <2>2. \A k \in 0..Len(B) : k \in Nat
    OBVIOUS
  <2> QED
    BY <2>1, <2>2, Zenon
<1>1. PICK n \in Mems : n = Mix(m, B, p, q, pos)
  BY <1>0, MixType, Zenon
<1>2. AtomsRunSteps(as, t)
  BY SegmentSteps, Zenon
<1>3. PICK g : AtomsRun(g, n, as, t)
  BY <1>0, <1>2, AtomsRunIs, Zenon
<1> DEFINE At(j) == [pos EXCEPT ![t] = pos[t] + j]
           S == {j \in 0..Len(as) : g[j] = Mix(m, B, p, q, At(j))}
<1>4. 0 \in S
  <2>1. At(0) = pos
    BY <1>0 DEF Positions
  <2>2. g[0] = Mix(m, B, p, q, At(0))
    BY <1>1, <1>3, <2>1, Zenon DEF AtomsRun
  <2> QED
    <3>1. 0 \in 0..L
      OBVIOUS
    <3> HIDE DEF At
    <3> QED
      BY <1>01, <2>2, <3>1, Zenon
<1>5. ASSUME NEW j \in 0..(Len(as) - 1), j \in S PROVE j + 1 \in S
  <2>1. j + 1 \in 1..Len(as) /\ j + 1 \in 0..Len(as) /\ pos[t] + (j + 1) = (pos[t] + j) + 1
    <3> HIDE DEF S, At
    <3>1. j \in 0..(L - 1)
      BY <1>01, Zenon
    <3>2. j + 1 \in 1..L /\ j + 1 \in 0..L /\ i + (j + 1) = (i + j) + 1
      BY <3>1
    <3> QED
      BY <1>01, <3>2, Zenon
  <2>2. g[j] = Mix(m, B, p, q, At(j)) /\ g[j + 1] = RunAtom(g[j], as[j + 1], t)
    BY <1>3, <1>5, Zenon DEF AtomsRun
  <2>3. (pos[t] + j) + 1 \in 1..Len(B) /\ SameRun(as[j + 1], B[(pos[t] + j) + 1])
        /\ Executes(B[(pos[t] + j) + 1], t)
    BY <2>1, Zenon DEF Segment
  <2>4. PICK a, b : a = At(j) /\ b = At(j + 1)
    OBVIOUS
  <2>5. a \in Positions(B, p, q) /\ b \in Positions(B, p, q)
    BY <1>0, <2>1, <2>3, <2>4 DEF Positions
  <2>6. a[t] = pos[t] + j /\ b[t] = a[t] + 1 /\ \A s \in Threads(p, q) : s # t => b[s] = a[s]
    BY <1>0, <2>1, <2>4 DEF Positions
  <2>7. Moved(a, b, t, p, q)
    BY <2>6, Zenon DEF Moved
  <2>8. RunAtom(Mix(m, B, p, q, a), B[a[t] + 1], t) = Mix(m, B, p, q, b)
    BY <2>3, <2>5, <2>6, <2>7, RunMix, ZenonT(60)
  <2>9. RunAtom(g[j], as[j + 1], t) = RunAtom(g[j], B[a[t] + 1], t)
    <3>1. PICK d, e, n2 : d = as[j + 1] /\ e = B[a[t] + 1] /\ n2 = g[j]
      OBVIOUS
    <3>2. SameRun(d, e)
      BY <2>3, <2>6, <3>1, Zenon
    <3>3. RunAtom(n2, d, t) = RunAtom(n2, e, t)
      BY <3>2, RunSame, Zenon
    <3> QED
      BY <3>1, <3>3, Zenon
  <2>10. g[j + 1] = Mix(m, B, p, q, At(j + 1))
    BY <2>2, <2>4, <2>8, <2>9, Zenon
  <2> HIDE DEF At
  <2> QED
    BY <2>1, <2>10, Zenon
<1>6. Len(as) \in S
  <2> HIDE DEF S
  <2>1. Len(as) \in 0..Len(as)
    <3>1. L \in 0..L
      OBVIOUS
    <3> QED
      BY <1>01, <3>1, Zenon
  <2> QED
    BY <1>0, <1>4, <1>5, <2>1, InductionUpTo, Zenon
<1>7. At(Len(as)) = new
  BY <1>0 DEF Positions
<1>8. g[Len(as)] = Mix(m, B, p, q, new)
  BY <1>6, <1>7, Zenon
<1> QED
  BY <1>1, <1>3, <1>8, Zenon DEF AtomsRun

\* Threads before row x have ended, those of row x are at f, and the others
\* have not begun.
Pos(B, p, q, x, f) ==
  [t \in Threads(p, q) |-> IF t[1] < x THEN Len(B) ELSE IF t[1] = x THEN f[t[2]] ELSE 0]

Rows(B, q) == [0..(q - 1) -> 0..Len(B)]

\* A row that is under way is a position of all threads.
LEMMA PosType ==
  ASSUME NEW B \in Seq(Atoms), NEW p \in Nat, NEW q \in Nat, NEW x \in Nat, NEW f \in Rows(B, q)
  PROVE  Pos(B, p, q, x, f) \in Positions(B, p, q)
<1>1. PICK L \in Nat : L = Len(B)
  BY SeqParts, Zenon
<1>2. f \in [0..(q - 1) -> 0..L]
  BY <1>1, Zenon DEF Rows
<1>3. ASSUME NEW t \in Threads(p, q)
      PROVE  (IF t[1] < x THEN L ELSE IF t[1] = x THEN f[t[2]] ELSE 0) \in 0..L
  <2>1. t[2] \in 0..(q - 1)
    BY DEF Threads
  <2> QED
    BY <1>2, <2>1
<1> QED
  BY <1>1, <1>3, Zenon DEF Pos, Positions

\* One thread of the row has moved on by n atoms.
RowMoved(f, h, q, y, n) == h[y] = f[y] + n /\ \A z \in 0..(q - 1) : z # y => h[z] = f[z]

\* The memory when row x is at f.
AtRow(m, B, p, q, x, f) == Mix(m, B, p, q, Pos(B, p, q, x, f))

\* Running as in thread y takes row x from f to h.
RowGoes(m, B, p, q, x, y, as, f, h) ==
  RunAtoms(AtRow(m, B, p, q, x, f), as, <<x, y>>) = AtRow(m, B, p, q, x, h)

\* Running atoms in a thread of row x.
LEMMA RowRun ==
  ASSUME NEW m \in Mems, NEW B, NEW p \in Nat, NEW q \in Nat, Fine(B, p, q),
         NEW x \in 0..(p - 1), NEW y \in 0..(q - 1), NEW as \in Seq(Atoms),
         NEW f \in Rows(B, q), NEW h \in Rows(B, q), RowMoved(f, h, q, y, Len(as)),
         Segment(as, B, f[y], <<x, y>>)
  PROVE  RowGoes(m, B, p, q, x, y, as, f, h)
<1>0. B \in Seq(Atoms) /\ x \in Nat
  BY DEF Fine
<1>1. PICK pos \in Positions(B, p, q), new \in Positions(B, p, q) :
        pos = Pos(B, p, q, x, f) /\ new = Pos(B, p, q, x, h)
  BY <1>0, PosType, Zenon
<1>2. PICK t \in Threads(p, q) : t = <<x, y>>
  BY DEF Threads
<1>3. pos[t] = f[y] /\ new[t] = h[y]
  <2>1. t[1] = x /\ t[2] = y /\ ~(x < x)
    BY <1>2
  <2> QED
    BY <1>1, <2>1, Zenon DEF Pos
<1>4. ASSUME NEW s \in Threads(p, q), s # t PROVE new[s] = pos[s]
  <2>1. PICK u \in 0..(p - 1), z \in 0..(q - 1) : s = <<u, z>>
    BY DEF Threads
  <2>2. s[1] = u /\ s[2] = z
    BY <2>1
  <2>3. u # x \/ z # y
    BY <1>2, <1>4, <2>1, Zenon
  <2>4. u = x => h[z] = f[z]
    BY <2>3, Zenon DEF RowMoved
  <2>5. pos[s] = IF u < x THEN Len(B) ELSE IF u = x THEN f[z] ELSE 0
    BY <1>1, <2>2, Zenon DEF Pos
  <2>6. new[s] = IF u < x THEN Len(B) ELSE IF u = x THEN h[z] ELSE 0
    BY <1>1, <2>2, Zenon DEF Pos
  <2>7. CASE u = x
    <3>1. f[z] = h[z]
      BY <2>4, <2>7, Zenon
    <3> QED
      BY <2>5, <2>6, <3>1, Zenon
  <2>8. CASE u # x /\ u < x
    BY <2>5, <2>6, <2>8, Zenon
  <2>9. CASE u # x /\ ~(u < x)
    BY <2>5, <2>6, <2>9, Zenon
  <2> QED
    BY <2>7, <2>8, <2>9, Zenon
<1>5. new[t] = pos[t] + Len(as) /\ Segment(as, B, pos[t], t)
  BY <1>2, <1>3, Zenon DEF RowMoved
<1>6. RunAtoms(Mix(m, B, p, q, pos), as, t) = Mix(m, B, p, q, new)
  BY <1>4, <1>5, SegmentRun, ZenonT(60)
<1> QED
  BY <1>1, <1>2, <1>6, Zenon DEF RowGoes, AtRow

\* The threads of row x have the same memories at f and at h.
RowSame(m, B, q, x, f, h) ==
  \A y \in 0..(q - 1) : Alone(m, B, <<x, y>>)[f[y]] = Alone(m, B, <<x, y>>)[h[y]]

\* Threads of row x that pass over atoms.
LEMMA RowSkip ==
  ASSUME NEW m \in Mems, NEW B, NEW p \in Nat, NEW q \in Nat, NEW x \in 0..(p - 1), NEW f, NEW h,
         RowSame(m, B, q, x, f, h)
  PROVE  AtRow(m, B, p, q, x, f) = AtRow(m, B, p, q, x, h)
<1>1. PICK pos, new : pos = Pos(B, p, q, x, f) /\ new = Pos(B, p, q, x, h)
  OBVIOUS
<1>2. ASSUME NEW s \in Threads(p, q) PROVE Alone(m, B, s)[pos[s]] = Alone(m, B, s)[new[s]]
  <2>1. PICK u \in 0..(p - 1), z \in 0..(q - 1) : s = <<u, z>>
    BY DEF Threads
  <2>2. s[1] = u /\ s[2] = z
    BY <2>1
  <2>5. pos[s] = IF u < x THEN Len(B) ELSE IF u = x THEN f[z] ELSE 0
    BY <1>1, <2>2, Zenon DEF Pos
  <2>6. new[s] = IF u < x THEN Len(B) ELSE IF u = x THEN h[z] ELSE 0
    BY <1>1, <2>2, Zenon DEF Pos
  <2>7. CASE u = x /\ ~(u < x)
    <3>1. Alone(m, B, <<x, z>>)[f[z]] = Alone(m, B, <<x, z>>)[h[z]]
      BY Zenon DEF RowSame
    <3> QED
      BY <2>1, <2>5, <2>6, <2>7, <3>1, Zenon
  <2>8. CASE u # x \/ u < x
    <3>1. pos[s] = new[s]
      <4>1. CASE u < x
        BY <2>5, <2>6, <4>1, Zenon
      <4>2. CASE u # x /\ ~(u < x)
        BY <2>5, <2>6, <4>2, Zenon
      <4> QED
        BY <2>8, <4>1, <4>2, Zenon
    <3> QED
      BY <3>1, Zenon
  <2> QED
    BY <2>7, <2>8, Zenon
<1>3. Mix(m, B, p, q, pos) = Mix(m, B, p, q, new)
  BY <1>2, MixSame, Zenon
<1> QED
  BY <1>1, <1>3, Zenon DEF AtRow

\* Before the first row nothing has run.
LEMMA MixStart ==
  ASSUME NEW m \in Mems, NEW B \in Seq(Atoms), NEW p \in Nat, NEW q \in Nat, AllSafe(B, p, q),
         NEW pos \in Positions(B, p, q), \A t \in Threads(p, q) : pos[t] = 0
  PROVE  Mix(m, B, p, q, pos) = m
<1>1. ASSUME NEW v \in Vars, NEW c \in 1..VarLen[v]
      PROVE  Mix(m, B, p, q, pos)[v][c] = m[v][c]
  <2>1. m[v][c] \in Cells
    BY MemsAre, CellType, Zenon
  <2>2. m[v][c] \in Int /\ m[v][c] % Limit = m[v][c]
    BY <2>1, SmallRemainder, Zenon
  <2>3. PICK f : f = Gain(m, B, p, q, pos, v, c)
    OBVIOUS
  <2>4. ASSUME NEW t \in Threads(p, q) PROVE f[t] = 0
    <3>1. Alone(m, B, t)[0] = m
      BY AloneParts, Zenon DEF AllSafe
    <3>2. f[t] = m[v][c] - m[v][c]
      BY <2>3, <3>1, Zenon DEF Gain
    <3> QED
      BY <2>2, <3>2
  <2>5. Sum2(p, q, f) = 0
    BY <2>4, Sum2Zero, Zenon
  <2>6. Mix(m, B, p, q, pos)[v][c] = (m[v][c] + 0) % Limit
    <3>1. Mix(m, B, p, q, pos)[v][c] = (m[v][c] + Sum2(p, q, Gain(m, B, p, q, pos, v, c))) % Limit
      BY MixCell, ZenonT(60)
    <3> QED
      BY <2>3, <2>5, <3>1, Zenon
  <2>7. m[v][c] + 0 = m[v][c]
    BY <2>2
  <2> QED
    BY <2>2, <2>6, <2>7, Zenon
<1>2. Mix(m, B, p, q, pos) \in Mems
  BY MixType, Zenon
<1> QED
  BY <1>1, <1>2, MemsAre, MemEqual, Zenon

\* The atoms of the loop inside, if there is one.
InnerBody(s) == IF s.inner = <<>> THEN <<>> ELSE s.inner[1].body

\* B is the body of the kernel of loop s: its atoms in order, those around
\* the inner loop guarded.
Shaped(s, B, p, q) ==
  /\ s.pre \in Seq(Atoms) /\ s.post \in Seq(Atoms) /\ InnerBody(s) \in Seq(Atoms)
  /\ p = SetLen[s.set] /\ q = (IF s.inner = <<>> THEN 1 ELSE SetLen[s.inner[1].set])
  /\ Len(B) = Len(s.pre) + Len(InnerBody(s)) + Len(s.post)
  /\ \A j \in 1..Len(s.pre) : SameRun(s.pre[j], B[j]) /\ (B[j].once \/ q = 1)
  /\ \A j \in 1..Len(InnerBody(s)) :
       SameRun(InnerBody(s)[j], B[Len(s.pre) + j]) /\ ~B[Len(s.pre) + j].once
  /\ \A j \in 1..Len(s.post) :
       /\ SameRun(s.post[j], B[Len(s.pre) + Len(InnerBody(s)) + j])
       /\ B[Len(s.pre) + Len(InnerBody(s)) + j].once \/ q = 1

\* The segments of the body, for the threads that run them.
LEMMA ShapedSegments ==
  ASSUME NEW s, NEW B, NEW p \in Nat, NEW q \in Nat, Shaped(s, B, p, q),
         NEW x \in 0..(p - 1), NEW y \in 0..(q - 1)
  PROVE  /\ y = 0 => Segment(s.pre, B, 0, <<x, y>>)
         /\ Segment(InnerBody(s), B, Len(s.pre), <<x, y>>)
         /\ y = 0 => Segment(s.post, B, Len(s.pre) + Len(InnerBody(s)), <<x, y>>)
<1>1. PICK i \in Nat, j \in Nat, k \in Nat : i = Len(s.pre) /\ j = Len(InnerBody(s)) /\ k = Len(s.post)
  BY SeqParts, Zenon DEF Shaped
<1>2. Len(B) = i + j + k
  BY <1>1, Zenon DEF Shaped
<1>3. <<x, y>>[2] = y
  OBVIOUS
<1>4. ASSUME y = 0 PROVE Segment(s.pre, B, 0, <<x, y>>)
  <2>1. ASSUME NEW e \in 1..i
        PROVE  0 + e \in 1..Len(B) /\ SameRun(s.pre[e], B[0 + e]) /\ Executes(B[0 + e], <<x, y>>)
    <3>1. 0 + e = e /\ e \in 1..Len(B)
      BY <1>2
    <3>2. SameRun(s.pre[e], B[e])
      BY <1>1, Zenon DEF Shaped
    <3> QED
      BY <1>3, <1>4, <3>1, <3>2, Zenon DEF Executes
  <2> QED
    BY <1>1, <2>1, Zenon DEF Segment
<1>5. Segment(InnerBody(s), B, Len(s.pre), <<x, y>>)
  <2>1. ASSUME NEW e \in 1..j
        PROVE  i + e \in 1..Len(B) /\ SameRun(InnerBody(s)[e], B[i + e]) /\ Executes(B[i + e], <<x, y>>)
    <3>1. i + e \in 1..Len(B)
      BY <1>2
    <3>2. SameRun(InnerBody(s)[e], B[i + e]) /\ ~B[i + e].once
      BY <1>1, Zenon DEF Shaped
    <3> QED
      BY <3>1, <3>2, Zenon DEF Executes
  <2> QED
    BY <1>1, <2>1, Zenon DEF Segment
<1>6. ASSUME y = 0 PROVE Segment(s.post, B, Len(s.pre) + Len(InnerBody(s)), <<x, y>>)
  <2>1. ASSUME NEW e \in 1..k
        PROVE  i + j + e \in 1..Len(B) /\ SameRun(s.post[e], B[i + j + e]) /\ Executes(B[i + j + e], <<x, y>>)
    <3>1. i + j + e \in 1..Len(B)
      BY <1>2
    <3>2. SameRun(s.post[e], B[i + j + e])
      BY <1>1, Zenon DEF Shaped
    <3> QED
      BY <1>3, <1>6, <3>1, <3>2, Zenon DEF Executes
  <2> QED
    BY <1>1, <2>1, Zenon DEF Segment
<1> QED
  BY <1>4, <1>5, <1>6, Zenon

\* The threads of a row beyond the first pass over the guarded atoms.
LEMMA ShapedSkips ==
  ASSUME NEW m \in Mems, NEW s, NEW B, NEW p \in Nat, NEW q \in Nat, Shaped(s, B, p, q), Fine(B, p, q),
         NEW x \in 0..(p - 1), NEW y \in 0..(q - 1), y # 0
  PROVE  /\ Alone(m, B, <<x, y>>)[Len(s.pre)] = Alone(m, B, <<x, y>>)[0]
         /\ Alone(m, B, <<x, y>>)[Len(B)] = Alone(m, B, <<x, y>>)[Len(s.pre) + Len(InnerBody(s))]
<1>1. PICK i \in Nat, j \in Nat, k \in Nat : i = Len(s.pre) /\ j = Len(InnerBody(s)) /\ k = Len(s.post)
  BY SeqParts, Zenon DEF Shaped
<1>2. Len(B) = i + j + k
  BY <1>1, Zenon DEF Shaped
<1>3. PICK t \in Threads(p, q) : t = <<x, y>>
  BY DEF Threads
<1>4. t[2] = y /\ q # 1
  BY <1>3
<1>5. B \in Seq(Atoms) /\ Safe(B, t)
  BY Zenon DEF Fine, AllSafe
<1>6. Alone(m, B, t)[i] = Alone(m, B, t)[0]
  <2>1. ASSUME NEW e \in 0..(i - 1) PROVE ~Executes(B[0 + e + 1], t)
    <3>1. e + 1 \in 1..i /\ 0 + e + 1 = e + 1
      OBVIOUS
    <3>2. B[e + 1].once
      BY <1>1, <1>4, <3>1, Zenon DEF Shaped
    <3> QED
      BY <1>4, <3>1, <3>2, Zenon DEF Executes
  <2>2. 0 \in 0..Len(B) /\ i \in 0..Len(B) /\ i = 0 + i
    BY <1>2
  <2>3. Skipped(B, 0, i, i, t)
    BY <2>1, <2>2, Zenon DEF Skipped
  <2> QED
    BY <1>5, <2>2, <2>3, AloneSkips
<1>7. Alone(m, B, t)[Len(B)] = Alone(m, B, t)[i + j]
  <2>1. ASSUME NEW e \in 0..(k - 1) PROVE ~Executes(B[(i + j) + e + 1], t)
    <3>1. e + 1 \in 1..k /\ (i + j) + e + 1 = i + j + (e + 1)
      OBVIOUS
    <3>2. B[i + j + (e + 1)].once
      BY <1>1, <1>4, <3>1, Zenon DEF Shaped
    <3> QED
      BY <1>4, <3>1, <3>2, Zenon DEF Executes
  <2>2. i + j \in 0..Len(B) /\ Len(B) \in 0..Len(B) /\ Len(B) = (i + j) + k
    BY <1>2
  <2>3. Skipped(B, i + j, k, Len(B), t)
    BY <2>1, <2>2, Zenon DEF Skipped
  <2> QED
    BY <1>5, <2>2, <2>3, AloneSkips
<1> QED
  BY <1>1, <1>3, <1>6, <1>7, Zenon

\* The threads of a row before y are at a, the others at b.
RowOf(q, y, a, b) == [z \in 0..(q - 1) |-> IF z < y THEN a ELSE b]

\* Thread y of row x runs atoms behind b.
LEMMA RowStep ==
  ASSUME NEW m \in Mems, NEW B, NEW p \in Nat, NEW q \in Nat, Fine(B, p, q),
         NEW x \in 0..(p - 1), NEW y \in 0..(q - 1), NEW as \in Seq(Atoms),
         NEW a \in 0..Len(B), NEW b \in 0..Len(B), a = b + Len(as), Segment(as, B, b, <<x, y>>)
  PROVE  RowGoes(m, B, p, q, x, y, as, RowOf(q, y, a, b), RowOf(q, y + 1, a, b))
<1>1. PICK L : L = Len(B)
  OBVIOUS
<1>2. PICK f, h : f = RowOf(q, y, a, b) /\ h = RowOf(q, y + 1, a, b)
  OBVIOUS
<1>3. f \in Rows(B, q) /\ h \in Rows(B, q)
  <2>1. f \in [0..(q - 1) -> 0..L] /\ h \in [0..(q - 1) -> 0..L]
    BY <1>1, <1>2 DEF RowOf
  <2> QED
    BY <1>1, <2>1, Zenon DEF Rows
<1>4. f[y] = b /\ h[y] = a
  BY <1>2 DEF RowOf
<1>5. ASSUME NEW z \in 0..(q - 1), z # y PROVE h[z] = f[z]
  <2>1. z < y + 1 <=> z < y
    BY <1>5
  <2> QED
    BY <1>2, <2>1 DEF RowOf
<1>6. RowMoved(f, h, q, y, Len(as))
  BY <1>4, <1>5, Zenon DEF RowMoved
<1>7. RowGoes(m, B, p, q, x, y, as, f, h)
  <2>1. Segment(as, B, f[y], <<x, y>>)
    BY <1>4, Zenon
  <2> QED
    BY <1>3, <1>6, <2>1, RowRun, Zenon
<1> QED
  BY <1>2, <1>7, Zenon

\* Rows all of whose threads are at the same place.
LEMMA RowFull ==
  ASSUME NEW q \in Nat, NEW a, NEW b, NEW c
  PROVE  RowOf(q, q, a, b) = RowOf(q, 0, c, a)
<1>1. ASSUME NEW z \in 0..(q - 1) PROVE (IF z < q THEN a ELSE b) = (IF z < 0 THEN c ELSE a)
  <2>1. z < q /\ ~(z < 0)
    OBVIOUS
  <2> QED
    BY <2>1, Zenon
<1> QED
  BY <1>1, Zenon DEF RowOf

\* What an iteration of the loop does to the memory.
LEMMA IterationMix ==
  ASSUME NEW m \in Mems, NEW s, NEW B, NEW p \in Nat, NEW q \in Nat \ {0}, Shaped(s, B, p, q),
         Fine(B, p, q), NEW x \in 0..(p - 1), NEW e
  PROVE  RunIteration(AtRow(m, B, p, q, x, RowOf(q, 0, e, 0)), s, x)
           = AtRow(m, B, p, q, x, RowOf(q, 0, e, Len(B)))
<1>0. q \in Nat
  OBVIOUS
<1>1. PICK i \in Nat, j \in Nat, k \in Nat : i = Len(s.pre) /\ j = Len(InnerBody(s)) /\ k = Len(s.post)
  BY SeqParts, ZenonT(60) DEF Shaped
<1>01. PICK L \in Nat : L = i + j + k
  OBVIOUS
<1>2. Len(B) = L /\ s.pre \in Seq(Atoms) /\ s.post \in Seq(Atoms) /\ InnerBody(s) \in Seq(Atoms)
  BY <1>1, <1>01, Zenon DEF Shaped
<1>3. 0 \in 0..L /\ i \in 0..L /\ i + j \in 0..L /\ L \in 0..L /\ i = 0 + i
      /\ 0 \in 0..(q - 1) /\ 0 + 1 = 1 /\ L = (i + j) + k
  BY <1>01
<1>4. Segment(s.pre, B, 0, <<x, 0>>) /\ Segment(s.post, B, i + j, <<x, 0>>)
  BY <1>0, <1>1, <1>3, ShapedSegments, Zenon
<1>5. RowOf(q, 0, e, 0) = RowOf(q, 0, i, 0)
  BY DEF RowOf
<1> DEFINE M(f) == AtRow(m, B, p, q, x, f)
<1>6. RunAtoms(M(RowOf(q, 0, i, 0)), s.pre, <<x, 0>>) = M(RowOf(q, 1, i, 0))
  <2>1. i \in 0..Len(B) /\ 0 \in 0..Len(B) /\ i = 0 + Len(s.pre)
    BY <1>1, <1>2, <1>3, Zenon
  <2>2. RowGoes(m, B, p, q, x, 0, s.pre, RowOf(q, 0, i, 0), RowOf(q, 0 + 1, i, 0))
    BY <1>0, <1>2, <1>3, <1>4, <2>1, RowStep, Zenon
  <2> QED
    BY <1>3, <2>2, Zenon DEF RowGoes
<1>7. M(RowOf(q, 1, i, 0)) = M(RowOf(q, 0, i + j, i))
  <2>1. PICK f, h : f = RowOf(q, 1, i, 0) /\ h = RowOf(q, 0, i + j, i)
    OBVIOUS
  <2>2. ASSUME NEW y \in 0..(q - 1)
        PROVE  Alone(m, B, <<x, y>>)[f[y]] = Alone(m, B, <<x, y>>)[h[y]]
    <3>1. h[y] = i /\ f[y] = IF y = 0 THEN i ELSE 0
      BY <2>1 DEF RowOf
    <3>2. CASE y = 0
      BY <3>1, <3>2, Zenon
    <3>3. CASE y # 0
      <4>1. Alone(m, B, <<x, y>>)[i] = Alone(m, B, <<x, y>>)[0]
        BY <1>1, <3>3, ShapedSkips, <1>0
      <4> QED
        BY <3>1, <3>3, <4>1, Zenon
    <3> QED
      BY <3>2, <3>3, Zenon
  <2>3. RowSame(m, B, q, x, f, h)
    BY <2>2, Zenon DEF RowSame
  <2>4. AtRow(m, B, p, q, x, f) = AtRow(m, B, p, q, x, h)
    BY <1>0, <2>3, RowSkip
  <2> QED
    BY <2>1, <2>4, Zenon
<1>8. PICK b, r : b = RunAtoms(M(RowOf(q, 0, e, 0)), s.pre, <<x, 0>>)
                  /\ r = (IF s.inner = <<>> THEN b ELSE RunInner(b, s.inner[1], x))
  OBVIOUS
<1>9. b = M(RowOf(q, 0, i + j, i))
  BY <1>5, <1>6, <1>7, <1>8, Zenon
<1>10. r = M(RowOf(q, q, i + j, i))
  <2>1. CASE s.inner = <<>>
    <3>1. InnerBody(s) = <<>>
      BY <2>1, Zenon DEF InnerBody
    <3>2. j = 0
      BY <1>1, <3>1
    <3>3. i + j = i
      BY <3>2
    <3>4. RowOf(q, q, i, i) = RowOf(q, 0, i, i)
      BY <1>0, RowFull, Zenon
    <3>5. r = b
      BY <1>8, <2>1, Zenon
    <3> QED
      BY <1>9, <3>3, <3>4, <3>5, Zenon
  <2>2. CASE s.inner # <<>>
    <3>1. PICK l : l = s.inner[1]
      OBVIOUS
    <3>2. l.body = InnerBody(s) /\ q = SetLen[l.set] /\ r = RunInner(b, l, x)
      BY <1>8, <2>2, <3>1, Zenon DEF InnerBody, Shaped
    <3>3. ASSUME NEW y \in 0..(q - 1)
          PROVE  Segment(l.body, B, i, <<x, y>>)
      BY <1>1, <3>2, ShapedSegments, Zenon
    <3>4. InnerRunSteps(l, x)
      <4>1. ASSUME NEW acc \in Mems, NEW y \in 1..q PROVE RunAtoms(acc, l.body, <<x, y - 1>>) \in Mems
        <5>1. PICK z \in 0..(q - 1) : z = y - 1
          OBVIOUS
        <5>2. <<x, z>> \in Threads(p, q)
          BY DEF Threads
        <5>3. RunAtoms(acc, l.body, <<x, z>>) \in Mems
          BY <1>2, <3>2, <3>3, <5>2, SegmentType, Zenon
        <5> QED
          BY <5>1, <5>3, Zenon
      <4> QED
        BY <3>2, <4>1, Zenon DEF InnerRunSteps
    <3>5. b \in Mems
      <4>1. RowOf(q, 0, i + j, i) \in Rows(B, q)
        <5>1. RowOf(q, 0, i + j, i) \in [0..(q - 1) -> 0..L]
          BY <1>3 DEF RowOf
        <5> QED
          BY <1>2, <5>1, Zenon DEF Rows
      <4>2. x \in Nat /\ q \in Nat
        OBVIOUS
      <4>3. B \in Seq(Atoms) /\ AllSafe(B, p, q)
        BY Zenon DEF Fine
      <4>4. Pos(B, p, q, x, RowOf(q, 0, i + j, i)) \in Positions(B, p, q)
        BY <4>1, <4>2, <4>3, PosType, Zenon
      <4> QED
        BY <1>9, <4>2, <4>3, <4>4, MixType, Zenon DEF AtRow
    <3>6. PICK g : InnerRun(g, b, l, x)
      <4>1. SetLen[l.set] \in Nat
        BY <3>2, Zenon
      <4> QED
        BY <3>4, <3>5, <4>1, InnerRunIs, Zenon
    <3>7. g[0] = b /\ g[q] = r /\ \A y \in 0..(q - 1) : g[y + 1] = RunAtoms(g[y], l.body, <<x, (y + 1) - 1>>)
      BY <3>2, <3>6, Zenon DEF InnerRun
    <3> DEFINE S == {y \in 0..q : g[y] = M(RowOf(q, y, i + j, i))}
    <3>8. 0 \in S
      <4>1. 0 \in 0..q
        OBVIOUS
      <4> QED
        BY <1>9, <3>7, <4>1, Zenon
    <3>9. ASSUME NEW y \in 0..(q - 1), y \in S PROVE y + 1 \in S
      <4>1. (y + 1) - 1 = y /\ y + 1 \in 0..q
        OBVIOUS
      <4>2. g[y] = M(RowOf(q, y, i + j, i)) /\ g[y + 1] = RunAtoms(g[y], l.body, <<x, y>>)
        BY <3>7, <3>9, <4>1, Zenon
      <4>3. i + j \in 0..Len(B) /\ i \in 0..Len(B) /\ i + j = i + Len(l.body) /\ q \in Nat
        BY <1>1, <1>2, <1>3, <3>2, Zenon
      <4>4. RowGoes(m, B, p, q, x, y, l.body, RowOf(q, y, i + j, i), RowOf(q, y + 1, i + j, i))
        BY <1>2, <3>2, <3>3, <4>3, RowStep, Zenon
      <4>5. g[y + 1] = M(RowOf(q, y + 1, i + j, i))
        BY <4>2, <4>4, Zenon DEF RowGoes
      <4> HIDE DEF M
      <4> QED
        BY <4>1, <4>5, Zenon
    <3>10. q \in S
      <4> HIDE DEF S
      <4>1. q \in Nat /\ q \in 0..q
        OBVIOUS
      <4> QED
        BY <3>8, <3>9, <4>1, InductionUpTo, Zenon
    <3>11. g[q] = M(RowOf(q, q, i + j, i))
      BY <3>10, Zenon
    <3> QED
      BY <3>7, <3>11, Zenon
  <2> QED
    BY <2>1, <2>2, Zenon
<1>11. RowOf(q, q, i + j, i) = RowOf(q, 0, L, i + j)
  BY <1>0, RowFull, ZenonT(60)
<1>12. RunAtoms(M(RowOf(q, 0, L, i + j)), s.post, <<x, 0>>) = M(RowOf(q, 1, L, i + j))
  <2>1. L \in 0..Len(B) /\ i + j \in 0..Len(B) /\ L = i + j + Len(s.post)
    BY <1>1, <1>2, <1>3, Zenon
  <2>2. RowGoes(m, B, p, q, x, 0, s.post, RowOf(q, 0, L, i + j), RowOf(q, 0 + 1, L, i + j))
    BY <1>0, <1>2, <1>3, <1>4, <2>1, RowStep, Zenon
  <2> QED
    BY <1>3, <2>2, Zenon DEF RowGoes
<1>13. M(RowOf(q, 1, L, i + j)) = M(RowOf(q, 0, e, L))
  <2>1. PICK f, h : f = RowOf(q, 1, L, i + j) /\ h = RowOf(q, 0, e, L)
    OBVIOUS
  <2>2. ASSUME NEW y \in 0..(q - 1)
        PROVE  Alone(m, B, <<x, y>>)[f[y]] = Alone(m, B, <<x, y>>)[h[y]]
    <3>1. h[y] = L /\ f[y] = IF y = 0 THEN L ELSE i + j
      BY <2>1 DEF RowOf
    <3>2. CASE y = 0
      BY <3>1, <3>2, Zenon
    <3>3. CASE y # 0
      <4>1. Alone(m, B, <<x, y>>)[L] = Alone(m, B, <<x, y>>)[i + j]
        BY <1>1, <1>2, <3>3, ShapedSkips, <1>0
      <4> QED
        BY <3>1, <3>3, <4>1, Zenon
    <3> QED
      BY <3>2, <3>3, Zenon
  <2>3. RowSame(m, B, q, x, f, h)
    BY <2>2, Zenon DEF RowSame
  <2>4. AtRow(m, B, p, q, x, f) = AtRow(m, B, p, q, x, h)
    BY <1>0, <2>3, RowSkip
  <2> QED
    BY <2>1, <2>4, Zenon
<1>14. RunIteration(M(RowOf(q, 0, e, 0)), s, x) = RunAtoms(r, s.post, <<x, 0>>)
  BY <1>8, Zenon DEF RunIteration
<1> QED
  BY <1>2, <1>10, <1>11, <1>12, <1>13, <1>14, Zenon

\* An iteration leaves a memory.
LEMMA IterationType ==
  ASSUME NEW m \in Mems, NEW s, NEW B, NEW p \in Nat, NEW q \in Nat \ {0}, Shaped(s, B, p, q),
         Fine(B, p, q), NEW x \in 0..(p - 1)
  PROVE  RunIteration(m, s, x) \in Mems
<1>0. q \in Nat /\ 0 \in 0..(q - 1)
  OBVIOUS
<1>1. s.pre \in Seq(Atoms) /\ s.post \in Seq(Atoms) /\ InnerBody(s) \in Seq(Atoms)
  BY Zenon DEF Shaped
<1>2. \A y \in 0..(q - 1) : <<x, y>> \in Threads(p, q)
  BY DEF Threads
<1>3. PICK b : b = RunAtoms(m, s.pre, <<x, 0>>)
  OBVIOUS
<1>4. b \in Mems
  <2>1. Segment(s.pre, B, 0, <<x, 0>>)
    BY <1>0, ShapedSegments, Zenon
  <2> QED
    BY <1>0, <1>1, <1>2, <1>3, <2>1, SegmentType, Zenon
<1>5. PICK r : r = (IF s.inner = <<>> THEN b ELSE RunInner(b, s.inner[1], x))
  OBVIOUS
<1>6. r \in Mems
  <2>1. CASE s.inner = <<>>
    BY <1>4, <1>5, <2>1, Zenon
  <2>2. CASE s.inner # <<>>
    <3>1. PICK l : l = s.inner[1]
      OBVIOUS
    <3>2. l.body = InnerBody(s) /\ q = SetLen[l.set] /\ r = RunInner(b, l, x)
      BY <1>5, <2>2, <3>1, Zenon DEF InnerBody, Shaped
    <3>3. ASSUME NEW acc \in Mems, NEW y \in 1..q PROVE RunAtoms(acc, l.body, <<x, y - 1>>) \in Mems
      <4>1. PICK z \in 0..(q - 1) : z = y - 1
        OBVIOUS
      <4>2. Segment(l.body, B, Len(s.pre), <<x, z>>)
        BY <1>0, <3>2, ShapedSegments, Zenon
      <4>3. RunAtoms(acc, l.body, <<x, z>>) \in Mems
        BY <1>0, <1>1, <1>2, <3>2, <4>2, SegmentType, Zenon
      <4> QED
        BY <4>1, <4>3, Zenon
    <3>4. InnerRunSteps(l, x) /\ SetLen[l.set] \in Nat
      BY <1>0, <3>2, <3>3, Zenon DEF InnerRunSteps
    <3>5. PICK g : InnerRun(g, b, l, x)
      BY <1>4, <3>4, InnerRunIs, Zenon
    <3>6. g \in [0..q -> Mems] /\ g[q] = r
      BY <3>2, <3>5, Zenon DEF InnerRun
    <3>7. q \in 0..q
      OBVIOUS
    <3> QED
      BY <3>6, <3>7
  <2> QED
    BY <2>1, <2>2, Zenon
<1>7. Segment(s.post, B, Len(s.pre) + Len(InnerBody(s)), <<x, 0>>)
  BY <1>0, ShapedSegments, Zenon
<1>8. RunAtoms(r, s.post, <<x, 0>>) \in Mems
  BY <1>0, <1>1, <1>2, <1>6, <1>7, SegmentType, Zenon
<1>9. RunIteration(m, s, x) = RunAtoms(r, s.post, <<x, 0>>)
  BY <1>3, <1>5, Zenon DEF RunIteration
<1> QED
  BY <1>8, <1>9, Zenon

\* All threads have ended.
AllDone(B, p, q) == [t \in Threads(p, q) |-> Len(B)]

\* A loop run in order leaves what its threads leave.
LEMMA ForMix ==
  ASSUME NEW m \in Mems, NEW s, NEW B, NEW p \in Nat, NEW q \in Nat \ {0}, Shaped(s, B, p, q),
         Fine(B, p, q)
  PROVE  RunFor(m, s) = Mix(m, B, p, q, AllDone(B, p, q))
<1>0. q \in Nat /\ p = SetLen[s.set] /\ SetLen[s.set] \in Nat
  BY Zenon DEF Shaped
<1>1. ForRunSteps(s)
  <2>1. ASSUME NEW acc \in Mems, NEW i \in 1..p PROVE RunIteration(acc, s, i - 1) \in Mems
    <3>1. PICK x \in 0..(p - 1) : x = i - 1
      OBVIOUS
    <3>2. RunIteration(acc, s, x) \in Mems
      BY IterationType, Zenon
    <3> QED
      BY <3>1, <3>2, Zenon
  <2> QED
    BY <1>0, <2>1, Zenon DEF ForRunSteps
<1>2. PICK g : ForRun(g, m, s)
  BY <1>0, <1>1, ForRunIs, Zenon
<1>3. g[0] = m /\ g[p] = RunFor(m, s) /\ \A x \in 0..(p - 1) : g[x + 1] = RunIteration(g[x], s, (x + 1) - 1)
  BY <1>0, <1>2, Zenon DEF ForRun
<1>4. B \in Seq(Atoms) /\ AllSafe(B, p, q)
  BY Zenon DEF Fine
<1>5. PICK L \in Nat : L = Len(B)
  BY <1>4, SeqParts, Zenon
<1>6. PICK f : f = RowOf(q, 0, 0, 0)
  OBVIOUS
<1>7. f \in Rows(B, q)
  <2>1. f \in [0..(q - 1) -> 0..L]
    BY <1>6 DEF RowOf
  <2> QED
    BY <1>5, <2>1, Zenon DEF Rows
<1> DEFINE S == {x \in 0..p : g[x] = AtRow(m, B, p, q, x, f)}
<1>8. 0 \in S
  <2>1. 0 \in 0..p /\ 0 \in Nat
    OBVIOUS
  <2>2. PICK pos \in Positions(B, p, q) : pos = Pos(B, p, q, 0, f)
    BY <1>0, <1>4, <1>7, <2>1, PosType, Zenon
  <2>3. ASSUME NEW t \in Threads(p, q) PROVE pos[t] = 0
    <3>1. t[1] \in 0..(p - 1) /\ t[2] \in 0..(q - 1)
      BY DEF Threads
    <3>2. ~(t[1] < 0) /\ f[t[2]] = 0
      BY <1>6, <3>1 DEF RowOf
    <3> QED
      BY <2>2, <3>2 DEF Pos
  <2>4. Mix(m, B, p, q, pos) = m
    BY <1>0, <1>4, <2>3, MixStart
  <2> QED
    BY <1>3, <2>1, <2>2, <2>4, Zenon DEF AtRow
<1>9. ASSUME NEW x \in 0..(p - 1), x \in S PROVE x + 1 \in S
  <2>1. (x + 1) - 1 = x /\ x + 1 \in 0..p
    OBVIOUS
  <2>2. g[x] = AtRow(m, B, p, q, x, f) /\ g[x + 1] = RunIteration(g[x], s, x)
    BY <1>3, <1>9, <2>1, Zenon
  <2>3. PICK h : h = RowOf(q, 0, 0, Len(B))
    OBVIOUS
  <2>4. RunIteration(AtRow(m, B, p, q, x, f), s, x) = AtRow(m, B, p, q, x, h)
    <3>1. RunIteration(AtRow(m, B, p, q, x, RowOf(q, 0, 0, 0)), s, x)
            = AtRow(m, B, p, q, x, RowOf(q, 0, 0, Len(B)))
      BY IterationMix
    <3> QED
      BY <1>6, <2>3, <3>1, Zenon
  <2>5. Pos(B, p, q, x, h) = Pos(B, p, q, x + 1, f)
    <3>1. ASSUME NEW t \in Threads(p, q)
          PROVE  (IF t[1] < x THEN L ELSE IF t[1] = x THEN h[t[2]] ELSE 0)
                   = (IF t[1] < x + 1 THEN L ELSE IF t[1] = x + 1 THEN f[t[2]] ELSE 0)
      <4>1. t[1] \in 0..(p - 1) /\ t[2] \in 0..(q - 1)
        BY DEF Threads
      <4>2. h[t[2]] = L /\ f[t[2]] = 0
        BY <1>5, <1>6, <2>3, <4>1 DEF RowOf
      <4> QED
        BY <4>1, <4>2
    <3> QED
      BY <1>5, <3>1, Zenon DEF Pos
  <2>6. g[x + 1] = AtRow(m, B, p, q, x + 1, f)
    BY <2>2, <2>4, <2>5, Zenon DEF AtRow
  <2> QED
    BY <2>1, <2>6, Zenon
<1>10. p \in S
  <2> HIDE DEF S
  <2> QED
    BY <1>8, <1>9, InductionUpTo, SelfBound, Zenon
<1>11. Pos(B, p, q, p, f) = AllDone(B, p, q)
  <2>1. ASSUME NEW t \in Threads(p, q)
        PROVE  (IF t[1] < p THEN L ELSE IF t[1] = p THEN f[t[2]] ELSE 0) = L
    <3>1. t[1] \in 0..(p - 1)
      BY DEF Threads
    <3>2. t[1] < p
      BY <3>1
    <3> QED
      BY <3>2, Zenon
  <2> QED
    BY <1>5, <2>1, Zenon DEF Pos, AllDone
<1>12. g[p] = AtRow(m, B, p, q, p, f)
  BY <1>10, Zenon
<1> QED
  BY <1>3, <1>11, <1>12, Zenon DEF AtRow

-------------------------------------------------------------------------------
(* Memory sets.                                                            *)

\* A cell that no thread stores.
LEMMA MixSilent ==
  ASSUME NEW m \in Mems, NEW B \in Seq(Atoms), NEW p \in Nat, NEW q \in Nat, AllSafe(B, p, q),
         NEW pos \in Positions(B, p, q), NEW v \in Vars, NEW c \in 1..VarLen[v],
         \A t \in Threads(p, q) : Silent(B, t, v, c)
  PROVE  Mix(m, B, p, q, pos)[v][c] = m[v][c]
<1>1. m[v][c] \in Cells
  BY MemsAre, CellType, Zenon
<1>2. m[v][c] \in Int /\ m[v][c] % Limit = m[v][c]
  BY <1>1, SmallRemainder, Zenon
<1>3. PICK f : f = Gain(m, B, p, q, pos, v, c)
  OBVIOUS
<1>4. ASSUME NEW t \in Threads(p, q) PROVE f[t] = 0
  <2>1. Safe(B, t) /\ Silent(B, t, v, c) /\ pos[t] \in 0..Len(B)
    BY DEF AllSafe, Positions
  <2>2. Alone(m, B, t)[pos[t]][v][c] = m[v][c]
    BY <2>1, SilentKeeps, ZenonT(60)
  <2>3. f[t] = m[v][c] - m[v][c]
    BY <1>3, <2>2, Zenon DEF Gain
  <2> QED
    BY <1>2, <2>3
<1>5. Sum2(p, q, f) = 0
  BY <1>4, Sum2Zero, Zenon
<1>6. Mix(m, B, p, q, pos)[v][c] = (m[v][c] + Sum2(p, q, Gain(m, B, p, q, pos, v, c))) % Limit
  BY MixCell, ZenonT(60)
<1>7. m[v][c] + 0 = m[v][c]
  BY <1>2
<1> QED
  BY <1>2, <1>3, <1>5, <1>6, <1>7, Zenon

\* The end of all threads is a position.
LEMMA AllDoneType ==
  ASSUME NEW B \in Seq(Atoms), NEW p, NEW q
  PROVE  AllDone(B, p, q) \in Positions(B, p, q)
<1>1. Len(B) \in 0..Len(B)
  BY SeqParts, SelfBound, Zenon
<1> QED
  BY <1>1, Zenon DEF AllDone, Positions

\* The kernel of a memory set: every thread clears its component.
ClearAtom(v) ==
  [dst |-> v, at |-> "x", op |-> "set", k |-> 0, src |-> "none", from |-> "one", once |-> FALSE]

Clears(v) == <<ClearAtom(v)>>

IsClear(B, a, v) ==
  /\ a \in Atoms /\ B \in Seq(Atoms) /\ Len(B) = 1
  /\ \A i \in 1..Len(B) : i = 1 /\ B[i] = a
  /\ \A x, y : Target(a, <<x, y>>) = 1 + x
  /\ a.dst = v /\ a.src = "none" /\ ~a.once /\ a.op = "set" /\ a.at = "x" /\ a.k = 0

\* The fields of the atom of a memory set.
LEMMA ClearParts ==
  ASSUME NEW v \in Vars
  PROVE  IsClear(Clears(v), ClearAtom(v), v)
<1>1. ClearAtom(v) \in Atoms
  BY DEF ClearAtom, Atoms, Places
<1>2. Clears(v) \in Seq(Atoms) /\ Len(Clears(v)) = 1 /\ Clears(v)[1] = ClearAtom(v)
  BY <1>1 DEF Clears
<1>3. \A i \in 1..Len(Clears(v)) : i = 1 /\ Clears(v)[i] = ClearAtom(v)
  BY <1>2
<1>4. \A x, y : Target(ClearAtom(v), <<x, y>>) = 1 + x
  BY DEF Target, Component, ClearAtom
<1>5. PICK a : a = ClearAtom(v)
  OBVIOUS
<1>6. a.dst = v /\ a.src = "none" /\ ~a.once /\ a.op = "set" /\ a.at = "x" /\ a.k = 0
  BY <1>5 DEF ClearAtom
<1> QED
  BY <1>1, <1>2, <1>3, <1>4, <1>5, <1>6, Zenon DEF IsClear

\* The memory set has no races.
LEMMA ClearsFine ==
  ASSUME NEW v \in Vars
  PROVE  Fine(Clears(v), VarLen[v], 1) /\ VarLen[v] \in Nat
<1>1. VarLen[v] \in Nat
  BY LaunchAssumption
<1>2. PICK B : B = Clears(v)
  OBVIOUS
<1>3. PICK a : a = ClearAtom(v)
  OBVIOUS
<1>4. /\ a \in Atoms /\ B \in Seq(Atoms) /\ \A i \in 1..Len(B) : B[i] = a
      /\ \A x, y : Target(a, <<x, y>>) = 1 + x
      /\ a.dst = v /\ a.src = "none" /\ a.at = "x"
  <2>1. IsClear(B, a, v)
    BY <1>2, <1>3, ClearParts, Zenon
  <2> QED
    BY <2>1 DEF IsClear
<1>5. AllSafe(B, VarLen[v], 1)
  <2>1. ASSUME NEW t \in Threads(VarLen[v], 1) PROVE InRange(a, t)
    <3>1. PICK x \in 0..(VarLen[v] - 1), y \in 0..(1 - 1) : t = <<x, y>>
      BY DEF Threads
    <3>2. 1 + x \in 1..VarLen[v]
      BY <1>1
    <3> QED
      BY <1>4, <3>1, <3>2, Zenon DEF InRange
  <2> QED
    BY <1>4, <2>1, Zenon DEF AllSafe, Safe
<1>6. ASSUME NEW w \in Vars PROVE Own(B, 1, w)
  <2>1. a.src # w
    BY <1>4, LaunchAssumption, Zenon
  <2> QED
    BY <1>4, <2>1, Zenon DEF Own, TouchesOwn
<1> QED
  BY <1>1, <1>2, <1>4, <1>5, <1>6, Zenon DEF Fine

\* A memory set leaves what its threads leave.
LEMMA MemsetMix ==
  ASSUME NEW m \in Mems, NEW v \in Vars
  PROVE  [m EXCEPT ![v] = [i \in DOMAIN @ |-> 0]]
           = Mix(m, Clears(v), VarLen[v], 1, AllDone(Clears(v), VarLen[v], 1))
<1>1. PICK B, p, a : B = Clears(v) /\ p = VarLen[v] /\ a = ClearAtom(v)
  OBVIOUS
<1>2. Fine(B, p, 1) /\ p \in Nat /\ B \in Seq(Atoms) /\ AllSafe(B, p, 1)
  BY <1>1, ClearsFine, Zenon DEF Fine
<1>3. /\ a \in Atoms /\ Len(B) = 1 /\ \A i \in 1..Len(B) : i = 1 /\ B[i] = a
      /\ \A x, y : Target(a, <<x, y>>) = 1 + x
      /\ a.dst = v /\ a.src = "none" /\ a.at = "x" /\ ~a.once /\ a.op = "set" /\ a.k = 0
  <2>1. IsClear(B, a, v)
    BY <1>1, ClearParts, Zenon
  <2> QED
    BY <2>1 DEF IsClear
<1>4. PICK pos \in Positions(B, p, 1) : pos = AllDone(B, p, 1)
  BY <1>2, AllDoneType, Zenon
<1>5. PICK n \in Mems : n = Mix(m, B, p, 1, pos)
  BY <1>2, MixType
<1>6. ASSUME NEW t \in Threads(p, 1), NEW w \in Vars, NEW d, ~(w = v /\ d = 1 + t[1])
      PROVE  Silent(B, t, w, d)
  <2>1. Target(a, t) = 1 + t[1]
    BY <1>3 DEF Target, Component
  <2> QED
    BY <1>3, <1>6, <2>1, Zenon DEF Silent
<1>7. ASSUME NEW w \in Vars, NEW d \in 1..VarLen[w], w # v PROVE n[w][d] = m[w][d]
  <2>1. \A t \in Threads(p, 1) : Silent(B, t, w, d)
    BY <1>6, <1>7, Zenon
  <2> QED
    BY <1>2, <1>5, <2>1, MixSilent
<1>8. ASSUME NEW d \in 1..VarLen[v] PROVE n[v][d] = 0
  <2>1. PICK x \in 0..(p - 1) : d = 1 + x
    <3>1. d - 1 \in 0..(p - 1) /\ d = 1 + (d - 1)
      BY <1>1, <1>2
    <3> QED
      BY <3>1
  <2>2. PICK t \in Threads(p, 1) : t = <<x, 0>>
    <3>1. 0 \in 0..(1 - 1)
      OBVIOUS
    <3>2. <<x, 0>> \in Threads(p, 1)
      BY <3>1 DEF Threads
    <3> QED
      BY <3>2
  <2>3. ASSUME NEW s \in Threads(p, 1), s # t PROVE Silent(B, s, v, d)
    <3>1. PICK u \in 0..(p - 1), y \in 0..(1 - 1) : s = <<u, y>>
      BY DEF Threads
    <3>2. u # x
      BY <2>2, <2>3, <3>1
    <3>3. d # 1 + s[1]
      BY <2>1, <3>1, <3>2
    <3> QED
      BY <1>6, <3>3, Zenon
  <2>4. Sole(B, p, 1, t, v, d)
    BY <2>3, Zenon DEF Sole
  <2>5. n[v][d] = Alone(m, B, t)[pos[t]][v][d]
    BY <1>2, <1>5, <2>4, MixOwn
  <2>6. pos[t] = 1
    BY <1>3, <1>4, Zenon DEF AllDone
  <2>7. Alone(m, B, t)[1] = RunAtom(m, a, t)
    <3>1. /\ Alone(m, B, t)[0] = m
          /\ \A i \in 0..(Len(B) - 1) : Alone(m, B, t)[i + 1] = AloneStep(Alone(m, B, t)[i], B[i + 1], t)
      <4>1. Safe(B, t)
        BY <1>2, Zenon DEF AllSafe
      <4> QED
        BY <1>2, <4>1, AloneParts, ZenonT(60)
    <3>2. 0 \in 0..(Len(B) - 1) /\ 0 + 1 = 1 /\ 1 \in 1..Len(B)
      BY <1>3
    <3>3. Alone(m, B, t)[1] = AloneStep(m, a, t)
      BY <1>3, <3>1, <3>2, Zenon
    <3> QED
      BY <1>3, <3>3, Zenon DEF AloneStep, Executes
  <2>8. InRange(a, t)
    <3>1. 1 \in 1..Len(B)
      BY <1>3
    <3> QED
      BY <1>2, <1>3, <3>1, Zenon DEF AllSafe, Safe, Executes
  <2>9. OnlyAt(RunAtom(m, a, t), m, a.dst, Target(a, t), NewCell(m, a, t, OperandOf(m, a, t)))
    BY <1>3, <2>8, AloneRuns, Zenon
  <2>10. Target(a, t) = d
    BY <1>3, <2>1, <2>2, Zenon
  <2>11. NewCell(m, a, t, OperandOf(m, a, t)) = 0
    <3>1. Value(m, a, t) = (a.k + 0) % Limit
      BY <1>3, Zenon DEF Value
    <3>2. a.k = 0
      BY <1>3, Zenon
    <3>3. Value(m, a, t) = 0
      BY <3>1, <3>2, LaunchAssumption
    <3>4. a.op # "self" /\ a.op # "add"
      BY <1>3
    <3> QED
      BY <3>3, <3>4, Zenon DEF NewCell, OperandOf
  <2> QED
    <3>1. PICK r : r = RunAtom(m, a, t)
      OBVIOUS
    <3>2. OnlyAt(r, m, v, d, 0)
      BY <1>3, <2>9, <2>10, <2>11, <3>1, Zenon
    <3>3. r[v][d] = 0
      BY <3>2, Zenon DEF OnlyAt
    <3> QED
      BY <2>5, <2>6, <2>7, <3>1, <3>3, Zenon
<1>9. PICK o, e : e = [i \in DOMAIN m[v] |-> 0] /\ o = [m EXCEPT ![v] = e]
  OBVIOUS
<1>10. m = [w \in Vars |-> m[w]] /\ m[v] \in [1..VarLen[v] -> Cells]
  BY MemsAre, Zenon DEF IsMem
<1>11. e = [i \in 1..VarLen[v] |-> 0] /\ DOMAIN m[v] = 1..VarLen[v]
  BY <1>9, <1>10
<1>12. 0 \in Cells
  BY LaunchAssumption DEF Cells
<1>13. e \in [1..VarLen[v] -> Cells] /\ \A d \in 1..VarLen[v] : e[d] = 0
  BY <1>11, <1>12
<1>14. o = [w \in Vars |-> o[w]] /\ o[v] = e /\ \A w \in Vars : w # v => o[w] = m[w]
  BY <1>9, <1>10
<1>15. IsMem(o)
  <2>1. ASSUME NEW w \in Vars PROVE o[w] \in [1..VarLen[w] -> Cells]
    <3>1. m[w] \in [1..VarLen[w] -> Cells]
      BY MemsAre, Zenon DEF IsMem
    <3> QED
      BY <1>13, <1>14, <3>1, Zenon
  <2> QED
    BY <1>14, <2>1, Zenon DEF IsMem
<1>16. ASSUME NEW w \in Vars, NEW d \in 1..VarLen[w] PROVE o[w][d] = n[w][d]
  <2>1. CASE w = v
    BY <1>8, <1>13, <1>14, <2>1, Zenon
  <2>2. CASE w # v
    BY <1>7, <1>14, <2>2, Zenon
  <2> QED
    BY <2>1, <2>2, Zenon
<1>17. o = n
  BY <1>15, <1>16, MemsAre, MemEqual, Zenon
<1>18. o = [m EXCEPT ![v] = [i \in DOMAIN @ |-> 0]]
  BY <1>9
<1> QED
  BY <1>1, <1>4, <1>5, <1>17, <1>18, Zenon

-------------------------------------------------------------------------------
(* What a kernel depends on.                                               *)

AgreeOn(V, m, n) == \A v \in V : m[v] = n[v]

\* The atoms name variables of V only.
NamesIn(B, V) == \A i \in 1..Len(B) : B[i].dst \in V /\ (B[i].src = "none" \/ B[i].src \in V)

\* An atom leaves other variables alone.
LEMMA StepKeeps ==
  ASSUME NEW m \in Mems, NEW a \in Atoms, NEW t, Executes(a, t) => InRange(a, t),
         NEW v \in Vars, v # a.dst
  PROVE  AloneStep(m, a, t)[v] = m[v]
<1>1. CASE Executes(a, t)
  <2>1. OnlyAt(RunAtom(m, a, t), m, a.dst, Target(a, t), NewCell(m, a, t, OperandOf(m, a, t)))
    BY <1>1, AloneRuns, Zenon
  <2> QED
    BY <1>1, <2>1, Zenon DEF OnlyAt, AloneStep
<1>2. CASE ~Executes(a, t)
  BY <1>2, Zenon DEF AloneStep
<1> QED
  BY <1>1, <1>2, Zenon

\* What an atom does depends on the variables it names.
LEMMA StepAgree ==
  ASSUME NEW m \in Mems, NEW n \in Mems, NEW a \in Atoms, NEW t, Executes(a, t) => InRange(a, t),
         NEW V, V \subseteq Vars, AgreeOn(V, m, n), a.dst \in V, a.src = "none" \/ a.src \in V
  PROVE  AgreeOn(V, AloneStep(m, a, t), AloneStep(n, a, t))
<1>1. CASE Executes(a, t)
  <2>1. AloneStep(m, a, t) = RunAtom(m, a, t) /\ AloneStep(n, a, t) = RunAtom(n, a, t)
    BY <1>1, Zenon DEF AloneStep
  <2>2. PICK x, y, c, w : /\ x = NewCell(m, a, t, OperandOf(m, a, t)) /\ y = NewCell(n, a, t, OperandOf(n, a, t))
                          /\ c = Target(a, t) /\ w = a.dst
    OBVIOUS
  <2>3. m[w] = n[w]
    BY <2>2, Zenon DEF AgreeOn
  <2>4. Value(m, a, t) = Value(n, a, t)
    <3>1. CASE a.src = "none"
      BY <3>1, Zenon DEF Value
    <3>2. CASE a.src # "none"
      <4>1. m[a.src] = n[a.src]
        BY <3>2, Zenon DEF AgreeOn
      <4> QED
        BY <3>2, <4>1, Zenon DEF Value
    <3> QED
      BY <3>1, <3>2, Zenon
  <2>5. OperandOf(m, a, t) = OperandOf(n, a, t)
    BY <2>2, <2>3, <2>4, Zenon DEF OperandOf
  <2>6. x = y
    BY <2>2, <2>3, <2>5, Zenon DEF NewCell
  <2>7. RunAtom(m, a, t) = Put(m, w, c, x) /\ RunAtom(n, a, t) = Put(n, w, c, x)
    <3>1. RunAtom(m, a, t) = Put(m, w, c, x)
      BY <2>2, RunAtomIs, Zenon
    <3>2. RunAtom(n, a, t) = Put(n, w, c, y)
      BY <2>2, RunAtomIs, Zenon
    <3> QED
      BY <2>6, <3>1, <3>2, Zenon
  <2>8. m = [v \in Vars |-> m[v]] /\ n = [v \in Vars |-> n[v]]
    BY MemsAre, Zenon DEF IsMem
  <2>9. PICK e : e = [m[w] EXCEPT ![c] = x]
    OBVIOUS
  <2>10. Put(m, w, c, x) = [m EXCEPT ![w] = e] /\ Put(n, w, c, x) = [n EXCEPT ![w] = e]
    BY <2>3, <2>9 DEF Put
  <2>11. ASSUME NEW v \in V PROVE RunAtom(m, a, t)[v] = RunAtom(n, a, t)[v]
    <3>1. v \in Vars /\ w \in Vars /\ m[v] = n[v]
      BY <2>2, Zenon DEF AgreeOn
    <3>2. [m EXCEPT ![w] = e][v] = (IF v = w THEN e ELSE m[v]) /\ [n EXCEPT ![w] = e][v] = (IF v = w THEN e ELSE n[v])
      BY <2>8, <3>1
    <3> QED
      BY <2>7, <2>10, <3>1, <3>2, Zenon
  <2> QED
    BY <2>1, <2>11, Zenon DEF AgreeOn
<1>2. CASE ~Executes(a, t)
  BY <1>2, Zenon DEF AloneStep
<1> QED
  BY <1>1, <1>2, Zenon

\* What a thread does depends on the variables its atoms name.
LEMMA AloneAgree ==
  ASSUME NEW m \in Mems, NEW n \in Mems, NEW B \in Seq(Atoms), NEW t, Safe(B, t),
         NEW V, V \subseteq Vars, AgreeOn(V, m, n), NamesIn(B, V)
  PROVE  \A i \in 0..Len(B) : AgreeOn(V, Alone(m, B, t)[i], Alone(n, B, t)[i])
<1>1. PICK g, h : g = Alone(m, B, t) /\ h = Alone(n, B, t)
  OBVIOUS
<1>2. AloneGoes(g, m, B, t) /\ AloneGoes(h, n, B, t) /\ Len(B) \in Nat
  BY <1>1, AloneIs, SeqParts, Zenon
<1> DEFINE S == {i \in 0..Len(B) : AgreeOn(V, g[i], h[i])}
<1>3. 0 \in S
  <2>1. g[0] = m /\ h[0] = n /\ 0 \in 0..Len(B)
    BY <1>2, SelfBound, Zenon DEF AloneGoes
  <2> QED
    BY <2>1, Zenon
<1>4. ASSUME NEW i \in 0..(Len(B) - 1), i \in S PROVE i + 1 \in S
  <2>1. i + 1 \in 1..Len(B) /\ i + 1 \in 0..Len(B) /\ i \in 0..Len(B)
    BY <1>2
  <2>2. PICK a : a = B[i + 1]
    OBVIOUS
  <2>3. a \in Atoms /\ (Executes(a, t) => InRange(a, t)) /\ a.dst \in V /\ (a.src = "none" \/ a.src \in V)
    BY <2>1, <2>2, SeqParts, Zenon DEF Safe, NamesIn
  <2>4. g[i + 1] = AloneStep(g[i], a, t) /\ h[i + 1] = AloneStep(h[i], a, t)
    BY <1>2, <2>2, Zenon DEF AloneGoes
  <2>5. g[i] \in Mems /\ h[i] \in Mems
    BY <1>2, <2>1 DEF AloneGoes
  <2>6. AgreeOn(V, g[i], h[i])
    BY <1>4, Zenon
  <2>7. AgreeOn(V, g[i + 1], h[i + 1])
    BY <2>3, <2>4, <2>5, <2>6, StepAgree, Zenon
  <2> QED
    BY <2>1, <2>7, Zenon
<1>5. \A i \in 0..Len(B) : i \in S
  <2> HIDE DEF S
  <2> QED
    BY <1>2, <1>3, <1>4, InductionUpTo, Zenon
<1> QED
  BY <1>1, <1>5, Zenon

\* What a kernel does depends on the variables its atoms name.
LEMMA MixAgree ==
  ASSUME NEW m \in Mems, NEW n \in Mems, NEW B \in Seq(Atoms), NEW p, NEW q, AllSafe(B, p, q),
         NEW pos \in Positions(B, p, q),
         NEW V, V \subseteq Vars, AgreeOn(V, m, n), NamesIn(B, V)
  PROVE  AgreeOn(V, Mix(m, B, p, q, pos), Mix(n, B, p, q, pos))
<1> SUFFICES ASSUME NEW v \in V PROVE Mix(m, B, p, q, pos)[v] = Mix(n, B, p, q, pos)[v]
  BY Zenon DEF AgreeOn
<1>1. v \in Vars /\ m[v] = n[v]
  BY Zenon DEF AgreeOn
<1>2. ASSUME NEW t \in Threads(p, q) PROVE Alone(m, B, t)[pos[t]][v] = Alone(n, B, t)[pos[t]][v]
  <2>1. Safe(B, t) /\ pos[t] \in 0..Len(B)
    BY DEF AllSafe, Positions
  <2>2. AgreeOn(V, Alone(m, B, t)[pos[t]], Alone(n, B, t)[pos[t]])
    BY <2>1, AloneAgree, Zenon
  <2> QED
    BY <2>2, Zenon DEF AgreeOn
<1>3. ASSUME NEW c PROVE Gain(m, B, p, q, pos, v, c) = Gain(n, B, p, q, pos, v, c)
  BY <1>1, <1>2, Zenon DEF Gain
<1> QED
  BY <1>1, <1>3, Zenon DEF Mix

\* A kernel leaves variables it does not store alone.
LEMMA MixKeeps ==
  ASSUME NEW m \in Mems, NEW B \in Seq(Atoms), NEW p \in Nat, NEW q \in Nat, AllSafe(B, p, q),
         NEW pos \in Positions(B, p, q), NEW v \in Vars, Unwritten(B, v)
  PROVE  Mix(m, B, p, q, pos)[v] = m[v]
<1>1. PICK n \in Mems : n = Mix(m, B, p, q, pos)
  BY MixType, Zenon
<1>2. ASSUME NEW c \in 1..VarLen[v] PROVE n[v][c] = m[v][c]
  <2>1. \A t \in Threads(p, q) : Silent(B, t, v, c)
    BY Zenon DEF Silent, Unwritten
  <2> QED
    BY <1>1, <2>1, MixSilent
<1>3. n[v] \in [1..VarLen[v] -> Cells] /\ m[v] \in [1..VarLen[v] -> Cells]
  BY MemsAre, Zenon DEF IsMem
<1>4. PICK D, f, g : D = 1..VarLen[v] /\ f = n[v] /\ g = m[v]
  OBVIOUS
<1>5. f \in [D -> Cells] /\ g \in [D -> Cells] /\ \A c \in D : f[c] = g[c]
  BY <1>2, <1>3, <1>4, Zenon
<1>6. f = g
  BY <1>5
<1> QED
  BY <1>1, <1>4, <1>6, Zenon

-------------------------------------------------------------------------------
(* Kernels in one.                                                         *)

\* The parts of a body made of two.
IsConcat(B, C, D) ==
  /\ B \in Seq(Atoms) /\ C \in Seq(Atoms) /\ D \in Seq(Atoms) /\ Len(B) = Len(C) + Len(D)
  /\ \A i \in 1..Len(C) : B[i] = C[i]
  /\ \A i \in 1..Len(D) : B[Len(C) + i] = D[i]

\* A concatenation holds its parts in order.
LEMMA ConcatIs ==
  ASSUME NEW C \in Seq(Atoms), NEW D \in Seq(Atoms)
  PROVE  IsConcat(C \o D, C, D)
<1>1. C \o D \in Seq(Atoms) /\ Len(C \o D) = Len(C) + Len(D)
  BY ConcatProperties
<1>2. \A i \in 1..Len(C) : (C \o D)[i] = C[i]
  OBVIOUS
<1>3. \A i \in 1..Len(D) : (C \o D)[Len(C) + i] = D[i]
  OBVIOUS
<1> QED
  BY <1>1, <1>2, <1>3, Zenon DEF IsConcat

IsIn(b, C) == \E j \in 1..Len(C) : b = C[j]

\* Each atom of a body is in one of its parts.
LEMMA ConcatCases ==
  ASSUME NEW B, NEW C, NEW D, IsConcat(B, C, D), NEW i \in 1..Len(B)
  PROVE  IsIn(B[i], C) \/ IsIn(B[i], D)
<1>1. PICK k \in Nat, l \in Nat : k = Len(C) /\ l = Len(D)
  BY SeqParts, Zenon DEF IsConcat
<1>2. Len(B) = k + l
  BY <1>1, Zenon DEF IsConcat
<1>3. CASE i <= k
  <2>1. i \in 1..k
    BY <1>2, <1>3
  <2> QED
    BY <1>1, <2>1, Zenon DEF IsConcat, IsIn
<1>4. CASE ~(i <= k)
  <2>1. PICK j \in 1..l : i = k + j
    <3>1. i - k \in 1..l /\ i = k + (i - k)
      BY <1>2, <1>4
    <3> QED
      BY <3>1
  <2> QED
    BY <1>1, <2>1, Zenon DEF IsConcat, IsIn
<1> QED
  BY <1>3, <1>4, Zenon

\* A body whose parts stay in range stays in range.
LEMMA ConcatSafe ==
  ASSUME NEW B, NEW C, NEW D, IsConcat(B, C, D), NEW t, Safe(C, t), Safe(D, t)
  PROVE  Safe(B, t)
<1> SUFFICES ASSUME NEW i \in 1..Len(B), Executes(B[i], t) PROVE InRange(B[i], t)
  BY Zenon DEF Safe
<1>1. CASE \E j \in 1..Len(C) : B[i] = C[j]
  BY <1>1, Zenon DEF Safe
<1>2. CASE \E j \in 1..Len(D) : B[i] = D[j]
  BY <1>2, Zenon DEF Safe
<1>3. (\E j \in 1..Len(C) : B[i] = C[j]) \/ (\E j \in 1..Len(D) : B[i] = D[j])
  <2>1. IsIn(B[i], C) \/ IsIn(B[i], D)
    BY ConcatCases, Zenon
  <2> QED
    BY <2>1, Zenon DEF IsIn
<1> QED
  BY <1>1, <1>2, <1>3, Zenon

SameUpTo(n, f, g) == \A i \in 0..n : f[i] = g[i]

\* A thread runs the first part as if it were alone.
LEMMA AloneFirst ==
  ASSUME NEW m \in Mems, NEW B, NEW C, NEW D, IsConcat(B, C, D), NEW t, Safe(C, t), Safe(D, t)
  PROVE  SameUpTo(Len(C), Alone(m, B, t), Alone(m, C, t))
<1>1. PICK k \in Nat, l \in Nat : k = Len(C) /\ l = Len(D)
  BY SeqParts, Zenon DEF IsConcat
<1>2. Len(B) = k + l /\ Safe(B, t) /\ B \in Seq(Atoms) /\ C \in Seq(Atoms)
  BY <1>1, ConcatSafe, Zenon DEF IsConcat
<1>3. PICK g, h : g = Alone(m, B, t) /\ h = Alone(m, C, t)
  OBVIOUS
<1>4. AloneGoes(g, m, B, t) /\ AloneGoes(h, m, C, t)
  BY <1>2, <1>3, AloneIs, Zenon
<1> DEFINE S == {i \in 0..k : g[i] = h[i]}
<1>5. 0 \in S
  <2>1. g[0] = m /\ h[0] = m /\ 0 \in 0..k
    BY <1>4, SelfBound, Zenon DEF AloneGoes
  <2> QED
    BY <2>1, Zenon
<1>6. ASSUME NEW i \in 0..(k - 1), i \in S PROVE i + 1 \in S
  <2>1. i + 1 \in 1..k /\ i + 1 \in 0..k /\ i \in 0..(Len(B) - 1)
    BY <1>2
  <2>2. g[i + 1] = AloneStep(g[i], B[i + 1], t) /\ h[i + 1] = AloneStep(h[i], C[i + 1], t)
    BY <1>1, <1>4, <2>1, Zenon DEF AloneGoes
  <2>3. B[i + 1] = C[i + 1] /\ g[i] = h[i]
    BY <1>1, <1>6, <2>1, Zenon DEF IsConcat
  <2>4. g[i + 1] = h[i + 1]
    BY <2>2, <2>3, Zenon
  <2> QED
    BY <2>1, <2>4, Zenon
<1>7. \A i \in 0..k : i \in S
  <2> HIDE DEF S
  <2> QED
    BY <1>5, <1>6, InductionUpTo, Zenon
<1> QED
  BY <1>1, <1>3, <1>7, Zenon DEF SameUpTo

\* The steps of a thread in the second part.
SecondGoes(g, k, D, t) ==
  \A i \in 0..(Len(D) - 1) : g[k + (i + 1)] = AloneStep(g[k + i], D[i + 1], t) /\ g[k + i] \in Mems

\* A thread runs the second part by the atoms of that part.
LEMMA AloneSecond ==
  ASSUME NEW m \in Mems, NEW B, NEW C, NEW D, IsConcat(B, C, D), NEW t, Safe(C, t), Safe(D, t)
  PROVE  SecondGoes(Alone(m, B, t), Len(C), D, t)
<1>1. PICK k \in Nat, l \in Nat : k = Len(C) /\ l = Len(D)
  BY SeqParts, Zenon DEF IsConcat
<1>2. Len(B) = k + l /\ Safe(B, t) /\ B \in Seq(Atoms)
  BY <1>1, ConcatSafe, Zenon DEF IsConcat
<1>3. PICK g : g = Alone(m, B, t)
  OBVIOUS
<1>4. AloneGoes(g, m, B, t)
  BY <1>2, <1>3, AloneIs, Zenon
<1>5. ASSUME NEW i \in 0..(l - 1)
      PROVE  g[k + (i + 1)] = AloneStep(g[k + i], D[i + 1], t) /\ g[k + i] \in Mems
  <2>1. PICK e \in 0..(Len(B) - 1) : e = k + i /\ e + 1 = k + (i + 1) /\ e \in 0..Len(B) /\ i + 1 \in 1..l
    BY <1>2
  <2>2. g[e + 1] = AloneStep(g[e], B[e + 1], t)
    BY <1>4, <2>1, Zenon DEF AloneGoes
  <2>3. B[k + (i + 1)] = D[i + 1]
    BY <1>1, <2>1, Zenon DEF IsConcat
  <2>4. g[e] \in Mems
    BY <1>4, <2>1 DEF AloneGoes
  <2> QED
    BY <2>1, <2>2, <2>3, <2>4, Zenon
<1> QED
  BY <1>1, <1>3, <1>5, Zenon DEF SecondGoes

\* The second part leaves what it does not store as the first part left it.
LEMMA SecondKeeps ==
  ASSUME NEW m \in Mems, NEW B, NEW C, NEW D, IsConcat(B, C, D), NEW t, Safe(C, t), Safe(D, t),
         NEW v \in Vars, Unwritten(D, v)
  PROVE  Alone(m, B, t)[Len(B)][v] = Alone(m, C, t)[Len(C)][v]
<1>1. PICK k \in Nat, l \in Nat : k = Len(C) /\ l = Len(D)
  BY SeqParts, Zenon DEF IsConcat
<1>2. Len(B) = k + l /\ D \in Seq(Atoms)
  BY <1>1, Zenon DEF IsConcat
<1>0. k + 0 = k
  OBVIOUS
<1>3. PICK g : g = Alone(m, B, t)
  OBVIOUS
<1>4. g[k] = Alone(m, C, t)[k]
  <2>1. SameUpTo(Len(C), Alone(m, B, t), Alone(m, C, t))
    BY AloneFirst, Zenon
  <2> QED
    BY <1>1, <1>3, <2>1, SelfBound, Zenon DEF SameUpTo
<1>5. SecondGoes(g, k, D, t)
  BY <1>1, <1>3, AloneSecond, Zenon
<1> DEFINE S == {i \in 0..l : g[k + i][v] = g[k][v]}
<1>6. 0 \in S
  BY <1>0, SelfBound, Zenon
<1>7. ASSUME NEW i \in 0..(l - 1), i \in S PROVE i + 1 \in S
  <2>1. i + 1 \in 1..l /\ i + 1 \in 0..l
    OBVIOUS
  <2>2. PICK a : a = D[i + 1]
    OBVIOUS
  <2>3. a \in Atoms /\ (Executes(a, t) => InRange(a, t)) /\ v # a.dst
    BY <1>1, <1>2, <2>1, <2>2, SeqParts, Zenon DEF Safe, Unwritten
  <2>4. g[k + (i + 1)] = AloneStep(g[k + i], a, t) /\ g[k + i] \in Mems
    BY <1>1, <1>5, <2>2, Zenon DEF SecondGoes
  <2>5. g[k + (i + 1)][v] = g[k + i][v]
    BY <2>3, <2>4, StepKeeps
  <2> QED
    BY <1>7, <2>1, <2>5, Zenon
<1>8. l \in S
  <2> HIDE DEF S
  <2> QED
    BY <1>6, <1>7, InductionUpTo, SelfBound, Zenon
<1> QED
  BY <1>1, <1>2, <1>3, <1>4, <1>8, Zenon

\* The second part does what it would do alone when the first stored nothing
\* that it names.
LEMMA SecondAgrees ==
  ASSUME NEW m \in Mems, NEW B, NEW C, NEW D, IsConcat(B, C, D), NEW t, Safe(C, t), Safe(D, t),
         NEW V, V \subseteq Vars, NamesIn(D, V), \A v \in V : Unwritten(C, v)
  PROVE  AgreeOn(V, Alone(m, B, t)[Len(B)], Alone(m, D, t)[Len(D)])
<1>1. PICK k \in Nat, l \in Nat : k = Len(C) /\ l = Len(D)
  BY SeqParts, Zenon DEF IsConcat
<1>2. Len(B) = k + l /\ C \in Seq(Atoms) /\ D \in Seq(Atoms)
  BY <1>1, Zenon DEF IsConcat
<1>0. k + 0 = k
  OBVIOUS
<1>3. PICK g, h : g = Alone(m, B, t) /\ h = Alone(m, D, t)
  OBVIOUS
<1>4. AloneGoes(h, m, D, t)
  BY <1>2, <1>3, AloneIs, Zenon
<1>5. SecondGoes(g, k, D, t)
  BY <1>1, <1>3, AloneSecond, Zenon
<1> DEFINE S == {i \in 0..l : AgreeOn(V, g[k + i], h[i])}
<1>6. 0 \in S
  <2>1. g[k] = Alone(m, C, t)[k] /\ k \in 0..Len(C)
    <3>1. SameUpTo(Len(C), Alone(m, B, t), Alone(m, C, t))
      BY AloneFirst, Zenon
    <3> QED
      BY <1>1, <1>3, <3>1, SelfBound, Zenon DEF SameUpTo
  <2>2. ASSUME NEW v \in V PROVE g[k][v] = m[v]
    <3>1. v \in Vars /\ Unwritten(C, v)
      BY Zenon
    <3>2. PICK n : n = Alone(m, C, t)[k]
      OBVIOUS
    <3>3. n \in Mems
      BY <1>2, <2>1, <3>2, AloneParts, Zenon
    <3>4. ASSUME NEW c \in 1..VarLen[v] PROVE n[v][c] = m[v][c]
      <4>1. Silent(C, t, v, c)
        BY <3>1, Zenon DEF Silent, Unwritten
      <4> QED
        BY <1>2, <2>1, <3>1, <3>2, <4>1, SilentKeeps, Zenon
    <3>5. n[v] \in [1..VarLen[v] -> Cells] /\ m[v] \in [1..VarLen[v] -> Cells]
      BY <3>1, <3>3, MemsAre, Zenon DEF IsMem
    <3>6. PICK E, f, e : E = 1..VarLen[v] /\ f = n[v] /\ e = m[v]
      OBVIOUS
    <3>7. f \in [E -> Cells] /\ e \in [E -> Cells] /\ \A c \in E : f[c] = e[c]
      BY <3>4, <3>5, <3>6, Zenon
    <3>8. f = e
      BY <3>7
    <3> QED
      BY <2>1, <3>2, <3>6, <3>8, Zenon
  <2>3. AgreeOn(V, g[k + 0], h[0])
    BY <1>0, <1>4, <2>2, Zenon DEF AgreeOn, AloneGoes
  <2> QED
    BY <2>3, SelfBound, Zenon
<1>7. ASSUME NEW i \in 0..(l - 1), i \in S PROVE i + 1 \in S
  <2>1. i + 1 \in 1..l /\ i + 1 \in 0..l /\ i \in 0..l
    OBVIOUS
  <2>2. PICK a : a = D[i + 1]
    OBVIOUS
  <2>3. a \in Atoms /\ (Executes(a, t) => InRange(a, t)) /\ a.dst \in V /\ (a.src = "none" \/ a.src \in V)
    BY <1>1, <1>2, <2>1, <2>2, SeqParts, Zenon DEF Safe, NamesIn
  <2>4. g[k + (i + 1)] = AloneStep(g[k + i], a, t) /\ g[k + i] \in Mems
    BY <1>1, <1>5, <2>2, Zenon DEF SecondGoes
  <2>5. h[i + 1] = AloneStep(h[i], a, t)
    BY <1>1, <1>4, <2>2, Zenon DEF AloneGoes
  <2>6. h[i] \in Mems
    <3>1. i \in 0..Len(D)
      BY <1>1, <2>1, Zenon
    <3> QED
      BY <1>4, <3>1 DEF AloneGoes
  <2>7. AgreeOn(V, g[k + i], h[i])
    BY <1>7, Zenon
  <2>8. AgreeOn(V, AloneStep(g[k + i], a, t), AloneStep(h[i], a, t))
    BY <2>3, <2>4, <2>6, <2>7, StepAgree, Zenon
  <2> QED
    BY <2>1, <2>4, <2>5, <2>8, Zenon
<1>8. l \in S
  <2> HIDE DEF S
  <2> QED
    BY <1>6, <1>7, InductionUpTo, SelfBound, Zenon
<1> QED
  BY <1>1, <1>2, <1>3, <1>8, Zenon

\* The body does not name the variable.
Untouched(B, v) == \A i \in 1..Len(B) : ~Touches(B[i], v)

\* Neither body stores what the other names.
Apart(C, D) ==
  \A v \in Vars : (Unwritten(C, v) \/ Untouched(D, v)) /\ (Unwritten(D, v) \/ Untouched(C, v))

\* The memory a body leaves when all its threads have run.
Whole(m, B, p, q) == Mix(m, B, p, q, AllDone(B, p, q))

\* The variables a body names.
NamesOf(B) == {v \in Vars : ~Untouched(B, v)}

\* The variables a body names are those its atoms name.
LEMMA NamesOfIs ==
  ASSUME NEW B \in Seq(Atoms)
  PROVE  NamesOf(B) \subseteq Vars /\ NamesIn(B, NamesOf(B))
<1>1. ASSUME NEW i \in 1..Len(B)
      PROVE  B[i].dst \in NamesOf(B) /\ (B[i].src = "none" \/ B[i].src \in NamesOf(B))
  <2>1. PICK a \in Atoms : a = B[i]
    BY SeqParts, Zenon
  <2>2. a.dst \in Vars /\ (a.src = "none" \/ a.src \in Vars)
    BY AtomParts, Zenon
  <2>3. ASSUME NEW v \in Vars, Touches(a, v) PROVE v \in NamesOf(B)
    BY <2>1, <2>3, Zenon DEF NamesOf, Untouched
  <2>4. Touches(a, a.dst) /\ Touches(a, a.src)
    BY Zenon DEF Touches
  <2> QED
    BY <2>1, <2>2, <2>3, <2>4, Zenon
<1> QED
  BY <1>1, Zenon DEF NamesIn, NamesOf

\* A variable that is not named is not stored.
LEMMA UntouchedUnwritten ==
  ASSUME NEW B, NEW v, Untouched(B, v)
  PROVE  Unwritten(B, v)
  BY Zenon DEF Untouched, Unwritten, Touches

\* All threads of a body leave a memory.
LEMMA WholeType ==
  ASSUME NEW m \in Mems, NEW B \in Seq(Atoms), NEW p \in Nat, NEW q \in Nat, AllSafe(B, p, q)
  PROVE  Whole(m, B, p, q) \in Mems
  BY MixType, AllDoneType, Zenon DEF Whole

\* All threads of a body leave a variable they do not store.
LEMMA WholeKeeps ==
  ASSUME NEW m \in Mems, NEW B \in Seq(Atoms), NEW p \in Nat, NEW q \in Nat, AllSafe(B, p, q),
         NEW v \in Vars, Unwritten(B, v)
  PROVE  Whole(m, B, p, q)[v] = m[v]
<1>1. PICK pos \in Positions(B, p, q) : pos = AllDone(B, p, q)
  BY AllDoneType, Zenon
<1>2. Mix(m, B, p, q, pos)[v] = m[v]
  BY MixKeeps
<1> QED
  BY <1>1, <1>2, Zenon DEF Whole

\* What a body stores after another that is apart from it.
LEMMA WholeApart ==
  ASSUME NEW m \in Mems, NEW C \in Seq(Atoms), NEW D \in Seq(Atoms),
         NEW p \in Nat, NEW q \in Nat, NEW r \in Nat, NEW s \in Nat,
         AllSafe(C, p, q), AllSafe(D, r, s), Apart(C, D), NEW v \in Vars, ~Unwritten(D, v)
  PROVE  Whole(Whole(m, C, p, q), D, r, s)[v] = Whole(m, D, r, s)[v]
<1>1. PICK n \in Mems : n = Whole(m, C, p, q)
  BY WholeType, Zenon
<1>2. PICK pos \in Positions(D, r, s) : pos = AllDone(D, r, s)
  BY AllDoneType, Zenon
<1>3. PICK V : V = NamesOf(D)
  OBVIOUS
<1>4. V \subseteq Vars /\ NamesIn(D, V)
  BY <1>3, NamesOfIs, Zenon
<1>5. ASSUME NEW w \in V PROVE n[w] = m[w]
  <2>1. w \in Vars /\ Unwritten(C, w)
    BY <1>3, Zenon DEF NamesOf, Apart
  <2> QED
    BY <1>1, <2>1, WholeKeeps
<1>6. AgreeOn(V, n, m)
  BY <1>5, Zenon DEF AgreeOn
<1>7. AgreeOn(V, Mix(n, D, r, s, pos), Mix(m, D, r, s, pos))
  BY <1>4, <1>6, MixAgree, Zenon
<1>8. v \in V
  BY <1>3, UntouchedUnwritten, Zenon DEF NamesOf
<1> QED
  BY <1>1, <1>2, <1>7, <1>8, Zenon DEF AgreeOn, Whole

\* Being apart does not depend on the order.
LEMMA ApartSwaps ==
  ASSUME NEW C, NEW D, Apart(C, D)
  PROVE  Apart(D, C)
  BY Zenon DEF Apart

\* Memories that agree on every variable are one.
LEMMA MemsEqual ==
  ASSUME NEW m \in Mems, NEW n \in Mems, \A v \in Vars : m[v] = n[v]
  PROVE  m = n
<1>1. m = [v \in Vars |-> m[v]] /\ n = [v \in Vars |-> n[v]]
  BY MemsAre, Zenon DEF IsMem
<1> QED
  BY <1>1, Zenon

\* Bodies that are apart change places.
LEMMA WholeSwaps ==
  ASSUME NEW m \in Mems, NEW C \in Seq(Atoms), NEW D \in Seq(Atoms),
         NEW p \in Nat, NEW q \in Nat, NEW r \in Nat, NEW s \in Nat,
         AllSafe(C, p, q), AllSafe(D, r, s), Apart(C, D)
  PROVE  Whole(Whole(m, C, p, q), D, r, s) = Whole(Whole(m, D, r, s), C, p, q)
<1>1. PICK mc \in Mems, md \in Mems : mc = Whole(m, C, p, q) /\ md = Whole(m, D, r, s)
  BY WholeType, Zenon
<1>2. PICK mcd \in Mems, mdc \in Mems : mcd = Whole(mc, D, r, s) /\ mdc = Whole(md, C, p, q)
  BY WholeType, Zenon
<1>3. ASSUME NEW v \in Vars PROVE mcd[v] = mdc[v]
  <2>1. ~Unwritten(D, v) => mcd[v] = md[v]
    BY <1>1, <1>2, WholeApart, SMTT(60)
  <2>2. ~Unwritten(C, v) => mdc[v] = mc[v]
    BY <1>1, <1>2, ApartSwaps, WholeApart, SMTT(60)
  <2>3. Unwritten(D, v) => mcd[v] = mc[v] /\ md[v] = m[v]
    BY <1>1, <1>2, WholeKeeps
  <2>4. Unwritten(C, v) => mdc[v] = md[v] /\ mc[v] = m[v]
    BY <1>1, <1>2, WholeKeeps
  <2>5. Unwritten(C, v) \/ Unwritten(D, v)
    BY UntouchedUnwritten, Zenon DEF Apart
  <2>6. CASE Unwritten(D, v) /\ Unwritten(C, v)
    BY <2>3, <2>4, <2>6
  <2>7. CASE Unwritten(D, v) /\ ~Unwritten(C, v)
    BY <2>2, <2>3, <2>7
  <2>8. CASE ~Unwritten(D, v) /\ Unwritten(C, v)
    BY <2>1, <2>4, <2>8
  <2> QED
    BY <2>5, <2>6, <2>7, <2>8, Zenon
<1>4. mcd = mdc
  BY <1>3, MemsEqual, Zenon
<1> QED
  BY <1>1, <1>2, <1>4, Zenon

\* Two bodies in one do what they do one after the other.
LEMMA WholeConcat ==
  ASSUME NEW m \in Mems, NEW B, NEW C, NEW D, IsConcat(B, C, D), NEW p \in Nat, NEW q \in Nat,
         AllSafe(C, p, q), AllSafe(D, p, q), Apart(C, D)
  PROVE  AllSafe(B, p, q) /\ Whole(m, B, p, q) = Whole(Whole(m, C, p, q), D, p, q)
<1>0. B \in Seq(Atoms) /\ C \in Seq(Atoms) /\ D \in Seq(Atoms)
  BY Zenon DEF IsConcat
<1>1. AllSafe(B, p, q)
  BY ConcatSafe, Zenon DEF AllSafe
<1>2. PICK mc \in Mems, md \in Mems, mb \in Mems :
        mc = Whole(m, C, p, q) /\ md = Whole(m, D, p, q) /\ mb = Whole(m, B, p, q)
  BY <1>0, <1>1, WholeType, Zenon
<1>3. PICK mcd \in Mems : mcd = Whole(mc, D, p, q)
  BY <1>0, WholeType, Zenon
<1>4. ASSUME NEW t \in Threads(p, q)
      PROVE  /\ AllDone(B, p, q)[t] = Len(B) /\ AllDone(C, p, q)[t] = Len(C) /\ AllDone(D, p, q)[t] = Len(D)
             /\ Safe(C, t) /\ Safe(D, t)
  BY Zenon DEF AllDone, AllSafe
<1>5. ASSUME NEW v \in Vars, Unwritten(D, v) PROVE mb[v] = mc[v]
  <2>1. ASSUME NEW c PROVE Gain(m, B, p, q, AllDone(B, p, q), v, c) = Gain(m, C, p, q, AllDone(C, p, q), v, c)
    <3>1. ASSUME NEW t \in Threads(p, q)
          PROVE  Alone(m, B, t)[AllDone(B, p, q)[t]][v] = Alone(m, C, t)[AllDone(C, p, q)[t]][v]
      <4>1. Alone(m, B, t)[Len(B)][v] = Alone(m, C, t)[Len(C)][v]
        BY <1>4, <1>5, SecondKeeps
      <4> QED
        BY <1>4, <4>1, Zenon
    <3> QED
      BY <3>1, Zenon DEF Gain
  <2> QED
    BY <1>2, <2>1, Zenon DEF Whole, Mix
<1>6. ASSUME NEW v \in Vars, ~Unwritten(D, v) PROVE mb[v] = md[v]
  <2>0. PICK V : V = NamesOf(D)
    OBVIOUS
  <2>1. V \subseteq Vars /\ NamesIn(D, V) /\ \A w \in V : Unwritten(C, w)
    BY <1>0, <2>0, NamesOfIs, Zenon DEF NamesOf, Apart
  <2>2. v \in V
    BY <1>6, <2>0, UntouchedUnwritten, Zenon DEF NamesOf
  <2>3. ASSUME NEW c PROVE Gain(m, B, p, q, AllDone(B, p, q), v, c) = Gain(m, D, p, q, AllDone(D, p, q), v, c)
    <3>1. ASSUME NEW t \in Threads(p, q)
          PROVE  Alone(m, B, t)[AllDone(B, p, q)[t]][v] = Alone(m, D, t)[AllDone(D, p, q)[t]][v]
      <4>1. AgreeOn(V, Alone(m, B, t)[Len(B)], Alone(m, D, t)[Len(D)])
        BY <1>4, <2>1, SecondAgrees, Zenon
      <4> QED
        BY <1>4, <2>2, <4>1, Zenon DEF AgreeOn
    <3> QED
      BY <3>1, Zenon DEF Gain
  <2> QED
    BY <1>2, <2>3, Zenon DEF Whole, Mix
<1>7. ASSUME NEW v \in Vars PROVE mb[v] = mcd[v]
  <2>1. CASE Unwritten(D, v)
    <3>1. mcd[v] = mc[v]
      BY <1>0, <1>2, <1>3, <2>1, WholeKeeps
    <3> QED
      BY <1>5, <2>1, <3>1, Zenon
  <2>2. CASE ~Unwritten(D, v)
    <3>1. mcd[v] = md[v]
      BY <1>0, <1>2, <1>3, <2>2, WholeApart, SMTT(60)
    <3> QED
      BY <1>6, <2>2, <3>1, Zenon
  <2> QED
    BY <2>1, <2>2, Zenon
<1>8. mb = mcd
  BY <1>7, MemsEqual, Zenon
<1> QED
  BY <1>1, <1>2, <1>3, <1>8, Zenon

\* Two race-free bodies that are apart have no races in one.
LEMMA ConcatFine ==
  ASSUME NEW B, NEW C, NEW D, IsConcat(B, C, D), NEW p \in Nat, NEW q \in Nat,
         Fine(C, p, q), Fine(D, p, q), Apart(C, D)
  PROVE  Fine(B, p, q)
<1>1. AllSafe(B, p, q)
  BY ConcatSafe, Zenon DEF AllSafe, Fine
<1>2. ASSUME NEW i \in 1..Len(B)
      PROVE  (\E j \in 1..Len(C) : B[i] = C[j]) \/ (\E j \in 1..Len(D) : B[i] = D[j])
  <2>1. IsIn(B[i], C) \/ IsIn(B[i], D)
    BY ConcatCases, Zenon
  <2> QED
    BY <2>1, Zenon DEF IsIn
<1>3. ASSUME NEW w \in Vars PROVE Own(B, q, w) \/ Added(B, w) \/ Unwritten(B, w)
  <2>1. CASE Unwritten(C, w) /\ Unwritten(D, w)
    <3>1. Unwritten(B, w)
      BY <1>2, <2>1, Zenon DEF Unwritten
    <3> QED
      BY <3>1, Zenon
  <2>2. ASSUME NEW E, NEW F, Untouched(E, w), Own(F, q, w) \/ Added(F, w),
               \A i \in 1..Len(B) : (\E j \in 1..Len(E) : B[i] = E[j]) \/ (\E j \in 1..Len(F) : B[i] = F[j])
        PROVE  Own(B, q, w) \/ Added(B, w)
    <3>1. ASSUME NEW i \in 1..Len(B), Touches(B[i], w) PROVE \E j \in 1..Len(F) : B[i] = F[j]
      BY <2>2, <3>1, Zenon DEF Untouched
    <3>2. CASE Own(F, q, w)
      <4>1. Own(B, q, w)
        BY <3>1, <3>2, Zenon DEF Own
      <4> QED
        BY <4>1, Zenon
    <3>3. CASE Added(F, w)
      <4>1. Added(B, w)
        BY <3>1, <3>3, Zenon DEF Added
      <4> QED
        BY <4>1, Zenon
    <3> QED
      BY <2>2, <3>2, <3>3, Zenon
  <2>3. CASE ~Unwritten(C, w)
    <3>1. Untouched(D, w) /\ (Own(C, q, w) \/ Added(C, w))
      BY <2>3, Zenon DEF Apart, Fine
    <3>2. Own(B, q, w) \/ Added(B, w)
      BY <1>2, <2>2, <3>1, Zenon
    <3> QED
      BY <3>2, Zenon
  <2>4. CASE ~Unwritten(D, w)
    <3>1. Untouched(C, w) /\ (Own(D, q, w) \/ Added(D, w))
      BY <2>4, Zenon DEF Apart, Fine
    <3>2. Own(B, q, w) \/ Added(B, w)
      BY <1>2, <2>2, <3>1, Zenon
    <3> QED
      BY <3>2, Zenon
  <2> QED
    BY <2>1, <2>3, <2>4, Zenon
<1> QED
  BY <1>1, <1>3, Zenon DEF Fine, IsConcat

-------------------------------------------------------------------------------
(* What statements do, one after the other.                                *)

Maps == [Mems -> Mems]

Same == [m \in Mems |-> m]

Comp(a, b) == [m \in Mems |-> b[a[m]]]

\* Maps in the order of the walk.
Then(f, a, b) == IF f THEN Comp(a, b) ELSE Comp(b, a)

\* Maps of memories compose to maps of memories.
LEMMA CompType ==
  ASSUME NEW a \in Maps, NEW b \in Maps
  PROVE  Comp(a, b) \in Maps
<1>1. ASSUME NEW m \in Mems PROVE b[a[m]] \in Mems
  <2>1. a[m] \in Mems
    BY DEF Maps
  <2> QED
    BY <2>1 DEF Maps
<1> QED
  BY <1>1, Zenon DEF Comp, Maps

\* Composition is associative.
LEMMA CompAssoc ==
  ASSUME NEW a \in Maps, NEW b \in Maps, NEW c \in Maps
  PROVE  Comp(Comp(a, b), c) = Comp(a, Comp(b, c))
<1>1. ASSUME NEW m \in Mems PROVE a[m] \in Mems
  BY DEF Maps
<1>2. ASSUME NEW m \in Mems PROVE c[Comp(a, b)[m]] = Comp(b, c)[a[m]]
  <2>1. Comp(a, b)[m] = b[a[m]]
    BY Zenon DEF Comp
  <2>2. Comp(b, c)[a[m]] = c[b[a[m]]]
    BY <1>1, Zenon DEF Comp
  <2> QED
    BY <2>1, <2>2, Zenon
<1>3. Comp(Comp(a, b), c) = [m \in Mems |-> c[Comp(a, b)[m]]]
  BY Zenon DEF Comp
<1>4. Comp(a, Comp(b, c)) = [m \in Mems |-> Comp(b, c)[a[m]]]
  BY Zenon DEF Comp
<1> QED
  BY <1>2, <1>3, <1>4, Zenon

\* Composition with the identity.
LEMMA CompSame ==
  ASSUME NEW a \in Maps
  PROVE  Comp(a, Same) = a /\ Comp(Same, a) = a /\ Same \in Maps
<1>1. a = [m \in Mems |-> a[m]] /\ \A m \in Mems : a[m] \in Mems
  BY DEF Maps
<1>2. ASSUME NEW m \in Mems PROVE Same[m] = m /\ Same[a[m]] = a[m]
  BY <1>1, Zenon DEF Same
<1>3. Comp(a, Same) = [m \in Mems |-> a[m]] /\ Comp(Same, a) = [m \in Mems |-> a[m]]
  BY <1>2, Zenon DEF Comp
<1>4. Same \in Maps
  BY Zenon DEF Same, Maps
<1> QED
  BY <1>1, <1>3, <1>4, Zenon

\* Maps in the order of the walk compose to a map.
LEMMA ThenType ==
  ASSUME NEW f, NEW a \in Maps, NEW b \in Maps
  PROVE  Then(f, a, b) \in Maps
  BY CompType, Zenon DEF Then

IsAssoc(f, a, b, c) == Then(f, Then(f, a, b), c) = Then(f, a, Then(f, b, c))

\* Composition in the order of the walk is associative.
LEMMA ThenAssoc ==
  ASSUME NEW f, NEW a \in Maps, NEW b \in Maps, NEW c \in Maps
  PROVE  IsAssoc(f, a, b, c)
<1>1. Comp(Comp(a, b), c) = Comp(a, Comp(b, c)) /\ Comp(Comp(c, b), a) = Comp(c, Comp(b, a))
  BY CompAssoc
<1>2. CASE f
  BY <1>1, <1>2, Zenon DEF Then, IsAssoc
<1>3. CASE ~f
  BY <1>1, <1>3, Zenon DEF Then, IsAssoc
<1> QED
  BY <1>2, <1>3, Zenon

\* Composition with the identity, in the order of the walk.
LEMMA ThenSame ==
  ASSUME NEW f, NEW a \in Maps
  PROVE  Then(f, a, Same) = a /\ Then(f, Same, a) = a /\ Same \in Maps
<1>1. Comp(a, Same) = a /\ Comp(Same, a) = a /\ Same \in Maps
  BY CompSame
<1> QED
  BY <1>1, Zenon DEF Then

\* The atoms of a statement and its threads: a host statement has one.
Code(s) == IF s.kind = "host" THEN <<s.atom>> ELSE Body(s)

ByX(s) == IF s.kind = "host" THEN 1 ELSE Lens(s)[1]

ByY(s) == IF s.kind # "host" /\ Len(Lens(s)) = 2 THEN Lens(s)[2] ELSE 1

Does(s) == [m \in Mems |-> Whole(m, Code(s), ByX(s), ByY(s))]

\* The arguments of a kernel tell what it stores from what it loads.
Told(s) == \A i \in 1..Len(s.body) : s.body[i].dst \in s.writes /\ AtomReads(s.body[i]) \subseteq s.reads

\* Statements whose threads stay in range and have no races.
Sound(s) ==
  /\ s \in Lowered /\ s.kind # "abort"
  /\ Code(s) \in Seq(Atoms) /\ ByX(s) \in Nat /\ ByY(s) \in Nat
  /\ AllSafe(Code(s), ByX(s), ByY(s))
  /\ s.kind # "host" => Fine(Code(s), ByX(s), ByY(s))
  /\ s.kind = "kernel" => Told(s)

\* A sound statement is a map of memories.
LEMMA DoesType ==
  ASSUME NEW s, Sound(s)
  PROVE  Does(s) \in Maps
<1>1. ASSUME NEW m \in Mems PROVE Whole(m, Code(s), ByX(s), ByY(s)) \in Mems
  BY WholeType, Zenon DEF Sound
<1> QED
  BY <1>1, Zenon DEF Does, Maps

\* Statements that are apart change places.
LEMMA DoesSwaps ==
  ASSUME NEW s, NEW o, Sound(s), Sound(o), Apart(Code(s), Code(o)), NEW f
  PROVE  Then(f, Does(s), Does(o)) = Then(f, Does(o), Does(s))
<1>1. ASSUME NEW m \in Mems PROVE Does(o)[Does(s)[m]] = Does(s)[Does(o)[m]]
  <2>1. PICK C, D, p, q, r, u : /\ C = Code(s) /\ p = ByX(s) /\ q = ByY(s)
                                /\ D = Code(o) /\ r = ByX(o) /\ u = ByY(o)
    OBVIOUS
  <2>2. /\ C \in Seq(Atoms) /\ p \in Nat /\ q \in Nat /\ AllSafe(C, p, q)
        /\ D \in Seq(Atoms) /\ r \in Nat /\ u \in Nat /\ AllSafe(D, r, u) /\ Apart(C, D)
    BY <2>1, Zenon DEF Sound
  <2>3. Whole(Whole(m, C, p, q), D, r, u) = Whole(Whole(m, D, r, u), C, p, q)
    BY <2>2, WholeSwaps
  <2>4. Whole(m, C, p, q) \in Mems /\ Whole(m, D, r, u) \in Mems
    BY <2>2, WholeType, Zenon
  <2> QED
    BY <2>1, <2>3, <2>4, Zenon DEF Does
<1>2. Comp(Does(s), Does(o)) = Comp(Does(o), Does(s))
  BY <1>1, Zenon DEF Comp
<1> QED
  BY <1>2, Zenon DEF Then

\* What the analysis records of a statement holds what its atoms name.
LEMMA Recorded ==
  ASSUME NEW o, Sound(o), NEW i \in 1..Len(Code(o))
  PROVE  Code(o)[i].dst \in Writes(o) /\ AtomReads(Code(o)[i]) \subseteq AllReads(o)
<1>0. o \in Lowered /\ o.kind # "abort" /\ Code(o) \in Seq(Atoms)
  BY Zenon DEF Sound
<1>1. CASE o.kind = "memset"
  <2>1. o.var \in Vars
    BY <1>0, <1>1, KindOf DEF Memsets
  <2>2. Code(o) = Clears(o.var) /\ IsClear(Clears(o.var), ClearAtom(o.var), o.var)
    <3>1. Code(o) = Clears(o.var)
      BY <1>1 DEF Code, Body, Clears, ClearAtom
    <3> QED
      BY <2>1, <3>1, ClearParts, Zenon
  <2>3. Code(o)[i].dst = o.var /\ Code(o)[i].src = "none"
    BY <2>2, Zenon DEF IsClear
  <2> QED
    BY <1>1, <2>3 DEF Writes, AtomReads
<1>2. CASE o.kind \in {"kernel", "host"}
  <2>1. AtomsOf(o) = Code(o)
    BY <1>2 DEF AtomsOf, Code, Body
  <2>2. PICK a : a = Code(o)[i]
    OBVIOUS
  <2>3. a \in Range(AtomsOf(o))
    BY <1>0, <2>1, <2>2, SeqParts DEF Range
  <2>4. o.kind # "memset"
    BY <1>2
  <2>5. a.dst \in Writes(o)
    BY <2>3, <2>4 DEF Writes
  <2>6. AtomReads(a) \subseteq AllReads(o)
    BY <2>3 DEF AllReads, NonAtomicReads
  <2> QED
    BY <2>2, <2>5, <2>6
<1> QED
  BY <1>0, <1>1, <1>2, KindOf

\* Statements that do not conflict are apart.
LEMMA ConflictApart ==
  ASSUME NEW k, NEW o, Sound(k), Sound(o), k.kind = "kernel", ~Conflict(k, o)
  PROVE  Apart(Code(k), Code(o))
<1>1. Code(k) = k.body /\ Told(k)
  BY DEF Code, Body, Sound
<1>2. ASSUME NEW i \in 1..Len(Code(k)), NEW v \in Vars, Touches(Code(k)[i], v)
      PROVE  v \in k.writes \/ v \in k.reads
  <2>1. v # "none"
    BY LaunchAssumption, Zenon
  <2> QED
    BY <1>1, <1>2, <2>1 DEF Told, Touches, AtomReads
<1>3. ASSUME NEW i \in 1..Len(Code(o)), NEW v \in Vars, Touches(Code(o)[i], v)
      PROVE  v \in Writes(o) \/ v \in AllReads(o)
  <2>1. v # "none"
    BY LaunchAssumption, Zenon
  <2>2. Code(o)[i].dst \in Writes(o) /\ AtomReads(Code(o)[i]) \subseteq AllReads(o)
    BY Recorded, Zenon
  <2> QED
    BY <1>3, <2>1, <2>2 DEF Touches, AtomReads
<1>4. ASSUME NEW i \in 1..Len(Code(k)), NEW v, Code(k)[i].dst = v PROVE v \in k.writes
  BY <1>1, <1>4, Zenon DEF Told
<1>5. ASSUME NEW i \in 1..Len(Code(o)), NEW v, Code(o)[i].dst = v PROVE v \in Writes(o)
  BY <1>5, Recorded, Zenon
<1>6. ASSUME NEW v \in Vars PROVE Unwritten(Code(k), v) \/ Untouched(Code(o), v)
  <2>1. ~(v \in k.writes /\ (v \in Writes(o) \/ v \in AllReads(o)))
    BY DEF Conflict
  <2> QED
    BY <1>3, <1>4, <2>1, Zenon DEF Unwritten, Untouched
<1>7. ASSUME NEW v \in Vars PROVE Unwritten(Code(o), v) \/ Untouched(Code(k), v)
  <2>1. ~(v \in Writes(o) /\ (v \in k.writes \/ v \in k.reads))
    BY DEF Conflict
  <2> QED
    BY <1>2, <1>5, <2>1, Zenon DEF Unwritten, Untouched
<1> QED
  BY <1>6, <1>7, Zenon DEF Apart

\* What a statement does first and what it does then.
Joins(f, u, k, o) == Sound(u) /\ Does(u) = Then(f, Does(k), Does(o))

\* A fused kernel does what both did.
LEMMA FusedDoes ==
  ASSUME NEW k, NEW o, Sound(k), Sound(o), k.kind = "kernel", o.kind = "kernel",
         ~Conflict(k, o), SameSharding(k, o), ~(Len(k.dims) > 1), NEW f
  PROVE  Joins(f, Fused(k, o, f), k, o)
<1>0. k \in GoodKernels /\ o \in GoodKernels /\ k \in Kernels
  BY KindOf DEF Sound
<1>1. PICK u : u = Fused(k, o, f)
  OBVIOUS
<1>2. PICK body, kr, kw : /\ body = (IF f THEN k.body \o o.body ELSE o.body \o k.body)
                          /\ kr = k.reads \union AllReads(o) /\ kw = k.writes \union Writes(o)
  OBVIOUS
<1>3. u = [k EXCEPT !.body = body, !.reads = kr, !.writes = kw]
  BY <1>1, <1>2 DEF Fused
<1>4. u.kind = "kernel" /\ u.body = body /\ u.dims = k.dims /\ u.reads = kr /\ u.writes = kw
  BY <1>0, <1>3 DEF Kernels
<1>5. u \in Lowered
  BY <1>0, <1>1, FusedType
<1>6. Code(u) = body /\ Code(k) = k.body /\ Code(o) = o.body
  BY <1>4 DEF Code, Body
<1>7. Lens(u) = Lens(k) /\ Lens(o) = Lens(k)
  BY <1>4 DEF Lens, SameSharding
<1>8. PICK p, q : p = ByX(k) /\ q = ByY(k)
  OBVIOUS
<1>9. ByX(u) = p /\ ByY(u) = q /\ ByX(o) = p /\ ByY(o) = q
  BY <1>4, <1>7, <1>8 DEF ByX, ByY
<1>10. /\ Fine(k.body, p, q) /\ Fine(o.body, p, q) /\ p \in Nat /\ q \in Nat
       /\ k.body \in Seq(Atoms) /\ o.body \in Seq(Atoms)
       /\ AllSafe(k.body, p, q) /\ AllSafe(o.body, p, q) /\ Told(k)
  BY <1>6, <1>8, <1>9 DEF Sound
<1>11. Apart(k.body, o.body) /\ Apart(o.body, k.body)
  <2>1. Apart(Code(k), Code(o))
    BY ConflictApart, Zenon
  <2> QED
    BY <1>6, <2>1, ApartSwaps, Zenon
<1>12. PICK C, D : /\ C = (IF f THEN k.body ELSE o.body) /\ D = (IF f THEN o.body ELSE k.body)
                   /\ body = C \o D
  BY <1>2
<1>13. /\ C \in Seq(Atoms) /\ D \in Seq(Atoms) /\ Apart(C, D) /\ Fine(C, p, q) /\ Fine(D, p, q)
       /\ AllSafe(C, p, q) /\ AllSafe(D, p, q)
  BY <1>10, <1>11, <1>12, Zenon
<1>14. IsConcat(body, C, D)
  BY <1>12, <1>13, ConcatIs, Zenon
<1>15. AllSafe(body, p, q) /\ Fine(body, p, q) /\ body \in Seq(Atoms)
  BY <1>10, <1>13, <1>14, ConcatFine, Zenon DEF Fine
<1>16. Told(u)
  <2>1. ASSUME NEW i \in 1..Len(body) PROVE body[i].dst \in kw /\ AtomReads(body[i]) \subseteq kr
    <3>1. ASSUME NEW j \in 1..Len(k.body) PROVE k.body[j].dst \in kw /\ AtomReads(k.body[j]) \subseteq kr
      BY <1>2, <1>10 DEF Told
    <3>2. ASSUME NEW j \in 1..Len(o.body) PROVE o.body[j].dst \in kw /\ AtomReads(o.body[j]) \subseteq kr
      <4>1. o.body[j].dst \in Writes(o) /\ AtomReads(o.body[j]) \subseteq AllReads(o)
        <5>1. j \in 1..Len(Code(o))
          BY <1>6, Zenon
        <5> QED
          BY <1>6, <5>1, Recorded, Zenon
      <4> QED
        BY <1>2, <4>1
    <3>3. (\E j \in 1..Len(C) : body[i] = C[j]) \/ (\E j \in 1..Len(D) : body[i] = D[j])
      <4>1. IsIn(body[i], C) \/ IsIn(body[i], D)
        BY <1>14, ConcatCases, Zenon
      <4> QED
        BY <4>1, Zenon DEF IsIn
    <3>4. (\E j \in 1..Len(k.body) : body[i] = k.body[j]) \/ (\E j \in 1..Len(o.body) : body[i] = o.body[j])
      BY <1>12, <3>3, Zenon
    <3> QED
      BY <3>1, <3>2, <3>4, Zenon
  <2> QED
    BY <1>4, <2>1, Zenon DEF Told
<1>17. Sound(u)
  <2>1. u.kind # "abort"
    BY <1>4
  <2> QED
    BY <1>5, <1>6, <1>9, <1>10, <1>15, <1>16, <2>1, Zenon DEF Sound
<1>18. ASSUME NEW m \in Mems PROVE Whole(m, body, p, q) = Whole(Whole(m, C, p, q), D, p, q)
  BY <1>10, <1>13, <1>14, WholeConcat
<1>19. \A m \in Mems : Whole(m, C, p, q) \in Mems
  BY <1>10, <1>13, WholeType, Zenon
<1>20. PICK d, e : d = [m \in Mems |-> Whole(m, C, p, q)] /\ e = [m \in Mems |-> Whole(m, D, p, q)]
  OBVIOUS
<1>21. Does(u) = Comp(d, e)
  <2>1. ASSUME NEW m \in Mems PROVE Whole(m, body, p, q) = e[d[m]]
    BY <1>18, <1>19, <1>20, Zenon
  <2> QED
    BY <1>6, <1>9, <2>1, Zenon DEF Does, Comp
<1>22. Does(k) = [m \in Mems |-> Whole(m, k.body, p, q)] /\ Does(o) = [m \in Mems |-> Whole(m, o.body, p, q)]
  BY <1>6, <1>8, <1>9, Zenon DEF Does
<1>23. Comp(d, e) = Then(f, Does(k), Does(o))
  <2>1. CASE f
    BY <1>12, <1>20, <1>22, <2>1, Zenon DEF Then
  <2>2. CASE ~f
    BY <1>12, <1>20, <1>22, <2>2, Zenon DEF Then
  <2> QED
    BY <2>1, <2>2, Zenon
<1> QED
  BY <1>1, <1>17, <1>21, <1>23, Zenon DEF Joins

-------------------------------------------------------------------------------
(* Lists of statements.                                                    *)

AllSound(list) == \A i \in 1..Len(list) : Sound(list[i])

HasAbort(list) == \E i \in 1..Len(list) : list[i].kind = "abort"

\* What the first statements of a list do, for each number of them.
Chain(list, f) ==
  Iter(Len(list), Same, [r \in Maps \X (1..Len(list)) |-> Then(f, r[1], Does(list[r[2]]))])

Chains(g, list, f) ==
  /\ g \in [0..Len(list) -> Maps] /\ g[0] = Same
  /\ \A i \in 0..(Len(list) - 1) : g[i + 1] = Then(f, g[i], Does(list[i + 1]))

Means(list, f) == Chain(list, f)[Len(list)]

\* What the first statements of a list do, statement by statement.
LEMMA ChainIs ==
  ASSUME NEW list, Len(list) \in Nat, AllSound(list), NEW f
  PROVE  Chains(Chain(list, f), list, f)
<1>0. PICK n \in Nat : n = Len(list)
  BY Zenon
<1> DEFINE st == [r \in Maps \X (1..n) |-> Then(f, r[1], Does(list[r[2]]))]
<1>1. ASSUME NEW a \in Maps, NEW i \in 1..n PROVE Then(f, a, Does(list[i])) \in Maps
  BY <1>0, DoesType, ThenType, Zenon DEF AllSound
<1>2. \A r \in Maps \X (1..n) : r[1] \in Maps /\ r[2] \in 1..n
  OBVIOUS
<1>3. st \in [Maps \X (1..n) -> Maps]
  BY <1>1, <1>2, Zenon
<1>4. ASSUME NEW a \in Maps, NEW i \in 1..n PROVE st[<<a, i>>] = Then(f, a, Does(list[i]))
  OBVIOUS
<1> HIDE DEF st
<1>5. PICK g : g = Iter(n, Same, st)
  OBVIOUS
<1>6. Same \in Maps
  BY Zenon DEF Same, Maps
<1>7. Iterates(g, n, Same, st, Maps)
  BY <1>3, <1>5, <1>6, IterIs, Zenon
<1>8. ASSUME NEW i \in 0..(n - 1) PROVE g[i + 1] = Then(f, g[i], Does(list[i + 1]))
  <2>1. i + 1 \in 1..n /\ i \in 0..n
    OBVIOUS
  <2>2. g[i] \in Maps
    BY <1>7, <2>1 DEF Iterates
  <2> QED
    BY <1>4, <1>7, <2>1, <2>2, Zenon DEF Iterates
<1>9. Chain(list, f) = g
  BY <1>0, <1>5, Zenon DEF Chain, st
<1> QED
  BY <1>0, <1>7, <1>8, <1>9, Zenon DEF Chains, Iterates

\* Lists with the same first statements do the same with them.
LEMMA ChainPrefix ==
  ASSUME NEW g, NEW h, NEW list, NEW more, NEW f, NEW n \in Nat, Chains(g, list, f), Chains(h, more, f),
         Len(list) \in Nat, Len(more) \in Nat, n <= Len(list), n <= Len(more),
         \A i \in 1..n : list[i] = more[i]
  PROVE  g[n] = h[n]
<1> DEFINE S == {i \in 0..n : g[i] = h[i]}
<1>1. 0 \in S
  BY SelfBound, Zenon DEF Chains
<1>2. ASSUME NEW i \in 0..(n - 1), i \in S PROVE i + 1 \in S
  <2>1. i \in 0..(Len(list) - 1) /\ i \in 0..(Len(more) - 1) /\ i + 1 \in 1..n /\ i + 1 \in 0..n
    OBVIOUS
  <2>2. g[i + 1] = Then(f, g[i], Does(list[i + 1])) /\ h[i + 1] = Then(f, h[i], Does(more[i + 1]))
    BY <2>1, Zenon DEF Chains
  <2>3. g[i + 1] = h[i + 1]
    BY <1>2, <2>1, <2>2, Zenon
  <2> QED
    BY <2>1, <2>3, Zenon
<1>3. n \in S
  <2> HIDE DEF S
  <2> QED
    BY <1>1, <1>2, InductionUpTo, SelfBound, Zenon
<1> QED
  BY <1>3, Zenon

\* A list of sound statements is a map of memories.
LEMMA MeansType ==
  ASSUME NEW list, Len(list) \in Nat, AllSound(list), NEW f
  PROVE  Means(list, f) \in Maps
<1>1. Chains(Chain(list, f), list, f)
  BY ChainIs, Zenon
<1>2. PICK g, n : g = Chain(list, f) /\ n = Len(list)
  OBVIOUS
<1>3. g \in [0..n -> Maps] /\ n \in 0..n
  BY <1>1, <1>2, SelfBound, Zenon DEF Chains
<1>4. g[n] \in Maps
  BY <1>3
<1> QED
  BY <1>2, <1>4, Zenon DEF Means

\* No statements do nothing.
LEMMA MeansEmpty ==
  ASSUME NEW f
  PROVE  AllSound(<<>>) /\ Means(<<>>, f) = Same
<1>1. Len(<<>>) = 0 /\ Len(<<>>) \in Nat
  OBVIOUS
<1>2. \A i : i \notin 1..0
  OBVIOUS
<1>3. AllSound(<<>>)
  BY <1>1, <1>2, Zenon DEF AllSound
<1>4. Chains(Chain(<<>>, f), <<>>, f)
  BY <1>1, <1>3, ChainIs, Zenon
<1> QED
  BY <1>1, <1>3, <1>4, Zenon DEF Chains, Means

\* A list with one statement more.
Longer(l, list, s) ==
  /\ Len(l) = Len(list) + 1 /\ l[Len(list) + 1] = s
  /\ \A i \in 1..Len(list) : l[i] = list[i]

\* Appending makes a list longer by one.
LEMMA AppendLonger ==
  ASSUME NEW S, NEW list \in Seq(S), NEW s \in S
  PROVE  Longer(Append(list, s), list, s) /\ Append(list, s) \in Seq(S) /\ Len(list) \in Nat
<1>1. Len(list) \in Nat
  BY SeqParts, Zenon
<1>2. Append(list, s) \in Seq(S) /\ Len(Append(list, s)) = Len(list) + 1
      /\ \A i \in 1..Len(list) : Append(list, s)[i] = list[i]
      /\ Append(list, s)[Len(list) + 1] = s
  BY AppendProperties
<1>3. PICK l, n : l = Append(list, s) /\ n = Len(list)
  OBVIOUS
<1> QED
  BY <1>1, <1>2, <1>3 DEF Longer

\* The meaning of a longer list.
Extends(f, l, list, s) == AllSound(l) /\ Means(l, f) = Then(f, Means(list, f), Does(s))

\* A longer list does what the list does, then its last statement.
LEMMA MeansLonger ==
  ASSUME NEW l, NEW list, NEW s, Longer(l, list, s), Len(list) \in Nat, AllSound(list), Sound(s), NEW f
  PROVE  Extends(f, l, list, s)
<1>1. PICK n \in Nat : n = Len(list)
  BY Zenon
<1>2. Len(l) = n + 1 /\ l[n + 1] = s /\ \A i \in 1..n : l[i] = list[i]
  BY <1>1, Zenon DEF Longer
<1>3. AllSound(l)
  <2>1. ASSUME NEW i \in 1..(n + 1) PROVE Sound(l[i])
    <3>1. i \in 1..n \/ i = n + 1
      OBVIOUS
    <3> QED
      BY <1>1, <1>2, <3>1, Zenon DEF AllSound
  <2> QED
    BY <1>2, <2>1, Zenon DEF AllSound
<1>4. PICK g, h : g = Chain(list, f) /\ h = Chain(l, f)
  OBVIOUS
<1>5. Len(l) \in Nat /\ n <= Len(list) /\ n <= Len(l) /\ n \in 0..(Len(l) - 1)
  BY <1>1, <1>2
<1>6. Chains(g, list, f) /\ Chains(h, l, f)
  BY <1>3, <1>4, <1>5, ChainIs, Zenon
<1>7. g[n] = h[n]
  BY <1>2, <1>5, <1>6, ChainPrefix
<1>8. h[n + 1] = Then(f, h[n], Does(l[n + 1]))
  BY <1>5, <1>6, Zenon DEF Chains
<1> QED
  BY <1>1, <1>2, <1>3, <1>4, <1>7, <1>8, Zenon DEF Means, Extends

\* A longer list aborts when the list or its last statement does.
LEMMA AbortLonger ==
  ASSUME NEW l, NEW list, NEW s, Longer(l, list, s), Len(list) \in Nat
  PROVE  HasAbort(l) <=> HasAbort(list) \/ s.kind = "abort"
<1>1. PICK n \in Nat : n = Len(list)
  BY Zenon
<1>2. Len(l) = n + 1 /\ l[n + 1] = s /\ \A i \in 1..n : l[i] = list[i]
  BY <1>1, Zenon DEF Longer
<1>3. n + 1 \in 1..(n + 1) /\ (\A i \in 1..n : i \in 1..(n + 1)) /\ (\A i \in 1..(n + 1) : i \in 1..n \/ i = n + 1)
  OBVIOUS
<1> QED
  BY <1>1, <1>2, <1>3, Zenon DEF HasAbort

\* The statements of a list from the last to the first.
Turned(r, list) == Len(r) = Len(list) /\ \A i \in 1..Len(list) : r[i] = list[(Len(list) - i) + 1]

\* Reversing a list turns it.
LEMMA ReverseTurned ==
  ASSUME NEW S, NEW list \in Seq(S)
  PROVE  Turned(Reverse(list), list)
<1>1. Len(list) \in Nat
  BY SeqParts, Zenon
<1>2. Reverse(list) = [i \in 1..Len(list) |-> list[(Len(list) - i) + 1]]
  BY Zenon DEF Reverse
<1>3. Len(Reverse(list)) = Len(list)
  BY <1>1, <1>2
<1> QED
  BY <1>2, <1>3, Zenon DEF Turned

\* A list is the turning of its turning.
LEMMA TurnedBack ==
  ASSUME NEW r, NEW list, Turned(r, list), Len(list) \in Nat
  PROVE  \A i \in 1..Len(list) : (Len(list) - i) + 1 \in 1..Len(list) /\ list[i] = r[(Len(list) - i) + 1]
<1> TAKE i \in 1..Len(list)
<1>1. PICK n \in Nat : n = Len(list)
  BY Zenon
<1>2. PICK j \in 1..n : j = (n - i) + 1 /\ i = (n - j) + 1
  <2>1. (n - i) + 1 \in 1..n /\ i = (n - ((n - i) + 1)) + 1
    BY <1>1
  <2> QED
    BY <2>1
<1>3. r[j] = list[(n - j) + 1]
  BY <1>1, Zenon DEF Turned
<1> QED
  BY <1>1, <1>2, <1>3, Zenon

\* Turning keeps statements sound, and aborts.
LEMMA TurnedSound ==
  ASSUME NEW r, NEW list, Turned(r, list), Len(list) \in Nat
  PROVE  (AllSound(list) <=> AllSound(r)) /\ (HasAbort(list) <=> HasAbort(r))
<1>1. \A i \in 1..Len(list) : (Len(list) - i) + 1 \in 1..Len(list) /\ list[i] = r[(Len(list) - i) + 1]
                              /\ r[i] = list[(Len(list) - i) + 1]
  BY TurnedBack DEF Turned
<1>2. \A i \in 1..Len(list) : \E j \in 1..Len(list) : list[i] = r[j] /\ r[i] = list[j]
  BY <1>1, Zenon
<1>3. Len(r) = Len(list)
  BY Zenon DEF Turned
<1>4. AllSound(list) <=> AllSound(r)
  BY <1>2, <1>3, Zenon DEF AllSound
<1>5. HasAbort(list) <=> HasAbort(r)
  <2>1. ASSUME NEW i \in 1..Len(list), list[i].kind = "abort" PROVE \E j \in 1..Len(list) : r[j].kind = "abort"
    BY <1>2, <2>1, Zenon
  <2>2. ASSUME NEW i \in 1..Len(list), r[i].kind = "abort" PROVE \E j \in 1..Len(list) : list[j].kind = "abort"
    BY <1>2, <2>2, Zenon
  <2> QED
    BY <1>3, <2>1, <2>2, Zenon DEF HasAbort
<1> QED
  BY <1>4, <1>5, Zenon

\* A list read backwards means the same.
LEMMA MeansTurned ==
  ASSUME NEW r, NEW list, Turned(r, list), Len(list) \in Nat, AllSound(list), NEW f \in BOOLEAN
  PROVE  Means(r, ~f) = Means(list, f)
<1>1. PICK n \in Nat : n = Len(list) /\ n = Len(r)
  BY Zenon DEF Turned
<1>2. PICK g, h : g = Chain(list, f) /\ h = Chain(r, ~f)
  OBVIOUS
<1>3. AllSound(r)
  BY TurnedSound, Zenon
<1>4. Chains(g, list, f) /\ Chains(h, r, ~f)
  BY <1>1, <1>2, <1>3, ChainIs, Zenon
<1>5. /\ g[0] = Same /\ h[0] = Same
      /\ \A i \in 0..n : g[i] \in Maps /\ h[i] \in Maps
  BY <1>1, <1>4 DEF Chains
<1> DEFINE S == {i \in 0..n : Then(f, g[n - i], h[i]) = g[n]}
<1>6. 0 \in S
  <2>1. n - 0 = n /\ n \in 0..n /\ 0 \in 0..n
    OBVIOUS
  <2>2. Then(f, g[n], Same) = g[n]
    BY <1>5, <2>1, ThenSame
  <2>3. Then(f, g[n - 0], h[0]) = g[n]
    BY <1>5, <2>1, <2>2, Zenon
  <2> QED
    BY <2>1, <2>3, Zenon
<1>7. ASSUME NEW i \in 0..(n - 1), i \in S PROVE i + 1 \in S
  <2>1. PICK j \in 0..(n - 1) : j + 1 = n - i /\ j = n - (i + 1) /\ j + 1 = (n - (i + 1)) + 1
    <3>1. n - (i + 1) \in 0..(n - 1) /\ (n - (i + 1)) + 1 = n - i
      OBVIOUS
    <3> QED
      BY <3>1
  <2>2. i + 1 \in 1..n /\ i + 1 \in 0..n /\ i \in 0..n /\ j \in 0..n /\ j + 1 \in 1..n /\ j + 1 \in 0..n
    OBVIOUS
  <2>3. PICK d : d = Does(list[j + 1])
    OBVIOUS
  <2>4. d \in Maps
    BY <1>1, <2>2, <2>3, DoesType, Zenon DEF AllSound
  <2>5. g[j + 1] = Then(f, g[j], d)
    BY <1>1, <1>4, <2>3, Zenon DEF Chains
  <2>6. r[i + 1] = list[j + 1]
    BY <1>1, <2>1, <2>2, Zenon DEF Turned
  <2>7. h[i + 1] = Then(~f, h[i], d)
    BY <1>1, <1>4, <2>3, <2>6, Zenon DEF Chains
  <2>8. h[i + 1] = Then(f, d, h[i])
    BY <2>7, Zenon DEF Then
  <2>9. g[j] \in Maps /\ h[i] \in Maps
    BY <1>5, <2>2, Zenon
  <2>10. IsAssoc(f, g[j], d, h[i])
    BY <2>4, <2>9, ThenAssoc, Zenon
  <2>11. Then(f, g[j + 1], h[i]) = g[n]
    BY <1>7, <2>1, Zenon
  <2>12. Then(f, g[j], h[i + 1]) = g[n]
    BY <2>5, <2>8, <2>10, <2>11, Zenon DEF IsAssoc
  <2> QED
    BY <2>1, <2>2, <2>12, Zenon
<1>8. n \in S
  <2> HIDE DEF S
  <2> QED
    BY <1>6, <1>7, InductionUpTo, SelfBound, Zenon
<1>9. n - n = 0 /\ n \in 0..n
  OBVIOUS
<1>10. Then(f, Same, h[n]) = h[n]
  BY <1>5, <1>9, ThenSame
<1>11. h[n] = g[n]
  BY <1>5, <1>8, <1>9, <1>10, Zenon
<1> QED
  BY <1>1, <1>2, <1>11, Zenon DEF Means

-------------------------------------------------------------------------------
(* The walk keeps what a function does.                                    *)

\* A statement is taken up or placed.
Held(out, o) == IF o.kind = "kernel" THEN [out |-> out, hold |-> <<o>>]
                                     ELSE [out |-> Append(out, o), hold |-> <<>>]

\* The cases of one statement of the walk.
LEMMA PlaceCases ==
  ASSUME NEW acc, NEW o, NEW f
  PROVE  /\ acc.hold = <<>> => Place(acc, o, f) = Held(acc.out, o)
         /\ \A k : acc.hold = <<k>> =>
              /\ Conflict(k, o) \/ (o.kind = "kernel" /\ ~SameSharding(k, o)) =>
                   Place(acc, o, f) = Held(Append(acc.out, k), o)
              /\ ~Conflict(k, o) /\ o.kind # "kernel" =>
                   Place(acc, o, f) = [out |-> Append(acc.out, o), hold |-> <<k>>]
              /\ ~Conflict(k, o) /\ o.kind = "kernel" /\ SameSharding(k, o) =>
                   Place(acc, o, f) = [out |-> Append(acc.out, Fused(k, o, f)), hold |-> <<>>]
<1>1. acc.hold = <<>> => Place(acc, o, f) = Held(acc.out, o)
  BY DEF Place, Held
<1>2. ASSUME NEW k, acc.hold = <<k>>, Conflict(k, o)
      PROVE  Place(acc, o, f) = Held(Append(acc.out, k), o)
  BY <1>2 DEF Place, Held
<1>3. ASSUME NEW k, acc.hold = <<k>>, ~Conflict(k, o), o.kind = "kernel", ~SameSharding(k, o)
      PROVE  Place(acc, o, f) = Held(Append(acc.out, k), o)
  BY <1>3 DEF Place, Held
<1>4. ASSUME NEW k, acc.hold = <<k>>, ~Conflict(k, o), o.kind # "kernel"
      PROVE  Place(acc, o, f) = [out |-> Append(acc.out, o), hold |-> <<k>>]
  BY <1>4 DEF Place
<1>5. ASSUME NEW k, acc.hold = <<k>>, ~Conflict(k, o), o.kind = "kernel", SameSharding(k, o)
      PROVE  Place(acc, o, f) = [out |-> Append(acc.out, Fused(k, o, f)), hold |-> <<>>]
  BY <1>5 DEF Place
<1> QED
  BY <1>1, <1>2, <1>3, <1>4, <1>5, Zenon

\* What is placed stays placed, and a statement that aborts is placed.
LEMMA PlaceAborts ==
  ASSUME NEW acc \in Accs, NEW o \in Lowered, NEW f, HasAbort(acc.out) \/ o.kind = "abort"
  PROVE  HasAbort(Place(acc, o, f).out)
<1>0. acc.out \in Seq(Lowered) /\ acc.hold \in Holds
  BY DEF Accs
<1>1. ASSUME NEW list \in Seq(Lowered), NEW s \in Lowered
      PROVE  /\ HasAbort(Append(list, s)) <=> HasAbort(list) \/ s.kind = "abort"
             /\ Append(list, s) \in Seq(Lowered)
  BY AppendLonger, AbortLonger, Zenon
<1>2. ASSUME NEW list \in Seq(Lowered), HasAbort(list) \/ o.kind = "abort"
      PROVE  HasAbort(Held(list, o).out)
  <2>1. CASE o.kind = "kernel"
    <3>1. HasAbort(list)
      BY <1>2, <2>1
    <3>2. Held(list, o).out = list
      BY <2>1 DEF Held
    <3> QED
      BY <3>1, <3>2, Zenon
  <2>2. CASE o.kind # "kernel"
    <3>1. Held(list, o).out = Append(list, o)
      BY <2>2 DEF Held
    <3> QED
      BY <1>1, <1>2, <3>1, Zenon
  <2> QED
    BY <2>1, <2>2, Zenon
<1>3. CASE acc.hold = <<>>
  <2>1. Place(acc, o, f) = Held(acc.out, o)
    BY <1>3, PlaceCases, Zenon
  <2> QED
    BY <1>0, <1>2, <2>1, Zenon
<1>4. CASE acc.hold # <<>>
  <2>1. PICK k \in GoodKernels : acc.hold = <<k>>
    BY <1>0, <1>4, Zenon DEF Holds
  <2>2. k \in Lowered
    BY Zenon DEF Lowered
  <2>3. CASE Conflict(k, o) \/ (o.kind = "kernel" /\ ~SameSharding(k, o))
    <3>1. Place(acc, o, f) = Held(Append(acc.out, k), o)
      BY <2>1, <2>3, PlaceCases, ZenonT(60)
    <3>2. Append(acc.out, k) \in Seq(Lowered) /\ (HasAbort(Append(acc.out, k)) \/ o.kind = "abort")
      BY <1>0, <1>1, <2>2, Zenon
    <3> QED
      BY <1>2, <3>1, <3>2, Zenon
  <2>4. CASE ~Conflict(k, o) /\ o.kind # "kernel"
    <3>1. Place(acc, o, f).out = Append(acc.out, o)
      BY <2>1, <2>4, PlaceCases
    <3> QED
      BY <1>0, <1>1, <3>1, Zenon
  <2>5. CASE ~Conflict(k, o) /\ o.kind = "kernel" /\ SameSharding(k, o)
    <3>1. Place(acc, o, f).out = Append(acc.out, Fused(k, o, f))
      BY <2>1, <2>5, PlaceCases
    <3>2. o.kind # "abort" /\ o \in GoodKernels
      BY <2>5, KindOf
    <3>3. HasAbort(acc.out) /\ Fused(k, o, f) \in Lowered
      BY <3>2, FusedType, Zenon
    <3> QED
      BY <1>0, <1>1, <3>1, <3>3, Zenon
  <2> QED
    BY <2>3, <2>4, <2>5, Zenon
<1> QED
  BY <1>3, <1>4, Zenon

\* What is placed and what is held do d together, or the compiler aborts.
Kept(acc, d, f) ==
  \/ HasAbort(acc.out)
  \/ /\ AllSound(acc.out) /\ AllSound(acc.hold)
     /\ Then(f, Means(acc.out, f), Means(acc.hold, f)) = d

\* A list of one statement does what the statement does.
LEMMA MeansOne ==
  ASSUME NEW k, Sound(k), NEW f
  PROVE  AllSound(<<k>>) /\ Means(<<k>>, f) = Does(k)
<1>1. Longer(<<k>>, <<>>, k) /\ Len(<<>>) \in Nat
  BY DEF Longer
<1>2. AllSound(<<>>) /\ Means(<<>>, f) = Same
  BY MeansEmpty
<1>3. Extends(f, <<k>>, <<>>, k)
  BY <1>1, <1>2, MeansLonger, Zenon
<1>4. Then(f, Same, Does(k)) = Does(k)
  BY DoesType, ThenSame
<1> QED
  BY <1>2, <1>3, <1>4, Zenon DEF Extends

\* Appending a sound statement composes what it does.
LEMMA MeansAppend ==
  ASSUME NEW list \in Seq(Lowered), AllSound(list), NEW s, Sound(s), NEW f
  PROVE  Extends(f, Append(list, s), list, s) /\ Append(list, s) \in Seq(Lowered)
<1>1. s \in Lowered
  BY Zenon DEF Sound
<1>2. Longer(Append(list, s), list, s) /\ Append(list, s) \in Seq(Lowered) /\ Len(list) \in Nat
  BY <1>1, AppendLonger, Zenon
<1> QED
  BY <1>2, MeansLonger, Zenon

\* A sequence of sound statements is a map of memories.
LEMMA MeansOfSeq ==
  ASSUME NEW list \in Seq(Lowered), AllSound(list), NEW f
  PROVE  Means(list, f) \in Maps
  BY SeqParts, MeansType, Zenon

\* Holding a kernel back keeps what the list does.
LEMMA HeldMeans ==
  ASSUME NEW list \in Seq(Lowered), AllSound(list), NEW o, Sound(o), NEW f
  PROVE  Kept(Held(list, o), Then(f, Means(list, f), Does(o)), f)
<1>1. PICK M \in Maps, d \in Maps : M = Means(list, f) /\ d = Does(o)
  BY MeansOfSeq, DoesType, Zenon
<1>2. CASE o.kind = "kernel"
  <2>1. Held(list, o).out = list /\ Held(list, o).hold = <<o>>
    BY <1>2 DEF Held
  <2>2. AllSound(<<o>>) /\ Means(<<o>>, f) = d
    BY <1>1, MeansOne
  <2> QED
    BY <1>1, <2>1, <2>2, Zenon DEF Kept
<1>3. CASE o.kind # "kernel"
  <2>1. Held(list, o).out = Append(list, o) /\ Held(list, o).hold = <<>>
    BY <1>3 DEF Held
  <2>2. AllSound(<<>>) /\ Means(<<>>, f) = Same
    BY MeansEmpty
  <2>3. AllSound(Append(list, o)) /\ Means(Append(list, o), f) = Then(f, M, d)
    BY <1>1, MeansAppend, Zenon DEF Extends
  <2>4. Then(f, Then(f, M, d), Same) = Then(f, M, d)
    BY ThenType, ThenSame
  <2> QED
    BY <1>1, <2>1, <2>2, <2>3, <2>4, Zenon DEF Kept
<1> QED
  BY <1>2, <1>3, Zenon

\* Placing a statement adds what it does.
LEMMA PlaceMeans ==
  ASSUME NEW acc \in Accs, NEW o, Sound(o), NEW f, NEW d, Kept(acc, d, f)
  PROVE  Kept(Place(acc, o, f), Then(f, d, Does(o)), f)
<1>0. acc.out \in Seq(Lowered) /\ acc.hold \in Holds /\ o \in Lowered
  BY DEF Accs, Sound
<1>1. CASE HasAbort(acc.out)
  BY <1>0, <1>1, PlaceAborts, Zenon DEF Kept
<1>2. CASE ~HasAbort(acc.out)
  <2>1. AllSound(acc.out) /\ AllSound(acc.hold) /\ Then(f, Means(acc.out, f), Means(acc.hold, f)) = d
    BY <1>2, Zenon DEF Kept
  <2>2. PICK M \in Maps, e \in Maps : M = Means(acc.out, f) /\ e = Does(o)
    BY <1>0, <2>1, MeansOfSeq, DoesType, Zenon
  <2>3. CASE acc.hold = <<>>
    <3>1. Place(acc, o, f) = Held(acc.out, o)
      BY <2>3, PlaceCases, Zenon
    <3>2. Means(acc.hold, f) = Same
      BY <2>3, MeansEmpty
    <3>3. d = M
      BY <2>1, <2>2, <3>2, ThenSame
    <3>4. Kept(Held(acc.out, o), Then(f, M, e), f)
      BY <1>0, <2>1, <2>2, HeldMeans, Zenon
    <3> QED
      BY <2>2, <3>1, <3>3, <3>4, Zenon
  <2>4. CASE acc.hold # <<>>
    <3>1. PICK k \in GoodKernels : acc.hold = <<k>>
      BY <1>0, <2>4, Zenon DEF Holds
    <3>2. Sound(k) /\ k.kind = "kernel" /\ k \in Lowered
      <4>1. 1 \in 1..Len(acc.hold) /\ acc.hold[1] = k
        BY <3>1
      <4>2. Sound(k)
        BY <2>1, <4>1, Zenon DEF AllSound
      <4>3. k.kind = "kernel"
        BY DEF GoodKernels, Kernels
      <4> QED
        BY <4>2, <4>3, Zenon DEF Lowered
    <3>3. PICK c \in Maps : c = Does(k)
      BY <3>2, DoesType, Zenon
    <3>4. Means(<<k>>, f) = c /\ AllSound(<<k>>)
      BY <3>2, <3>3, MeansOne
    <3>5. d = Then(f, M, c) /\ d \in Maps
      BY <2>1, <2>2, <3>1, <3>4, ThenType, Zenon
    <3>6. IsAssoc(f, M, c, e) /\ IsAssoc(f, M, e, c)
      BY ThenAssoc, Zenon
    <3>7. CASE Conflict(k, o) \/ (o.kind = "kernel" /\ ~SameSharding(k, o))
      <4>1. Place(acc, o, f) = Held(Append(acc.out, k), o)
        BY <3>1, <3>7, PlaceCases, ZenonT(60)
      <4>2. Extends(f, Append(acc.out, k), acc.out, k) /\ Append(acc.out, k) \in Seq(Lowered)
        BY <1>0, <2>1, <3>2, MeansAppend, Zenon
      <4>3. PICK l : l = Append(acc.out, k)
        OBVIOUS
      <4>4. l \in Seq(Lowered) /\ AllSound(l) /\ Means(l, f) = d
        BY <2>2, <3>3, <3>5, <4>2, <4>3, Zenon DEF Extends
      <4>5. Kept(Held(l, o), Then(f, d, e), f)
        BY <2>2, <4>4, HeldMeans, Zenon
      <4> QED
        BY <2>2, <4>1, <4>3, <4>5, Zenon
    <3>8. CASE ~Conflict(k, o) /\ o.kind # "kernel"
      <4>1. Place(acc, o, f).out = Append(acc.out, o) /\ Place(acc, o, f).hold = <<k>>
        BY <3>1, <3>8, PlaceCases
      <4>2. AllSound(Append(acc.out, o)) /\ Means(Append(acc.out, o), f) = Then(f, M, e)
        BY <1>0, <2>1, <2>2, MeansAppend, Zenon DEF Extends
      <4>3. Apart(Code(k), Code(o))
        BY <3>2, <3>8, ConflictApart, Zenon
      <4>4. Then(f, c, e) = Then(f, e, c)
        BY <2>2, <3>2, <3>3, <4>3, DoesSwaps
      <4>5. Then(f, Then(f, M, e), c) = Then(f, d, e)
        BY <3>5, <3>6, <4>4, Zenon DEF IsAssoc
      <4> QED
        BY <2>2, <3>4, <4>1, <4>2, <4>5, Zenon DEF Kept
    <3>9. CASE ~Conflict(k, o) /\ o.kind = "kernel" /\ SameSharding(k, o)
      <4>1. Place(acc, o, f).out = Append(acc.out, Fused(k, o, f)) /\ Place(acc, o, f).hold = <<>>
        BY <3>1, <3>9, PlaceCases
      <4>2. CASE Len(k.dims) > 1
        <5>1. Fused(k, o, f).kind = "abort"
          BY <4>2 DEF Fused
        <5>2. Fused(k, o, f) \in Lowered
          BY <4>2 DEF Fused, Lowered, Aborts
        <5>3. HasAbort(Append(acc.out, Fused(k, o, f)))
          BY <1>0, <5>1, <5>2, AppendLonger, AbortLonger, Zenon
        <5> QED
          BY <4>1, <5>3, Zenon DEF Kept
      <4>3. CASE ~(Len(k.dims) > 1)
        <5>1. PICK u : u = Fused(k, o, f)
          OBVIOUS
        <5>2. Joins(f, u, k, o)
          BY <3>2, <3>9, <4>3, <5>1, FusedDoes, Zenon
        <5>3. Sound(u) /\ Does(u) = Then(f, c, e)
          BY <2>2, <3>3, <5>2, Zenon DEF Joins
        <5>4. AllSound(Append(acc.out, u)) /\ Means(Append(acc.out, u), f) = Then(f, M, Then(f, c, e))
          BY <1>0, <2>1, <2>2, <5>3, MeansAppend, ZenonT(60) DEF Extends
        <5>5. Then(f, M, Then(f, c, e)) = Then(f, d, e)
          BY <3>5, <3>6, Zenon DEF IsAssoc
        <5>6. Then(f, Then(f, d, e), Same) = Then(f, d, e)
          BY <3>5, ThenType, ThenSame
        <5>7. AllSound(<<>>) /\ Means(<<>>, f) = Same
          BY MeansEmpty
        <5> QED
          BY <2>2, <4>1, <5>1, <5>4, <5>5, <5>6, <5>7, Zenon DEF Kept
      <4> QED
        BY <4>2, <4>3, Zenon
    <3> QED
      BY <3>7, <3>8, <3>9, Zenon
  <2> QED
    BY <2>3, <2>4, Zenon
<1> QED
  BY <1>1, <1>2, Zenon

\* The walk over n statements, one after the other.
Walks(g, n, walk, f) ==
  /\ g[0] = [out |-> <<>>, hold |-> <<>>] /\ g[n] = Walked(walk, f)
  /\ \A i \in 0..n : g[i] \in Accs
  /\ \A i \in 0..(n - 1) : g[i + 1] = Place(g[i], walk[i + 1], f)

\* The states of the walk, statement by statement.
LEMMA WalkedIs ==
  ASSUME NEW walk \in Seq(Lowered), NEW n \in Nat, n + 1 = Len(walk), NEW f
  PROVE  \E g : Walks(g, n, walk, f)
<1>0. \A i \in 1..(n + 1) : walk[i] \in Lowered
  BY SeqParts, Zenon
<1>1. PICK g : g = (CHOOSE h : IsWalk(h, walk, f, n))
  OBVIOUS
<1>2. IsWalk(g, walk, f, n)
  BY <1>1, WalkExists, Zenon
<1>3. Walked(walk, f) = g[n]
  <2>1. n = Len(walk) - 1
    BY SeqParts
  <2> QED
    BY <1>1, <2>1 DEF Walked, IsWalk
<1>4. g[0] = [out |-> <<>>, hold |-> <<>>]
  BY <1>2 DEF IsWalk
<1>5. ASSUME NEW i \in 0..(n - 1) PROVE g[i + 1] = Place(g[i], walk[i + 1], f)
  <2>1. i + 1 \in 0..n /\ i + 1 # 0 /\ (i + 1) - 1 = i
    OBVIOUS
  <2> QED
    BY <1>2, <2>1 DEF IsWalk
<1> DEFINE S == {i \in 0..n : g[i] \in Accs}
<1>6. 0 \in S
  <2>1. <<>> \in Seq(Lowered) /\ <<>> \in Holds
    BY EmptySeq, Zenon DEF Holds
  <2>2. [out |-> <<>>, hold |-> <<>>] \in Accs
    BY <2>1 DEF Accs
  <2> QED
    BY <1>4, <2>2, SelfBound, Zenon
<1>7. ASSUME NEW i \in 0..(n - 1), i \in S PROVE i + 1 \in S
  <2>1. i + 1 \in 0..n /\ i + 1 \in 1..(n + 1)
    OBVIOUS
  <2>2. g[i + 1] \in Accs
    BY <1>0, <1>5, <1>7, <2>1, PlaceType, Zenon
  <2> QED
    BY <2>1, <2>2, Zenon
<1>8. \A i \in 0..n : i \in S
  <2> HIDE DEF S
  <2> QED
    BY <1>6, <1>7, InductionUpTo, Zenon
<1>9. Walks(g, n, walk, f)
  BY <1>3, <1>4, <1>5, <1>8, Zenon DEF Walks
<1> QED
  BY <1>9, Zenon

\* A walk over a statement that aborts has it among the placed.
LEMMA WalkedAborts ==
  ASSUME NEW walk \in Seq(Lowered), NEW n \in Nat, n + 1 = Len(walk), NEW f,
         NEW j \in 1..n, walk[j].kind = "abort"
  PROVE  HasAbort(Walked(walk, f).out)
<1>0. \A i \in 1..(n + 1) : walk[i] \in Lowered
  BY SeqParts, Zenon
<1>1. PICK g : Walks(g, n, walk, f)
  BY WalkedIs, Zenon
<1> DEFINE S == {i \in 0..n : i >= j => HasAbort(g[i].out)}
<1>2. 0 \in S
  OBVIOUS
<1>3. ASSUME NEW i \in 0..(n - 1), i \in S PROVE i + 1 \in S
  <2>1. i + 1 \in 0..n /\ i + 1 \in 1..(n + 1) /\ i \in 0..n
    OBVIOUS
  <2>2. CASE i + 1 >= j
    <3>1. HasAbort(g[i].out) \/ walk[i + 1].kind = "abort"
      <4>1. CASE i >= j
        BY <1>3, <4>1
      <4>2. CASE ~(i >= j)
        <5>1. i + 1 = j
          BY <2>2, <4>2
        <5> QED
          BY <5>1
      <4> QED
        BY <4>1, <4>2
    <3>2. HasAbort(g[i + 1].out)
      BY <1>0, <1>1, <2>1, <3>1, PlaceAborts, Zenon DEF Walks
    <3> QED
      BY <2>1, <3>2, Zenon
  <2>3. CASE ~(i + 1 >= j)
    BY <2>1, <2>3, Zenon
  <2> QED
    BY <2>2, <2>3, Zenon
<1>4. n \in S
  <2> HIDE DEF S
  <2> QED
    BY <1>2, <1>3, InductionUpTo, SelfBound, Zenon
<1>5. HasAbort(g[n].out)
  BY <1>4
<1> QED
  BY <1>1, <1>5, Zenon DEF Walks

\* A walk leaves statements that do what the statements walked over did.
LEMMA WalkedMeans ==
  ASSUME NEW walk \in Seq(Lowered), NEW n \in Nat, n + 1 = Len(walk), NEW f, AllSound(walk)
  PROVE  Kept(Walked(walk, f), Chain(walk, f)[n], f)
<1>1. PICK g : Walks(g, n, walk, f)
  BY WalkedIs, Zenon
<1>2. PICK h : h = Chain(walk, f)
  OBVIOUS
<1>3. Chains(h, walk, f)
  BY <1>2, SeqParts, ChainIs, Zenon
<1> DEFINE S == {i \in 0..n : Kept(g[i], h[i], f)}
<1>4. 0 \in S
  <2>1. g[0].out = <<>> /\ g[0].hold = <<>>
    BY <1>1 DEF Walks
  <2>2. AllSound(<<>>) /\ Means(<<>>, f) = Same
    BY MeansEmpty
  <2>3. Then(f, Same, Same) = Same
    <3>1. Same \in Maps
      BY Zenon DEF Same, Maps
    <3> QED
      BY <3>1, ThenSame
  <2>4. h[0] = Same
    BY <1>3, Zenon DEF Chains
  <2>5. Kept(g[0], h[0], f)
    BY <2>1, <2>2, <2>3, <2>4, Zenon DEF Kept
  <2> QED
    BY <2>5, SelfBound, Zenon
<1>5. ASSUME NEW i \in 0..(n - 1), i \in S PROVE i + 1 \in S
  <2>1. i + 1 \in 0..n /\ i + 1 \in 1..(n + 1) /\ i \in 0..n /\ i \in 0..((n + 1) - 1)
    OBVIOUS
  <2>2. g[i + 1] = Place(g[i], walk[i + 1], f) /\ g[i] \in Accs
    BY <1>1, <2>1, Zenon DEF Walks
  <2>3. h[i + 1] = Then(f, h[i], Does(walk[i + 1]))
    BY <1>3, <2>1, Zenon DEF Chains
  <2>4. Sound(walk[i + 1])
    BY <2>1, Zenon DEF AllSound
  <2>5. Kept(g[i + 1], h[i + 1], f)
    BY <1>5, <2>2, <2>3, <2>4, PlaceMeans, Zenon
  <2> QED
    BY <2>1, <2>5, Zenon
<1>6. n \in S
  <2> HIDE DEF S
  <2> QED
    BY <1>4, <1>5, InductionUpTo, SelfBound, Zenon
<1> QED
  BY <1>1, <1>2, <1>6, Zenon DEF Walks

\* The statements a walk leaves: those placed, the one held, and the last.
Result(walk, f) == Walked(walk, f).out \o Walked(walk, f).hold \o <<Last(walk)>>

\* Concatenating one element is appending it.
LEMMA ConcatOne ==
  ASSUME NEW S, NEW q \in Seq(S), NEW e \in S
  PROVE  q \o <<e>> = Append(q, e)
  OBVIOUS

\* Concatenating nothing.
LEMMA ConcatNone ==
  ASSUME NEW S, NEW q \in Seq(S)
  PROVE  q \o <<>> = q
  OBVIOUS

\* What a walk leaves, as a list that grows.
LEMMA ResultIs ==
  ASSUME NEW walk \in Seq(Lowered), NEW n \in Nat, n + 1 = Len(walk), NEW f
  PROVE  LET acc == Walked(walk, f) IN
         /\ acc \in Accs /\ walk[n + 1] \in Lowered
         /\ acc.hold = <<>> => Result(walk, f) = Append(acc.out, walk[n + 1])
         /\ \A k : acc.hold = <<k>> => Result(walk, f) = Append(Append(acc.out, k), walk[n + 1])
<1>1. PICK g : Walks(g, n, walk, f)
  BY WalkedIs, Zenon
<1>2. PICK acc : acc = Walked(walk, f)
  OBVIOUS
<1>3. acc \in Accs
  BY <1>1, <1>2, SelfBound, Zenon DEF Walks
<1>4. n + 1 \in 1..(n + 1)
  OBVIOUS
<1>5. walk[n + 1] \in Lowered /\ Last(walk) = walk[n + 1]
  BY <1>4, SeqParts, Zenon DEF Last
<1>6. acc.out \in Seq(Lowered) /\ acc.hold \in Holds
  BY <1>3 DEF Accs
<1>7. Result(walk, f) = acc.out \o acc.hold \o <<walk[n + 1]>>
  BY <1>2, <1>5, Zenon DEF Result
<1>8. ASSUME acc.hold = <<>> PROVE Result(walk, f) = Append(acc.out, walk[n + 1])
  <2>1. acc.out \o acc.hold = acc.out
    BY <1>6, <1>8, ConcatNone
  <2>2. acc.out \o <<walk[n + 1]>> = Append(acc.out, walk[n + 1])
    BY <1>5, <1>6, ConcatOne
  <2> QED
    BY <1>7, <2>1, <2>2, Zenon
<1>9. ASSUME NEW k, acc.hold = <<k>> PROVE Result(walk, f) = Append(Append(acc.out, k), walk[n + 1])
  <2>1. k \in GoodKernels
    <3>1. acc.hold # <<>>
      BY <1>9
    <3>2. PICK e \in GoodKernels : acc.hold = <<e>>
      BY <1>6, <3>1, Zenon DEF Holds
    <3>3. k = e
      BY <1>9, <3>2
    <3> QED
      BY <3>3
  <2>2. k \in Lowered
    BY <2>1, Zenon DEF Lowered
  <2>3. acc.out \o acc.hold = Append(acc.out, k)
    BY <1>6, <1>9, <2>2, ConcatOne
  <2>4. PICK l \in Seq(Lowered) : l = Append(acc.out, k)
    BY <1>6, <2>2, AppendLonger, Zenon
  <2>5. l \o <<walk[n + 1]>> = Append(l, walk[n + 1])
    BY <1>5, ConcatOne
  <2> QED
    BY <1>7, <2>3, <2>4, <2>5, Zenon
<1> QED
  BY <1>2, <1>3, <1>5, <1>8, <1>9, Zenon

\* A list whose first n statements and last statement are known.
LEMMA MeansLast ==
  ASSUME NEW walk \in Seq(Lowered), NEW n \in Nat, n + 1 = Len(walk), NEW f, AllSound(walk)
  PROVE  Means(walk, f) = Then(f, Chain(walk, f)[n], Does(walk[n + 1])) /\ Sound(walk[n + 1])
<1>1. PICK h : h = Chain(walk, f)
  OBVIOUS
<1>2. Chains(h, walk, f)
  BY <1>1, SeqParts, ChainIs, Zenon
<1>3. n \in 0..((n + 1) - 1) /\ n + 1 \in 1..(n + 1)
  OBVIOUS
<1>4. h[n + 1] = Then(f, h[n], Does(walk[n + 1]))
  BY <1>2, <1>3, Zenon DEF Chains
<1>5. Sound(walk[n + 1])
  BY <1>3, Zenon DEF AllSound
<1> QED
  BY <1>1, <1>4, <1>5, Zenon DEF Means

\* What a walk leaves does what the list did, unless the compiler aborts.
SameMeaning(l, list, f) == HasAbort(l) \/ (AllSound(l) /\ Means(l, f) = Means(list, f))

\* A walk keeps what the list does, unless it aborts.
LEMMA ResultMeans ==
  ASSUME NEW walk \in Seq(Lowered), NEW n \in Nat, n + 1 = Len(walk), NEW f, AllSound(walk)
  PROVE  SameMeaning(Result(walk, f), walk, f)
<1>1. PICK acc, o, d, e : acc = Walked(walk, f) /\ o = walk[n + 1] /\ d = Chain(walk, f)[n] /\ e = Does(o)
  OBVIOUS
<1>2. Kept(acc, d, f)
  BY <1>1, WalkedMeans, Zenon
<1>3. Means(walk, f) = Then(f, d, e) /\ Sound(o)
  BY <1>1, MeansLast
<1>4. /\ acc \in Accs /\ o \in Lowered
      /\ acc.hold = <<>> => Result(walk, f) = Append(acc.out, o)
      /\ \A k : acc.hold = <<k>> => Result(walk, f) = Append(Append(acc.out, k), o)
  BY <1>1, ResultIs, Zenon
<1>5. acc.out \in Seq(Lowered) /\ acc.hold \in Holds
  BY <1>4 DEF Accs
<1>6. ASSUME NEW list \in Seq(Lowered), NEW s \in Lowered, HasAbort(list)
      PROVE  HasAbort(Append(list, s)) /\ Append(list, s) \in Seq(Lowered)
  BY <1>6, AppendLonger, AbortLonger, Zenon
<1>7. CASE acc.hold = <<>>
  <2>1. Result(walk, f) = Append(acc.out, o)
    BY <1>4, <1>7, Zenon
  <2>2. CASE HasAbort(acc.out)
    BY <1>4, <1>5, <1>6, <2>1, <2>2, Zenon DEF SameMeaning
  <2>3. CASE ~HasAbort(acc.out)
    <3>1. AllSound(acc.out) /\ Then(f, Means(acc.out, f), Means(acc.hold, f)) = d
      BY <1>2, <2>3, Zenon DEF Kept
    <3>2. PICK M \in Maps : M = Means(acc.out, f)
      BY <1>5, <3>1, MeansOfSeq, Zenon
    <3>3. Means(acc.hold, f) = Same
      BY <1>7, MeansEmpty
    <3>4. d = M
      BY <3>1, <3>2, <3>3, ThenSame
    <3>5. Extends(f, Append(acc.out, o), acc.out, o)
      BY <1>3, <1>5, <3>1, MeansAppend, Zenon
    <3> QED
      BY <1>1, <1>3, <2>1, <3>2, <3>4, <3>5, Zenon DEF Extends, SameMeaning
  <2> QED
    BY <2>2, <2>3, Zenon
<1>8. CASE acc.hold # <<>>
  <2>1. PICK k \in GoodKernels : acc.hold = <<k>>
    BY <1>5, <1>8, Zenon DEF Holds
  <2>2. PICK l : l = Append(acc.out, k)
    OBVIOUS
  <2>3. Result(walk, f) = Append(l, o) /\ k \in Lowered
    BY <1>4, <2>1, <2>2, Zenon DEF Lowered
  <2>4. CASE HasAbort(acc.out)
    <3>1. HasAbort(l) /\ l \in Seq(Lowered)
      BY <1>5, <1>6, <2>2, <2>3, <2>4, Zenon
    <3>2. HasAbort(Append(l, o))
      BY <1>4, <1>6, <3>1, Zenon
    <3> QED
      BY <2>3, <3>2, Zenon DEF SameMeaning
  <2>5. CASE ~HasAbort(acc.out)
    <3>1. AllSound(acc.out) /\ AllSound(<<k>>) /\ Then(f, Means(acc.out, f), Means(<<k>>, f)) = d
      BY <1>2, <2>1, <2>5, Zenon DEF Kept
    <3>2. Sound(k)
      <4>1. 1 \in 1..Len(<<k>>) /\ <<k>>[1] = k
        OBVIOUS
      <4> QED
        BY <3>1, <4>1, Zenon DEF AllSound
    <3>3. Means(<<k>>, f) = Does(k)
      BY <3>2, MeansOne
    <3>4. Extends(f, l, acc.out, k) /\ l \in Seq(Lowered)
      BY <1>5, <2>2, <3>1, <3>2, MeansAppend, Zenon
    <3>5. AllSound(l) /\ Means(l, f) = d
      BY <3>1, <3>3, <3>4, Zenon DEF Extends
    <3>6. Extends(f, Append(l, o), l, o)
      BY <1>3, <3>4, <3>5, MeansAppend, Zenon
    <3> QED
      BY <1>1, <1>3, <2>3, <3>5, <3>6, Zenon DEF Extends, SameMeaning
  <2> QED
    BY <2>4, <2>5, Zenon
<1> QED
  BY <1>7, <1>8, Zenon

\* A walk over a list that aborts leaves one that aborts.
LEMMA ResultAborts ==
  ASSUME NEW walk \in Seq(Lowered), NEW n \in Nat, n + 1 = Len(walk), NEW f, HasAbort(walk)
  PROVE  HasAbort(Result(walk, f))
<1>1. PICK acc, o : acc = Walked(walk, f) /\ o = walk[n + 1]
  OBVIOUS
<1>2. /\ acc \in Accs /\ o \in Lowered
      /\ acc.hold = <<>> => Result(walk, f) = Append(acc.out, o)
      /\ \A k : acc.hold = <<k>> => Result(walk, f) = Append(Append(acc.out, k), o)
  BY <1>1, ResultIs, Zenon
<1>3. acc.out \in Seq(Lowered) /\ acc.hold \in Holds
  BY <1>2 DEF Accs
<1>4. HasAbort(acc.out) \/ o.kind = "abort"
  <2>1. PICK j \in 1..(n + 1) : walk[j].kind = "abort"
    BY Zenon DEF HasAbort
  <2>2. j \in 1..n \/ j = n + 1
    OBVIOUS
  <2>3. CASE j \in 1..n
    BY <1>1, <2>1, <2>3, WalkedAborts, Zenon
  <2>4. CASE j = n + 1
    BY <1>1, <2>1, <2>4, Zenon
  <2> QED
    BY <2>2, <2>3, <2>4, Zenon
<1>5. ASSUME NEW list \in Seq(Lowered), NEW s \in Lowered, HasAbort(list) \/ s.kind = "abort"
      PROVE  HasAbort(Append(list, s))
  BY <1>5, AppendLonger, AbortLonger, Zenon
<1>6. CASE acc.hold = <<>>
  BY <1>2, <1>3, <1>4, <1>5, <1>6, Zenon
<1>7. CASE acc.hold # <<>>
  <2>1. PICK k \in GoodKernels : acc.hold = <<k>>
    BY <1>3, <1>7, Zenon DEF Holds
  <2>2. PICK l : l = Append(acc.out, k)
    OBVIOUS
  <2>3. Result(walk, f) = Append(l, o) /\ k \in Lowered
    BY <1>2, <2>1, <2>2, Zenon DEF Lowered
  <2>4. l \in Seq(Lowered) /\ (HasAbort(l) \/ o.kind = "abort")
    BY <1>3, <1>4, <1>5, <2>2, <2>3, AppendLonger, Zenon
  <2> QED
    BY <1>2, <1>5, <2>3, <2>4, Zenon
<1> QED
  BY <1>6, <1>7, Zenon

\* A walk leaves lowered statements.
LEMMA ResultType ==
  ASSUME NEW walk \in Seq(Lowered), NEW n \in Nat, n + 1 = Len(walk), NEW f
  PROVE  Result(walk, f) \in Seq(Lowered)
<1>1. PICK acc, o : acc = Walked(walk, f) /\ o = walk[n + 1]
  OBVIOUS
<1>2. /\ acc \in Accs /\ o \in Lowered
      /\ acc.hold = <<>> => Result(walk, f) = Append(acc.out, o)
      /\ \A k : acc.hold = <<k>> => Result(walk, f) = Append(Append(acc.out, k), o)
  BY <1>1, ResultIs, Zenon
<1>3. acc.out \in Seq(Lowered) /\ acc.hold \in Holds
  BY <1>2 DEF Accs
<1>4. CASE acc.hold = <<>>
  BY <1>2, <1>3, <1>4, AppendLonger, Zenon
<1>5. CASE acc.hold # <<>>
  <2>1. PICK k \in GoodKernels : acc.hold = <<k>>
    BY <1>3, <1>5, Zenon DEF Holds
  <2>2. PICK l : l = Append(acc.out, k)
    OBVIOUS
  <2>3. Result(walk, f) = Append(l, o) /\ k \in Lowered
    BY <1>2, <2>1, <2>2, Zenon DEF Lowered
  <2>4. l \in Seq(Lowered)
    BY <1>3, <2>2, <2>3, AppendLonger, Zenon
  <2> QED
    BY <1>2, <2>3, <2>4, AppendLonger, Zenon
<1> QED
  BY <1>4, <1>5, Zenon

\* A list that is not empty has one element more than some number.
LEMMA OneMore ==
  ASSUME NEW S, NEW list \in Seq(S), list # <<>>
  PROVE  \E n \in Nat : n + 1 = Len(list)
<1>1. Len(list) \in Nat \ {0}
  BY EmptySeq, Zenon
<1>2. Len(list) - 1 \in Nat /\ (Len(list) - 1) + 1 = Len(list)
  BY <1>1
<1> QED
  BY <1>2

\* Downwards and upwards, moving and fusing kernels keeps what a list does.
LEMMA SwapDown ==
  ASSUME NEW list \in Seq(Lowered), list # <<>>, AllSound(list)
  PROVE  SameMeaning(SwapKernels(list, TRUE), list, TRUE)
<1>1. PICK n \in Nat : n + 1 = Len(list)
  BY OneMore, Zenon
<1>2. SwapKernels(list, TRUE) = Result(list, TRUE)
  BY Zenon DEF SwapKernels, Result
<1>3. SameMeaning(Result(list, TRUE), list, TRUE)
  BY <1>1, ResultMeans, Zenon
<1> QED
  BY <1>2, <1>3, Zenon

\* Moving kernels up keeps what the list does, and aborts.
LEMMA SwapUp ==
  ASSUME NEW list \in Seq(Lowered), list # <<>>
  PROVE  /\ HasAbort(list) => HasAbort(SwapKernels(list, FALSE))
         /\ AllSound(list) => SameMeaning(SwapKernels(list, FALSE), list, TRUE)
<1>1. PICK walk : walk = Reverse(list)
  OBVIOUS
<1>2. walk \in Seq(Lowered) /\ walk # <<>> /\ Turned(walk, list)
  BY <1>1, ReverseType, ReverseTurned, Zenon
<1>3. PICK n \in Nat : n + 1 = Len(walk)
  BY <1>2, OneMore, Zenon
<1>4. PICK res : res = Result(walk, FALSE)
  OBVIOUS
<1>5. res \in Seq(Lowered)
  BY <1>2, <1>3, <1>4, ResultType, Zenon
<1>6. SwapKernels(list, FALSE) = Reverse(res)
  BY <1>1, <1>4, Zenon DEF SwapKernels, Result
<1>7. Turned(Reverse(res), res) /\ Len(res) \in Nat /\ Len(list) \in Nat
  BY <1>5, ReverseTurned, SeqParts, Zenon
<1>8. ASSUME HasAbort(list) PROVE HasAbort(SwapKernels(list, FALSE))
  <2>1. HasAbort(walk)
    BY <1>2, <1>7, <1>8, TurnedSound, Zenon
  <2>2. HasAbort(res)
    BY <1>2, <1>3, <1>4, <2>1, ResultAborts, Zenon
  <2> QED
    BY <1>6, <1>7, <2>2, TurnedSound, Zenon
<1>9. ASSUME AllSound(list) PROVE SameMeaning(SwapKernels(list, FALSE), list, TRUE)
  <2>1. AllSound(walk)
    BY <1>2, <1>7, <1>9, TurnedSound, Zenon
  <2>2. SameMeaning(res, walk, FALSE)
    BY <1>2, <1>3, <1>4, <2>1, ResultMeans, Zenon
  <2>3. CASE HasAbort(res)
    BY <1>6, <1>7, <2>3, TurnedSound, Zenon DEF SameMeaning
  <2>4. CASE AllSound(res) /\ Means(res, FALSE) = Means(walk, FALSE)
    <3>1. (~FALSE) = TRUE /\ (~TRUE) = FALSE
      OBVIOUS
    <3>2. Means(Reverse(res), ~FALSE) = Means(res, FALSE)
      BY <1>7, <2>4, MeansTurned
    <3>3. Means(walk, ~TRUE) = Means(list, TRUE)
      BY <1>2, <1>7, <1>9, MeansTurned
    <3>4. AllSound(Reverse(res))
      BY <1>7, <2>4, TurnedSound, Zenon
    <3>5. Means(Reverse(res), TRUE) = Means(list, TRUE)
      BY <2>4, <3>1, <3>2, <3>3, Zenon
    <3> QED
      BY <1>6, <3>4, <3>5, Zenon DEF SameMeaning
  <2> QED
    BY <2>2, <2>3, <2>4, Zenon DEF SameMeaning
<1> QED
  BY <1>8, <1>9, Zenon

\* Both walks keep what a list does.
LEMMA FuseAllMeans ==
  ASSUME NEW list \in Seq(Lowered), list # <<>>, AllSound(list)
  PROVE  SameMeaning(FuseAll(list), list, TRUE)
<1>1. PICK down : down = SwapKernels(list, TRUE)
  OBVIOUS
<1>2. down \in Seq(Lowered) /\ down # <<>>
  BY <1>1, SwapType, Zenon
<1>3. FuseAll(list) = SwapKernels(down, FALSE)
  BY <1>1, Zenon DEF FuseAll
<1>4. SameMeaning(down, list, TRUE)
  BY <1>1, SwapDown, Zenon
<1>5. CASE HasAbort(down)
  BY <1>2, <1>3, <1>5, SwapUp, Zenon DEF SameMeaning
<1>6. CASE AllSound(down) /\ Means(down, TRUE) = Means(list, TRUE)
  <2>1. SameMeaning(SwapKernels(down, FALSE), down, TRUE)
    BY <1>2, <1>6, SwapUp, Zenon
  <2> QED
    BY <1>3, <1>6, <2>1, Zenon DEF SameMeaning
<1> QED
  BY <1>4, <1>5, <1>6, Zenon DEF SameMeaning

-------------------------------------------------------------------------------
(* What the first passes make of a loop.                                   *)

\* An atom of a kernel and the atom of the loop it was made from.
From(b, a) == SameRun(a, b) /\ (b.op = "self" => a.op = "self" /\ a.at # "one")

\* The atoms of a body, made from others in order, all guarded or none.
MadeFrom(bs, as, once) == Len(bs) = Len(as) /\ \A j \in 1..Len(as) : From(bs[j], as[j]) /\ bs[j].once = once

\* A body in three parts.
Parts(B, P, I, Q) ==
  /\ B \in Seq(Atoms) /\ P \in Seq(Atoms) /\ I \in Seq(Atoms) /\ Q \in Seq(Atoms)
  /\ Len(B) = Len(P) + Len(I) + Len(Q)
  /\ \A j \in 1..Len(P) : B[j] = P[j]
  /\ \A j \in 1..Len(I) : B[Len(P) + j] = I[j]
  /\ \A j \in 1..Len(Q) : B[Len(P) + Len(I) + j] = Q[j]

\* A concatenation of three has the three as its parts.
LEMMA PartsAre ==
  ASSUME NEW P \in Seq(Atoms), NEW I \in Seq(Atoms), NEW Q \in Seq(Atoms)
  PROVE  Parts(P \o I \o Q, P, I, Q)
<1>1. PICK E : E = P \o I
  OBVIOUS
<1>2. IsConcat(E, P, I)
  BY <1>1, ConcatIs, Zenon
<1>3. E \in Seq(Atoms) /\ Len(E) = Len(P) + Len(I) /\ (\A j \in 1..Len(P) : E[j] = P[j])
      /\ (\A j \in 1..Len(I) : E[Len(P) + j] = I[j])
  BY <1>2, Zenon DEF IsConcat
<1>4. PICK B : B = E \o Q
  OBVIOUS
<1>5. IsConcat(B, E, Q)
  BY <1>3, <1>4, ConcatIs, Zenon
<1>6. PICK k \in Nat, l \in Nat, n \in Nat : k = Len(P) /\ l = Len(I) /\ n = Len(Q)
  BY SeqParts, Zenon
<1>7. B \in Seq(Atoms) /\ Len(B) = k + l + n /\ (\A j \in 1..(k + l) : B[j] = E[j])
      /\ \A j \in 1..n : B[k + l + j] = Q[j]
  BY <1>3, <1>5, <1>6, Zenon DEF IsConcat
<1>8. ASSUME NEW j \in 1..k PROVE B[j] = P[j]
  <2>1. j \in 1..(k + l)
    OBVIOUS
  <2> QED
    BY <1>3, <1>6, <1>7, <2>1, Zenon
<1>9. ASSUME NEW j \in 1..l PROVE B[k + j] = I[j]
  <2>1. k + j \in 1..(k + l)
    OBVIOUS
  <2> QED
    BY <1>3, <1>6, <1>7, <2>1, Zenon
<1>10. Parts(B, P, I, Q)
  BY <1>6, <1>7, <1>8, <1>9, Zenon DEF Parts
<1> QED
  BY <1>1, <1>4, <1>10, Zenon

\* Every atom of a body is in one of its parts.
LEMMA PartsCases ==
  ASSUME NEW B, NEW P, NEW I, NEW Q, Parts(B, P, I, Q), NEW i \in 1..Len(B)
  PROVE  IsIn(B[i], P) \/ IsIn(B[i], I) \/ IsIn(B[i], Q)
<1>1. PICK k \in Nat, l \in Nat, n \in Nat : k = Len(P) /\ l = Len(I) /\ n = Len(Q)
  BY SeqParts, Zenon DEF Parts
<1>2. Len(B) = k + l + n
  BY <1>1, Zenon DEF Parts
<1>3. CASE i <= k
  <2>1. i \in 1..k
    BY <1>2, <1>3
  <2> QED
    BY <1>1, <2>1, Zenon DEF Parts, IsIn
<1>4. CASE ~(i <= k) /\ i <= k + l
  <2>1. PICK j \in 1..l : i = k + j
    <3>1. i - k \in 1..l /\ i = k + (i - k)
      BY <1>2, <1>4
    <3> QED
      BY <3>1
  <2> QED
    BY <1>1, <2>1, Zenon DEF Parts, IsIn
<1>5. CASE ~(i <= k + l)
  <2>1. PICK j \in 1..n : i = k + l + j
    <3>1. i - (k + l) \in 1..n /\ i = k + l + (i - (k + l))
      BY <1>2, <1>5
    <3> QED
      BY <3>1
  <2> QED
    BY <1>1, <2>1, Zenon DEF Parts, IsIn
<1>6. i <= k \/ (~(i <= k) /\ i <= k + l) \/ ~(i <= k + l)
  OBVIOUS
<1> QED
  BY <1>3, <1>4, <1>5, <1>6, Zenon

\* The elements of the parts are in the range of the whole.
LEMMA PartsInRange ==
  ASSUME NEW B, NEW P, NEW I, NEW Q, Parts(B, P, I, Q)
  PROVE  /\ \A j \in 1..Len(P) : P[j] \in Range(B)
         /\ \A j \in 1..Len(I) : I[j] \in Range(B)
         /\ \A j \in 1..Len(Q) : Q[j] \in Range(B)
<1>1. PICK k \in Nat, l \in Nat, n \in Nat : k = Len(P) /\ l = Len(I) /\ n = Len(Q)
  BY SeqParts, Zenon DEF Parts
<1>2. DOMAIN B = 1..(k + l + n)
  BY <1>1, SeqParts, Zenon DEF Parts
<1>3. \A i \in 1..(k + l + n) : B[i] \in Range(B)
  BY <1>2, Zenon DEF Range
<1>4. ASSUME NEW j \in 1..k PROVE j \in 1..(k + l + n)
  OBVIOUS
<1>5. ASSUME NEW j \in 1..l PROVE k + j \in 1..(k + l + n)
  OBVIOUS
<1>6. ASSUME NEW j \in 1..n PROVE k + l + j \in 1..(k + l + n)
  OBVIOUS
<1>7. (\A j \in 1..k : B[j] = P[j]) /\ (\A j \in 1..l : B[k + j] = I[j]) /\ (\A j \in 1..n : B[k + l + j] = Q[j])
  BY <1>1, Zenon DEF Parts
<1>8. (\A j \in 1..k : P[j] \in Range(B)) /\ (\A j \in 1..l : I[j] \in Range(B)) /\ (\A j \in 1..n : Q[j] \in Range(B))
  BY <1>3, <1>4, <1>5, <1>6, <1>7, Zenon
<1> QED
  BY <1>1, <1>8, Zenon

\* What flattening at most one sequence of atoms leaves.
LEMMA FlattenValue ==
  ASSUME NEW q \in Seq(Seq(Atoms)), Len(q) <= 1
  PROVE  FlattenSeq(q) = IF q = <<>> THEN <<>> ELSE q[1]
<1>0. Len(q) \in Nat /\ DOMAIN q = 1..Len(q) /\ \A i \in DOMAIN q : q[i] \in Seq(Atoms)
  BY SeqParts, Zenon
<1>1. CASE Len(q) = 0
  <2>1. q = <<>>
    BY <1>1
  <2> QED
    BY <1>1, <2>1 DEF FlattenSeq
<1>2. CASE Len(q) = 1
  <2> DEFINE Is(f) == f = [i \in 1..Len(q) |-> IF i = 1 THEN q[i] ELSE f[i - 1] \o q[i]]
             g == [i \in 1..Len(q) |-> q[i]]
  <2>1. \A i \in 1..Len(q) : i = 1
    BY <1>2
  <2>2. Is(g)
    BY <2>1
  <2>3. Is(CHOOSE f : Is(f))
    BY <2>2, Zenon
  <2>4. FlattenSeq(q) = (CHOOSE f : Is(f))[Len(q)]
    BY <1>2 DEF FlattenSeq
  <2>5. PICK f : f = (CHOOSE h : Is(h))
    OBVIOUS
  <2>6. f[1] = q[1]
    BY <2>3, <2>5, <1>2
  <2>7. q # <<>>
    BY <1>2
  <2> QED
    BY <1>0, <1>2, <2>4, <2>5, <2>6, <2>7
<1> QED
  BY <1>0, <1>1, <1>2

\* The atoms of the loops inside are those of the loop inside.
LEMMA InnerBodies ==
  ASSUME NEW s \in NestedFors
  PROVE  /\ FlattenSeq([i \in DOMAIN s.inner |-> s.inner[i].body]) = InnerBody(s)
         /\ InnerBody(s) \in Seq(Atoms)
         /\ s.inner # <<>> => DOMAIN s.inner = {1} /\ s.inner[1].set \in DOMAIN SetLen /\ InnerBody(s) = s.inner[1].body
<1>1. s.inner \in Seq([set : DOMAIN SetLen, body : Seq(Atoms)]) /\ Len(s.inner) <= 1
  BY DEF NestedFors, Fors
<1>2. Len(s.inner) \in Nat /\ DOMAIN s.inner = 1..Len(s.inner)
      /\ \A i \in DOMAIN s.inner : s.inner[i] \in [set : DOMAIN SetLen, body : Seq(Atoms)]
  BY <1>1, SeqParts, Zenon
<1>3. PICK b : b = [i \in DOMAIN s.inner |-> s.inner[i].body]
  OBVIOUS
<1>4. b \in [1..Len(s.inner) -> Seq(Atoms)]
  BY <1>2, <1>3
<1>5. b \in Seq(Seq(Atoms)) /\ Len(b) = Len(s.inner)
  BY <1>2, <1>4, FunctionIsSeq, Zenon
<1>6. FlattenSeq(b) = IF b = <<>> THEN <<>> ELSE b[1]
  BY <1>1, <1>5, FlattenValue
<1>7. b = <<>> <=> s.inner = <<>>
  BY <1>1, <1>5
<1>8. CASE s.inner = <<>>
  <2>1. InnerBody(s) = <<>>
    BY <1>8 DEF InnerBody
  <2>2. <<>> \in Seq(Atoms)
    BY EmptySeq, Zenon
  <2> QED
    BY <1>3, <1>6, <1>7, <1>8, <2>1, <2>2
<1>9. CASE s.inner # <<>>
  <2>1. Len(s.inner) # 0
    BY <1>1, <1>9, EmptySeq
  <2>2. Len(s.inner) = 1
    <3>1. PICK n \in Nat : n = Len(s.inner)
      BY <1>2, Zenon
    <3>2. n <= 1 /\ n # 0
      BY <1>1, <2>1, <3>1, Zenon
    <3>3. n = 1
      BY <3>2
    <3> QED
      BY <3>1, <3>3
  <2>3. 1..1 = {1}
    OBVIOUS
  <2>4. DOMAIN s.inner = {1}
    BY <1>2, <2>2, <2>3, Zenon
  <2>5. s.inner[1] \in [set : DOMAIN SetLen, body : Seq(Atoms)]
    BY <1>2, <2>4, Zenon
  <2>6. s.inner[1].set \in DOMAIN SetLen /\ s.inner[1].body \in Seq(Atoms)
    BY <2>5
  <2>7. b[1] = s.inner[1].body
    BY <1>3, <2>4
  <2>8. InnerBody(s) = s.inner[1].body
    BY <1>9 DEF InnerBody
  <2> QED
    BY <1>3, <1>6, <1>7, <1>9, <2>4, <2>6, <2>7, <2>8
<1> QED
  BY <1>8, <1>9, Zenon

\* A compound atom does what the atom does.
LEMMA CompoundFrom ==
  ASSUME NEW a \in Atoms
  PROVE  /\ From(CompoundAtom(a), a) /\ CompoundAtom(a).once = a.once /\ CompoundAtom(a) \in Atoms
         /\ \A f \in BOOLEAN : From([CompoundAtom(a) EXCEPT !.once = f], a) /\ [CompoundAtom(a) EXCEPT !.once = f].once = f
<1>1. CompoundAtom(a) \in Atoms
  BY DEF CompoundAtom, Atoms
<1>2. From(CompoundAtom(a), a) /\ CompoundAtom(a).once = a.once
  BY DEF CompoundAtom, Atoms, From, SameRun
<1>3. ASSUME NEW f \in BOOLEAN, NEW b \in Atoms, From(b, a)
      PROVE  From([b EXCEPT !.once = f], a) /\ [b EXCEPT !.once = f].once = f
  BY <1>3 DEF Atoms, From, SameRun
<1> QED
  BY <1>1, <1>2, <1>3, Zenon

\* Compound atoms, guarded or not, are made from the atoms.
LEMMA CompoundMade ==
  ASSUME NEW as \in Seq(Atoms), NEW c
  PROVE  /\ MadeFrom(Guarded(CompoundAtoms(as), c), as, c.inner # <<>>)
         /\ \A f : (\A j \in 1..Len(as) : as[j].once = f) => MadeFrom(CompoundAtoms(as), as, f)
<1>1. PICK cs \in Seq(Atoms) : cs = CompoundAtoms(as) /\ Len(cs) = Len(as)
  BY CompoundType, Zenon
<1>2. Len(as) \in Nat /\ DOMAIN as = 1..Len(as) /\ DOMAIN cs = 1..Len(as) /\ \A j \in 1..Len(as) : as[j] \in Atoms
  BY <1>1, SeqParts, Zenon
<1>3. \A j \in 1..Len(as) : cs[j] = CompoundAtom(as[j])
  BY <1>1, <1>2, Zenon DEF CompoundAtoms
<1>4. PICK gs : gs = Guarded(cs, c)
  OBVIOUS
<1>5. gs = [i \in 1..Len(as) |-> [cs[i] EXCEPT !.once = c.inner # <<>>]]
  BY <1>2, <1>4, Zenon DEF Guarded
<1>6. Len(gs) = Len(as)
  <2>1. gs \in Seq(Atoms)
    BY <1>4, GuardedType, Zenon
  <2>2. DOMAIN gs = 1..Len(as) /\ gs = [i \in 1..Len(as) |-> gs[i]]
    BY <1>5
  <2>3. DOMAIN gs = 1..Len(gs) /\ \A i \in DOMAIN gs : gs[i] \in Atoms
    BY <2>1, SeqParts, Zenon
  <2>4. \A i \in 1..Len(as) : gs[i] \in Atoms
    BY <2>2, <2>3, Zenon
  <2>5. [i \in 1..Len(as) |-> gs[i]] \in [1..Len(as) -> Atoms]
    BY <2>4, Zenon
  <2>6. gs \in [1..Len(as) -> Atoms]
    BY <2>2, <2>5, Zenon
  <2> QED
    BY <1>2, <2>6, FunctionIsSeq, Zenon
<1>7. ASSUME NEW j \in 1..Len(as) PROVE From(gs[j], as[j]) /\ gs[j].once = (c.inner # <<>>)
  <2>1. PICK a \in Atoms, b \in BOOLEAN : a = as[j] /\ b = (c.inner # <<>>)
    BY <1>2, Zenon
  <2>2. gs[j] = [CompoundAtom(a) EXCEPT !.once = b]
    BY <1>3, <1>5, <2>1, Zenon
  <2>3. From([CompoundAtom(a) EXCEPT !.once = b], a) /\ [CompoundAtom(a) EXCEPT !.once = b].once = b
    BY CompoundFrom, Zenon
  <2> QED
    BY <2>1, <2>2, <2>3, Zenon
<1>8. MadeFrom(gs, as, c.inner # <<>>)
  BY <1>6, <1>7, Zenon DEF MadeFrom
<1>9. ASSUME NEW f, \A j \in 1..Len(as) : as[j].once = f PROVE MadeFrom(cs, as, f)
  <2>1. ASSUME NEW j \in 1..Len(as) PROVE From(cs[j], as[j]) /\ cs[j].once = f
    <3>1. PICK a \in Atoms : a = as[j]
      BY <1>2, Zenon
    <3>2. From(CompoundAtom(a), a) /\ CompoundAtom(a).once = a.once
      BY CompoundFrom, Zenon
    <3> QED
      BY <1>3, <1>9, <3>1, <3>2, Zenon
  <2> QED
    BY <1>1, <2>1, Zenon DEF MadeFrom
<1> QED
  BY <1>1, <1>4, <1>8, <1>9, Zenon

\* The loop that has its additions made compound.
LEMMA CompoundParts ==
  ASSUME NEW s \in NestedFors
  PROVE  LET c == CompoundStmt(s) IN
         /\ c \in NestedFors /\ c.kind = "for" /\ c.set = s.set
         /\ c.pre = CompoundAtoms(s.pre) /\ c.post = CompoundAtoms(s.post)
         /\ c.inner = [i \in DOMAIN s.inner |-> CompoundLoop(s.inner[i])]
         /\ (c.inner = <<>>) <=> (s.inner = <<>>)
<1>1. s.kind = "for" /\ s \in Fors /\ s.inner \in Seq([set : DOMAIN SetLen, body : Seq(Atoms)])
  BY DEF NestedFors, Fors
<1>2. PICK pre, post, in : /\ pre = CompoundAtoms(s.pre) /\ post = CompoundAtoms(s.post)
                           /\ in = [i \in DOMAIN s.inner |-> CompoundLoop(s.inner[i])]
  OBVIOUS
<1>3. PICK c : c = CompoundStmt(s)
  OBVIOUS
<1>4. c = [s EXCEPT !.pre = pre, !.post = post, !.inner = in]
  BY <1>1, <1>2, <1>3 DEF CompoundStmt
<1>5. c.set = s.set /\ c.pre = pre /\ c.post = post /\ c.inner = in /\ c.kind = "for"
  BY <1>1, <1>4 DEF Fors
<1>6. c \in NestedFors
  BY <1>3, CompoundFor, Zenon
<1>7. (in = <<>>) <=> (s.inner = <<>>)
  <2>1. DOMAIN in = DOMAIN s.inner
    BY <1>2, Zenon
  <2>2. c.inner \in Seq([set : DOMAIN SetLen, body : Seq(Atoms)])
    BY <1>6 DEF NestedFors, Fors
  <2>3. ASSUME NEW q \in Seq([set : DOMAIN SetLen, body : Seq(Atoms)]) PROVE q = <<>> <=> DOMAIN q = {}
    <3>1. Len(q) \in Nat /\ DOMAIN q = 1..Len(q)
      BY SeqParts, ZenonT(60)
    <3>2. PICK n \in Nat : n = Len(q)
      BY <3>1, Zenon
    <3>3. 1..n = {} <=> n = 0
      <4>1. n # 0 => 1 \in 1..n
        OBVIOUS
      <4>2. n = 0 => 1..n = {}
        OBVIOUS
      <4> QED
        BY <4>1, <4>2, Zenon
    <3>4. q = <<>> <=> n = 0
      BY <3>2, EmptySeq, Zenon
    <3> QED
      BY <3>1, <3>2, <3>3, <3>4, Zenon
  <2>4. in = <<>> <=> DOMAIN in = {}
    BY <1>5, <2>2, <2>3, Zenon
  <2>5. s.inner = <<>> <=> DOMAIN s.inner = {}
    BY <1>1, <2>3, Zenon
  <2> QED
    BY <2>1, <2>4, <2>5, Zenon
<1> QED
  BY <1>2, <1>3, <1>5, <1>6, <1>7, Zenon

\* Appending to one element makes a pair.
LEMMA AppendPair ==
  ASSUME NEW S, NEW a \in S, NEW b \in S
  PROVE  Append(<<a>>, b) = <<a, b>>
<1>1. <<a>> \in Seq(S) /\ <<a, b>> \in Seq(S) /\ Len(<<a>>) = 1 /\ Len(<<a, b>>) = 2
  OBVIOUS
<1>2. PICK e : e = Append(<<a>>, b)
  OBVIOUS
<1>3. e \in Seq(S) /\ Len(e) = 2 /\ e[1] = a /\ e[2] = b
  BY <1>1, <1>2
<1>4. PICK d \in Seq(S) : d = <<a, b>> /\ Len(d) = 2 /\ d[1] = a /\ d[2] = b
  BY <1>1
<1>5. \A j \in 1..2 : e[j] = d[j]
  BY <1>3, <1>4
<1>6. e = d
  BY <1>3, <1>4, <1>5, SeqEqual
<1> QED
  BY <1>2, <1>4, <1>6

\* The kernel of a loop: its threads, and its atoms in order.
KernelOf(k, s, p, q) ==
  /\ k \in Lowered /\ k.kind = "kernel" /\ Told(k) /\ ByX(k) = p /\ ByY(k) = q
  /\ \E P, I, Q : /\ Parts(k.body, P, I, Q) /\ MadeFrom(P, s.pre, s.inner # <<>>)
                  /\ MadeFrom(I, InnerBody(s), FALSE) /\ MadeFrom(Q, s.post, s.inner # <<>>)

\* The iterations of the loop inside.
InnerLen(s) == IF s.inner = <<>> THEN 1 ELSE SetLen[s.inner[1].set]

\* The passes make of a loop the kernel of that loop.
LEMMA KernelMade ==
  ASSUME NEW s \in NestedFors, \A j \in 1..Len(InnerBody(s)) : ~InnerBody(s)[j].once
  PROVE  KernelOf(PassStmt(s), s, SetLen[s.set], InnerLen(s))
<1>0. s.set \in DOMAIN SetLen /\ s.pre \in Seq(Atoms) /\ s.post \in Seq(Atoms)
  BY DEF NestedFors, Fors
<1>1. PICK c : c = CompoundStmt(s)
  OBVIOUS
<1>2. /\ c \in NestedFors /\ c.kind = "for" /\ c.set = s.set
      /\ c.pre = CompoundAtoms(s.pre) /\ c.post = CompoundAtoms(s.post)
      /\ c.inner = [i \in DOMAIN s.inner |-> CompoundLoop(s.inner[i])]
      /\ (c.inner = <<>>) <=> (s.inner = <<>>)
  BY <1>1, CompoundParts, Zenon
<1>3. PICK z, k : z = ShardFor(c) /\ k = PassStmt(s)
  OBVIOUS
<1>4. z \in Kernels /\ k = AnalyseStmt(z) /\ k \in GoodKernels
  <2>1. ShardStmt(c) = z
    BY <1>2, <1>3 DEF ShardStmt
  <2>2. k = AnalyseStmt(z)
    BY <1>1, <1>3, <2>1, Zenon DEF PassStmt
  <2>3. z \in Kernels /\ Len(z.dims) \in 1..2
    BY <1>2, <1>3, ShardType, Zenon
  <2> QED
    BY <2>2, <2>3, AnalyseCovers, Zenon
<1>5. k = [z EXCEPT !.reads = AllReads(z), !.writes = Writes(z)]
  BY <1>4 DEF AnalyseStmt, Kernels
<1>6. k.kind = "kernel" /\ k.body = z.body /\ k.dims = z.dims /\ k.reads = AllReads(z) /\ k.writes = Writes(z)
  BY <1>4, <1>5 DEF Kernels
<1>7. Told(k)
  <2>1. AtomsOf(z) = z.body /\ z.kind = "kernel" /\ z.body \in Seq(Atoms)
    BY <1>4 DEF AtomsOf, Kernels
  <2>2. ASSUME NEW i \in 1..Len(z.body) PROVE z.body[i].dst \in Writes(z) /\ AtomReads(z.body[i]) \subseteq AllReads(z)
    <3>1. z.body[i] \in Range(AtomsOf(z))
      BY <2>1, SeqParts DEF Range
    <3>2. z.kind # "memset"
      BY <2>1
    <3>3. PICK a \in Range(AtomsOf(z)) : a = z.body[i]
      BY <3>1, Zenon
    <3>4. a.dst \in Writes(z)
      BY <3>2 DEF Writes
    <3>5. AtomReads(a) \subseteq AllReads(z)
      BY DEF AllReads, NonAtomicReads
    <3> QED
      BY <3>3, <3>4, <3>5, Zenon
  <2> QED
    BY <1>6, <2>2, Zenon DEF Told
<1>8. PICK P, I, Q : P = Guarded(c.pre, c) /\ I = InnerBody(c) /\ Q = Guarded(c.post, c)
  OBVIOUS
<1>9. P \in Seq(Atoms) /\ I \in Seq(Atoms) /\ Q \in Seq(Atoms)
  <2>1. c.pre \in Seq(Atoms) /\ c.post \in Seq(Atoms)
    BY <1>2 DEF NestedFors, Fors
  <2> QED
    BY <1>2, <1>8, <2>1, GuardedType, InnerBodies, Zenon
<1>10. Parts(k.body, P, I, Q)
  <2>1. FlattenSeq([i \in DOMAIN c.inner |-> c.inner[i].body]) = I
    BY <1>2, <1>8, InnerBodies
  <2>2. z.body = P \o FlattenSeq([i \in DOMAIN c.inner |-> c.inner[i].body]) \o Q
    BY <1>3, <1>8 DEF ShardFor
  <2>3. Parts(P \o I \o Q, P, I, Q)
    BY <1>9, PartsAre, Zenon
  <2> QED
    BY <1>6, <2>1, <2>2, <2>3, Zenon
<1>11. MadeFrom(P, s.pre, s.inner # <<>>) /\ MadeFrom(Q, s.post, s.inner # <<>>)
  <2>1. (c.inner # <<>>) = (s.inner # <<>>)
    BY <1>2
  <2>2. MadeFrom(P, s.pre, c.inner # <<>>) /\ MadeFrom(Q, s.post, c.inner # <<>>)
    BY <1>0, <1>2, <1>8, CompoundMade, Zenon
  <2> QED
    BY <2>1, <2>2, Zenon
<1>12. MadeFrom(I, InnerBody(s), FALSE)
  <2>1. CASE s.inner = <<>>
    <3>1. InnerBody(s) = <<>> /\ I = <<>>
      BY <1>2, <1>8, <2>1 DEF InnerBody
    <3>2. Len(<<>>) = 0 /\ \A j : j \notin 1..0
      OBVIOUS
    <3> QED
      BY <3>1, <3>2, Zenon DEF MadeFrom
  <2>2. CASE s.inner # <<>>
    <3>1. DOMAIN s.inner = {1} /\ InnerBody(s) = s.inner[1].body /\ InnerBody(s) \in Seq(Atoms)
      BY <2>2, InnerBodies, Zenon
    <3>2. I = c.inner[1].body
      BY <1>2, <1>8, <2>2, Zenon DEF InnerBody
    <3>3. c.inner[1] = CompoundLoop(s.inner[1])
      BY <1>2, <3>1, Zenon
    <3>4. s.inner[1] \in [set : DOMAIN SetLen, body : Seq(Atoms)]
      <4>1. s.inner \in Seq([set : DOMAIN SetLen, body : Seq(Atoms)])
        BY DEF NestedFors, Fors
      <4> QED
        BY <3>1, <4>1, SeqParts, ZenonT(60)
    <3>5. CompoundLoop(s.inner[1]).body = CompoundAtoms(s.inner[1].body)
      BY <3>4 DEF CompoundLoop
    <3>6. \A j \in 1..Len(InnerBody(s)) : InnerBody(s)[j].once = FALSE
      <4>1. ASSUME NEW j \in 1..Len(InnerBody(s)) PROVE InnerBody(s)[j].once = FALSE
        <5>1. InnerBody(s)[j] \in Atoms
          BY <3>1, SeqParts, ZenonT(60)
        <5>2. PICK a \in Atoms : a = InnerBody(s)[j]
          BY <5>1, Zenon
        <5>3. a.once \in BOOLEAN /\ ~a.once
          BY <5>2, AtomParts, Zenon
        <5> QED
          BY <5>2, <5>3
      <4> QED
        BY <4>1, Zenon
    <3>7. MadeFrom(CompoundAtoms(InnerBody(s)), InnerBody(s), FALSE)
      BY <3>1, <3>6, CompoundMade, Zenon
    <3> QED
      BY <3>1, <3>2, <3>3, <3>5, <3>7, Zenon
  <2> QED
    BY <2>1, <2>2, Zenon
<1>13. ByX(k) = SetLen[s.set] /\ ByY(k) = InnerLen(s)
  <2>1. Lens(k) = [i \in DOMAIN z.dims |-> SetLen[z.dims[i]]]
    BY <1>6 DEF Lens
  <2>2. z.dims = <<s.set>> \o [i \in DOMAIN c.inner |-> c.inner[i].set]
    BY <1>2, <1>3 DEF ShardFor
  <2>3. CASE s.inner = <<>>
    <3>1. [i \in DOMAIN c.inner |-> c.inner[i].set] = <<>>
      BY <1>2, <2>3
    <3>2. z.dims = <<s.set>>
      <4>1. <<s.set>> \in Seq(DOMAIN SetLen)
        BY <1>0
      <4>2. <<s.set>> \o <<>> = <<s.set>>
        BY <4>1, ConcatNone
      <4> QED
        BY <2>2, <3>1, <4>2, Zenon
    <3>3. Lens(k) = <<SetLen[s.set]>>
      BY <2>1, <3>2
    <3> QED
      BY <1>6, <2>3, <3>3 DEF ByX, ByY, InnerLen
  <2>4. CASE s.inner # <<>>
    <3>1. DOMAIN s.inner = {1}
      BY <2>4, InnerBodies, Zenon
    <3>2. c.inner[1] = CompoundLoop(s.inner[1]) /\ DOMAIN c.inner = {1}
      BY <1>2, <3>1, Zenon
    <3>3. s.inner[1] \in [set : DOMAIN SetLen, body : Seq(Atoms)]
      <4>1. s.inner \in Seq([set : DOMAIN SetLen, body : Seq(Atoms)])
        BY DEF NestedFors, Fors
      <4> QED
        BY <3>1, <4>1, SeqParts, ZenonT(60)
    <3>4. c.inner[1].set = s.inner[1].set
      BY <3>2, <3>3 DEF CompoundLoop
    <3>5. PICK i : i = s.inner[1].set
      OBVIOUS
    <3>6. [j \in DOMAIN c.inner |-> c.inner[j].set] = <<i>>
      BY <3>2, <3>4, <3>5
    <3>7. z.dims = <<s.set, i>>
      <4>1. <<s.set>> \in Seq(DOMAIN SetLen) /\ i \in DOMAIN SetLen
        BY <1>0, <3>3, <3>5
      <4>2. <<s.set>> \o <<i>> = Append(<<s.set>>, i)
        BY <4>1, ConcatOne
      <4>3. Append(<<s.set>>, i) = <<s.set, i>>
        BY <1>0, <4>1, AppendPair
      <4> QED
        BY <2>2, <3>6, <4>2, <4>3, Zenon
    <3>8. Lens(k) = <<SetLen[s.set], SetLen[i]>>
      BY <2>1, <3>7
    <3> QED
      BY <1>6, <2>4, <3>5, <3>8 DEF ByX, ByY, InnerLen
  <2> QED
    BY <2>3, <2>4, Zenon
<1>14. k \in Lowered
  BY <1>4, Zenon DEF Lowered
<1> QED
  BY <1>3, <1>6, <1>7, <1>10, <1>11, <1>12, <1>13, <1>14, Zenon DEF KernelOf

\* The atoms of a loop that fits stay inside what they index.
LEMMA FitsInRange ==
  ASSUME NEW a \in Atoms, NEW nx \in Nat, NEW ny \in Nat, Fits(a, nx, ny),
         NEW x \in 0..(nx - 1), NEW y \in 0..(ny - 1)
  PROVE  InRange(a, <<x, y>>)
<1>1. ASSUME NEW v \in Vars, NEW at \in Places, at = "x" => nx <= VarLen[v], at = "y" => ny <= VarLen[v]
      PROVE  Component(v, at, <<x, y>>) \in 1..VarLen[v]
  <2>1. PICK n \in Nat \ {0} : n = VarLen[v]
    BY LaunchAssumption
  <2>2. CASE at = "x"
    BY <1>1, <2>1, <2>2 DEF Component
  <2>3. CASE at = "y"
    BY <1>1, <2>1, <2>3 DEF Component
  <2>4. CASE at = "next"
    <3>1. (x + 1) % n \in 0..(n - 1)
      OBVIOUS
    <3>2. Component(v, at, <<x, y>>) = 1 + ((x + 1) % n)
      BY <2>1, <2>4 DEF Component
    <3> QED
      BY <2>1, <3>1, <3>2
  <2>5. CASE at = "one"
    BY <2>1, <2>5 DEF Component
  <2> QED
    BY <2>2, <2>3, <2>4, <2>5 DEF Places
<1>2. a.dst \in Vars /\ a.at \in Places /\ a.from \in Places /\ (a.src = "none" \/ a.src \in Vars)
  BY AtomParts, Zenon
<1>3. PICK E : E = {<<a.dst, a.at>>} \union {<<v, a.from>> : v \in {a.src} \ {"none"}}
  OBVIOUS
<1>4. \A p \in E : (p[2] = "x" => nx <= VarLen[p[1]]) /\ (p[2] = "y" => ny <= VarLen[p[1]])
  BY <1>3, Zenon DEF Fits
<1>5. Target(a, <<x, y>>) \in 1..VarLen[a.dst]
  <2>1. <<a.dst, a.at>> \in E
    BY <1>3
  <2>2. (a.at = "x" => nx <= VarLen[a.dst]) /\ (a.at = "y" => ny <= VarLen[a.dst])
    BY <1>4, <2>1
  <2> QED
    BY <1>1, <1>2, <2>2, Zenon DEF Target
<1>6. ASSUME a.src # "none" PROVE Component(a.src, a.from, <<x, y>>) \in 1..VarLen[a.src]
  <2>1. <<a.src, a.from>> \in E
    BY <1>3, <1>6
  <2>2. (a.from = "x" => nx <= VarLen[a.src]) /\ (a.from = "y" => ny <= VarLen[a.src])
    BY <1>4, <2>1
  <2> QED
    BY <1>1, <1>2, <1>6, <2>2, Zenon
<1> QED
  BY <1>5, <1>6, Zenon DEF InRange

\* A loop whose atoms fit.
LoopFits(s, p, q) ==
  /\ \A j \in 1..Len(s.pre) : Fits(s.pre[j], p, 1)
  /\ \A j \in 1..Len(s.post) : Fits(s.post[j], p, 1)
  /\ \A j \in 1..Len(InnerBody(s)) : Fits(InnerBody(s)[j], p, q)

\* Atoms of a kernel stay in range when those of the loop fit.
LEMMA MadeSafe ==
  ASSUME NEW b \in Atoms, NEW a \in Atoms, From(b, a), NEW p \in Nat, NEW q \in Nat, NEW r \in Nat,
         Fits(a, p, r), NEW t \in Threads(p, q), t[2] \in 0..(r - 1)
  PROVE  InRange(b, t)
<1>1. PICK x \in 0..(p - 1), y \in 0..(q - 1) : t = <<x, y>>
  BY DEF Threads
<1>2. y \in 0..(r - 1)
  BY <1>1
<1>3. InRange(a, t)
  BY <1>1, <1>2, FitsInRange, Zenon
<1> QED
  BY <1>3, RunSame, Zenon DEF From

\* The kernel of a loop that fits stays in range.
LEMMA KernelSafe ==
  ASSUME NEW k, NEW s \in NestedFors, NEW p \in Nat, NEW q \in Nat, KernelOf(k, s, p, q),
         LoopFits(s, p, q), q = InnerLen(s)
  PROVE  AllSafe(k.body, p, q)
<1>0. s.pre \in Seq(Atoms) /\ s.post \in Seq(Atoms) /\ InnerBody(s) \in Seq(Atoms)
  BY InnerBodies, Zenon DEF NestedFors, Fors
<1>1. PICK P, I, Q : /\ Parts(k.body, P, I, Q) /\ MadeFrom(P, s.pre, s.inner # <<>>)
                     /\ MadeFrom(I, InnerBody(s), FALSE) /\ MadeFrom(Q, s.post, s.inner # <<>>)
  BY Zenon DEF KernelOf
<1>2. PICK B : B = k.body
  OBVIOUS
<1>3. B \in Seq(Atoms) /\ P \in Seq(Atoms) /\ I \in Seq(Atoms) /\ Q \in Seq(Atoms)
  BY <1>1, <1>2, Zenon DEF Parts
<1> SUFFICES ASSUME NEW t \in Threads(p, q), NEW i \in 1..Len(B), Executes(B[i], t) PROVE InRange(B[i], t)
  BY <1>2, Zenon DEF AllSafe, Safe
<1>4. PICK x \in 0..(p - 1), y \in 0..(q - 1) : t = <<x, y>>
  BY DEF Threads
<1>5. t[2] = y
  BY <1>4
<1>6. ASSUME NEW as \in Seq(Atoms), NEW bs \in Seq(Atoms), MadeFrom(bs, as, s.inner # <<>>),
             NEW j \in 1..Len(bs), B[i] = bs[j], \A l \in 1..Len(as) : Fits(as[l], p, 1)
      PROVE  InRange(B[i], t)
  <2>1. j \in 1..Len(as) /\ From(bs[j], as[j]) /\ bs[j].once = (s.inner # <<>>)
    BY <1>6, Zenon DEF MadeFrom
  <2>2. y = 0
    <3>1. CASE s.inner = <<>>
      <4>1. q = 1
        BY <3>1, Zenon DEF InnerLen
      <4> QED
        BY <4>1
    <3>2. CASE s.inner # <<>>
      <4>1. bs[j].once
        BY <2>1, <3>2
      <4> QED
        BY <1>5, <1>6, <4>1, Zenon DEF Executes
    <3> QED
      BY <3>1, <3>2, Zenon
  <2>3. t[2] \in 0..(1 - 1)
    BY <1>5, <2>2
  <2>4. as[j] \in Atoms /\ bs[j] \in Atoms /\ Fits(as[j], p, 1) /\ 1 \in Nat
    BY <1>6, <2>1, SeqParts
  <2>5. InRange(bs[j], t)
    BY <2>1, <2>3, <2>4, MadeSafe, Zenon
  <2> QED
    BY <1>6, <2>5, Zenon
<1>7. CASE \E j \in 1..Len(P) : B[i] = P[j]
  BY <1>0, <1>1, <1>3, <1>6, <1>7, Zenon DEF LoopFits
<1>8. CASE \E j \in 1..Len(Q) : B[i] = Q[j]
  BY <1>0, <1>1, <1>3, <1>6, <1>8, Zenon DEF LoopFits
<1>9. CASE \E j \in 1..Len(I) : B[i] = I[j]
  <2>1. PICK j \in 1..Len(I) : B[i] = I[j]
    BY <1>9, Zenon
  <2>2. j \in 1..Len(InnerBody(s)) /\ From(I[j], InnerBody(s)[j])
    BY <1>1, Zenon DEF MadeFrom
  <2>3. Fits(InnerBody(s)[j], p, q) /\ I[j] \in Atoms /\ InnerBody(s)[j] \in Atoms
    BY <1>0, <1>3, <2>2, SeqParts, Zenon DEF LoopFits
  <2>4. t[2] \in 0..(q - 1)
    BY <1>5, Zenon
  <2>5. InRange(I[j], t)
    BY <2>2, <2>3, <2>4, MadeSafe, Zenon
  <2> QED
    BY <2>1, <2>5, Zenon
<1>10. (\E j \in 1..Len(P) : B[i] = P[j]) \/ (\E j \in 1..Len(I) : B[i] = I[j]) \/ (\E j \in 1..Len(Q) : B[i] = Q[j])
  <2>1. Parts(B, P, I, Q)
    BY <1>1, <1>2, Zenon
  <2> QED
    <3>1. IsIn(B[i], P) \/ IsIn(B[i], I) \/ IsIn(B[i], Q)
      BY <2>1, PartsCases, Zenon
    <3> QED
      BY <3>1, Zenon DEF IsIn
<1> QED
  BY <1>7, <1>8, <1>9, <1>10, Zenon

\* The atoms of a loop are those of its parts.
LEMMA LoopAtoms ==
  ASSUME NEW s \in NestedFors
  PROVE  Parts(AtomsOf(s), s.pre, InnerBody(s), s.post) /\ s.kind = "for"
         /\ s.pre \in Seq(Atoms) /\ s.post \in Seq(Atoms) /\ InnerBody(s) \in Seq(Atoms)
<1>1. s.kind = "for" /\ s.pre \in Seq(Atoms) /\ s.post \in Seq(Atoms)
  BY DEF NestedFors, Fors
<1>2. PICK I : I = FlattenSeq([i \in DOMAIN s.inner |-> s.inner[i].body])
  OBVIOUS
<1>3. I = InnerBody(s) /\ InnerBody(s) \in Seq(Atoms)
  BY <1>2, InnerBodies
<1>4. AtomsOf(s) = s.pre \o I \o s.post
  BY <1>1, <1>2 DEF AtomsOf
<1>5. Parts(s.pre \o I \o s.post, s.pre, I, s.post)
  BY <1>1, <1>3, PartsAre, Zenon
<1> QED
  BY <1>1, <1>3, <1>4, <1>5, Zenon

\* The elements of a concatenation.
LEMMA ConcatHolds ==
  ASSUME NEW C \in Seq(Atoms), NEW D \in Seq(Atoms)
  PROVE  /\ \A j \in 1..Len(C) : C[j] \in Range(C \o D)
         /\ \A j \in 1..Len(D) : D[j] \in Range(C \o D)
<1>1. PICK B : B = C \o D
  OBVIOUS
<1>2. IsConcat(B, C, D)
  BY <1>1, ConcatIs, Zenon
<1>3. PICK k \in Nat, l \in Nat : k = Len(C) /\ l = Len(D)
  BY SeqParts, Zenon
<1>4. DOMAIN B = 1..(k + l) /\ (\A j \in 1..k : B[j] = C[j]) /\ (\A j \in 1..l : B[k + j] = D[j])
  BY <1>2, <1>3, SeqParts, Zenon DEF IsConcat
<1>5. (\A j \in 1..k : j \in 1..(k + l)) /\ (\A j \in 1..l : k + j \in 1..(k + l))
  OBVIOUS
<1>6. \A i \in 1..(k + l) : B[i] \in Range(B)
  BY <1>4, Zenon DEF Range
<1>7. (\A j \in 1..k : C[j] \in Range(B)) /\ (\A j \in 1..l : D[j] \in Range(B))
  BY <1>4, <1>5, <1>6, Zenon
<1> QED
  BY <1>1, <1>3, <1>7, Zenon

\* The atom of the loop an atom of its kernel was made from.
Origin(b, a, s, q) ==
  /\ a \in Range(AtomsOf(s)) /\ From(b, a)
  /\ \/ a \in Range(s.pre \o s.post) /\ (b.once \/ q = 1)
     \/ DOMAIN s.inner = {1} /\ a \in Range(s.inner[1].body)

\* Every atom of a kernel was made from an atom of its loop.
LEMMA KernelOrigins ==
  ASSUME NEW k, NEW s \in NestedFors, NEW p \in Nat, NEW q \in Nat, KernelOf(k, s, p, q),
         q = InnerLen(s), NEW i \in 1..Len(k.body)
  PROVE  \E a : Origin(k.body[i], a, s, q)
<1>0. Parts(AtomsOf(s), s.pre, InnerBody(s), s.post)
      /\ s.pre \in Seq(Atoms) /\ s.post \in Seq(Atoms) /\ InnerBody(s) \in Seq(Atoms)
  BY LoopAtoms, Zenon
<1>1. PICK P, I, Q : /\ Parts(k.body, P, I, Q) /\ MadeFrom(P, s.pre, s.inner # <<>>)
                     /\ MadeFrom(I, InnerBody(s), FALSE) /\ MadeFrom(Q, s.post, s.inner # <<>>)
  BY Zenon DEF KernelOf
<1>2. PICK B : B = k.body
  OBVIOUS
<1>3. Parts(B, P, I, Q)
  BY <1>1, <1>2, Zenon
<1>4. PICK R : R = Range(AtomsOf(s))
  OBVIOUS
<1>5. (\A j \in 1..Len(s.pre) : s.pre[j] \in R) /\ (\A j \in 1..Len(InnerBody(s)) : InnerBody(s)[j] \in R)
      /\ (\A j \in 1..Len(s.post) : s.post[j] \in R)
  BY <1>0, <1>4, PartsInRange, Zenon
<1>6. PICK O : O = Range(s.pre \o s.post)
  OBVIOUS
<1>7. (\A j \in 1..Len(s.pre) : s.pre[j] \in O) /\ (\A j \in 1..Len(s.post) : s.post[j] \in O)
  BY <1>0, <1>6, ConcatHolds, Zenon
<1>8. ASSUME NEW as, NEW bs, MadeFrom(bs, as, s.inner # <<>>), NEW j \in 1..Len(bs), B[i] = bs[j],
             \A l \in 1..Len(as) : as[l] \in R /\ as[l] \in O
      PROVE  \E a : Origin(B[i], a, s, q)
  <2>1. j \in 1..Len(as) /\ From(bs[j], as[j]) /\ bs[j].once = (s.inner # <<>>)
    BY <1>8, Zenon DEF MadeFrom
  <2>2. bs[j].once \/ q = 1
    <3>1. s.inner = <<>> => q = 1
      BY Zenon DEF InnerLen
    <3> QED
      BY <2>1, <3>1
  <2>3. Origin(B[i], as[j], s, q)
    BY <1>4, <1>6, <1>8, <2>1, <2>2, Zenon DEF Origin
  <2> QED
    BY <2>3, Zenon
<1>9. CASE \E j \in 1..Len(P) : B[i] = P[j]
  <2>1. \A l \in 1..Len(s.pre) : s.pre[l] \in R /\ s.pre[l] \in O
    BY <1>5, <1>7, Zenon
  <2> QED
    BY <1>1, <1>2, <1>8, <1>9, <2>1, Zenon
<1>10. CASE \E j \in 1..Len(Q) : B[i] = Q[j]
  <2>1. \A l \in 1..Len(s.post) : s.post[l] \in R /\ s.post[l] \in O
    BY <1>5, <1>7, Zenon
  <2> QED
    BY <1>1, <1>2, <1>8, <1>10, <2>1, Zenon
<1>11. CASE \E j \in 1..Len(I) : B[i] = I[j]
  <2>1. PICK j \in 1..Len(I) : B[i] = I[j]
    BY <1>11, Zenon
  <2>2. j \in 1..Len(InnerBody(s)) /\ From(I[j], InnerBody(s)[j])
    BY <1>1, Zenon DEF MadeFrom
  <2>3. s.inner # <<>>
    <3>1. ASSUME s.inner = <<>> PROVE FALSE
      <4>1. InnerBody(s) = <<>>
        BY <3>1, Zenon DEF InnerBody
      <4>2. Len(<<>>) = 0 /\ j \notin 1..0
        OBVIOUS
      <4> QED
        BY <2>2, <4>1, <4>2, Zenon
    <3> QED
      BY <3>1, Zenon
  <2>4. DOMAIN s.inner = {1} /\ InnerBody(s) = s.inner[1].body
    BY <2>3, InnerBodies, Zenon
  <2>5. InnerBody(s)[j] \in Range(s.inner[1].body)
    <3>1. DOMAIN InnerBody(s) = 1..Len(InnerBody(s))
      BY <1>0, SeqParts, Zenon
    <3> QED
      BY <2>2, <2>4, <3>1, Zenon DEF Range
  <2>6. Origin(B[i], InnerBody(s)[j], s, q)
    BY <1>4, <1>5, <2>1, <2>2, <2>4, <2>5, Zenon DEF Origin
  <2> QED
    BY <1>2, <2>6, Zenon
<1>12. (\E j \in 1..Len(P) : B[i] = P[j]) \/ (\E j \in 1..Len(I) : B[i] = I[j]) \/ (\E j \in 1..Len(Q) : B[i] = Q[j])
  <2>1. i \in 1..Len(B)
    BY <1>2, Zenon
  <2>2. IsIn(B[i], P) \/ IsIn(B[i], I) \/ IsIn(B[i], Q)
    BY <1>3, <2>1, PartsCases, Zenon
  <2> QED
    BY <2>2, Zenon DEF IsIn
<1> QED
  BY <1>9, <1>10, <1>11, <1>12, Zenon

\* The kernel of a race-free loop has no races.
LEMMA KernelFine ==
  ASSUME NEW k, NEW s \in NestedFors, NEW p \in Nat, NEW q \in Nat, KernelOf(k, s, p, q),
         LoopFits(s, p, q), q = InnerLen(s), RaceFree(s)
  PROVE  Fine(k.body, p, q)
<1>1. AllSafe(k.body, p, q)
  BY KernelSafe
<1>2. k.body \in Seq(Atoms)
  BY Zenon DEF KernelOf, Parts
<1>3. s.kind = "for"
  BY LoopAtoms, Zenon
<1>4. PICK B \in Seq(Atoms) : B = k.body
  BY <1>2, Zenon
<1>5. \A i \in 1..Len(B) : \E a : Origin(B[i], a, s, q)
  BY <1>4, KernelOrigins
<1>6. ASSUME NEW w \in Vars PROVE Own(B, q, w) \/ Added(B, w) \/ Unwritten(B, w)
  <2>1. CASE w \notin Writes(s)
    <3>1. ASSUME NEW i \in 1..Len(B) PROVE B[i].dst # w
      <4>1. PICK a : Origin(B[i], a, s, q)
        BY <1>5, Zenon
      <4>2. a \in Range(AtomsOf(s)) /\ a.dst = B[i].dst
        BY <4>1, Zenon DEF Origin, From, SameRun
      <4>3. a.dst \in Writes(s)
        BY <1>3, <4>2 DEF Writes
      <4> QED
        BY <2>1, <4>2, <4>3, Zenon
    <3> QED
      BY <3>1, Zenon DEF Unwritten
  <2>2. CASE /\ \A a \in Range(s.pre \o s.post) : TouchesOwn(a, w)
             /\ \A i \in DOMAIN s.inner : \A a \in Range(s.inner[i].body) : ~Touches(a, w)
    <3>1. ASSUME NEW i \in 1..Len(B), Touches(B[i], w) PROVE TouchesOwn(B[i], w) /\ (B[i].once \/ q = 1)
      <4>1. PICK a : Origin(B[i], a, s, q)
        BY <1>5, Zenon
      <4>2. Touches(a, w) /\ (TouchesOwn(a, w) => TouchesOwn(B[i], w))
        BY <3>1, <4>1 DEF Origin, From, SameRun, Touches, TouchesOwn
      <4>3. a \in Range(s.pre \o s.post) /\ (B[i].once \/ q = 1)
        <5>1. 1 \in {1}
          OBVIOUS
        <5> QED
          BY <2>2, <4>1, <4>2, <5>1, Zenon DEF Origin
      <4> QED
        BY <2>2, <4>2, <4>3, Zenon
    <3> QED
      BY <3>1, Zenon DEF Own
  <2>3. CASE \A a \in Range(AtomsOf(s)) : Touches(a, w) => a.dst = w /\ a.op # "set" /\ a.at # "y" /\ a.src # w
                                                         /\ (a.op = "self" => a.at = "one")
    <3>1. ASSUME NEW i \in 1..Len(B), Touches(B[i], w) PROVE B[i].dst = w /\ B[i].op = "add" /\ B[i].src # w
      <4>1. PICK a : Origin(B[i], a, s, q)
        BY <1>5, Zenon
      <4>2. a \in Range(AtomsOf(s)) /\ From(B[i], a)
        BY <4>1, Zenon DEF Origin
      <4>3. Touches(a, w)
        BY <3>1, <4>2 DEF From, SameRun, Touches
      <4>4. a.dst = w /\ a.op # "set" /\ a.src # w /\ (a.op = "self" => a.at = "one")
        BY <2>3, <4>2, <4>3, Zenon
      <4>5. B[i].op \in {"set", "add", "self"}
        <5>1. B[i] \in Atoms
          BY SeqParts, Zenon
        <5> QED
          BY <5>1, AtomParts, Zenon
      <4> QED
        BY <4>2, <4>4, <4>5 DEF From, SameRun
    <3> QED
      BY <3>1, Zenon DEF Added
  <2> QED
    BY <1>3, <2>1, <2>2, <2>3, Zenon DEF RaceFree
<1> QED
  BY <1>1, <1>2, <1>4, <1>6, Zenon DEF Fine

\* The kernel has the shape of the loop.
LEMMA KernelShaped ==
  ASSUME NEW k, NEW s \in NestedFors, NEW p \in Nat, NEW q \in Nat, KernelOf(k, s, p, q),
         p = SetLen[s.set], q = InnerLen(s)
  PROVE  Shaped(s, k.body, p, q)
<1>0. s.pre \in Seq(Atoms) /\ s.post \in Seq(Atoms) /\ InnerBody(s) \in Seq(Atoms)
  BY LoopAtoms, Zenon
<1>1. PICK P, I, Q : /\ Parts(k.body, P, I, Q) /\ MadeFrom(P, s.pre, s.inner # <<>>)
                     /\ MadeFrom(I, InnerBody(s), FALSE) /\ MadeFrom(Q, s.post, s.inner # <<>>)
  BY Zenon DEF KernelOf
<1>2. PICK B, z, e, n : B = k.body /\ z = Len(s.pre) /\ e = Len(InnerBody(s)) /\ n = Len(s.post)
  OBVIOUS
<1>3. Len(P) = z /\ Len(I) = e /\ Len(Q) = n
  BY <1>1, <1>2, Zenon DEF MadeFrom
<1>4. /\ Len(B) = z + e + n
      /\ \A j \in 1..z : B[j] = P[j]
      /\ \A j \in 1..e : B[z + j] = I[j]
      /\ \A j \in 1..n : B[z + e + j] = Q[j]
  BY <1>1, <1>2, <1>3, Zenon DEF Parts
<1>5. /\ \A j \in 1..z : From(P[j], s.pre[j]) /\ P[j].once = (s.inner # <<>>)
      /\ \A j \in 1..e : From(I[j], InnerBody(s)[j]) /\ I[j].once = FALSE
      /\ \A j \in 1..n : From(Q[j], s.post[j]) /\ Q[j].once = (s.inner # <<>>)
  BY <1>1, <1>2, Zenon DEF MadeFrom
<1>6. ASSUME NEW b, b.once = (s.inner # <<>>) PROVE b.once \/ q = 1
  <2>1. s.inner = <<>> => q = 1
    BY Zenon DEF InnerLen
  <2> QED
    BY <1>6, <2>1
<1>7. ASSUME NEW b, b.once = FALSE PROVE ~b.once
  BY <1>7
<1>8. \A j \in 1..z : SameRun(s.pre[j], B[j]) /\ (B[j].once \/ q = 1)
  BY <1>4, <1>5, <1>6, Zenon DEF From
<1>9. \A j \in 1..e : SameRun(InnerBody(s)[j], B[z + j]) /\ ~B[z + j].once
  BY <1>4, <1>5, <1>7, Zenon DEF From
<1>10. \A j \in 1..n : SameRun(s.post[j], B[z + e + j]) /\ (B[z + e + j].once \/ q = 1)
  BY <1>4, <1>5, <1>6, Zenon DEF From
<1>11. q = (IF s.inner = <<>> THEN 1 ELSE SetLen[s.inner[1].set])
  BY Zenon DEF InnerLen
<1>12. Shaped(s, B, p, q)
  BY <1>0, <1>2, <1>4, <1>8, <1>9, <1>10, <1>11, Zenon DEF Shaped
<1> QED
  BY <1>2, <1>12, Zenon

-------------------------------------------------------------------------------
(* What the first passes make of a statement does what the statement does. *)

Matches(k, s) == Sound(k) /\ \A m \in Mems : Does(k)[m] = RunStmt(m, s)

\* A loop inside its variables, which has no guarded atom inside.
Ready(s) ==
  /\ LoopFits(s, SetLen[s.set], InnerLen(s))
  /\ \A j \in 1..Len(InnerBody(s)) : ~InnerBody(s)[j].once

\* The kernel of a race-free loop does what the loop does.
LEMMA LoopMatches ==
  ASSUME NEW s \in NestedFors, RaceFree(s), Ready(s)
  PROVE  Matches(PassStmt(s), s)
<1>1. s.set \in DOMAIN SetLen /\ s.kind = "for"
  BY DEF NestedFors, Fors
<1>2. PICK p \in Nat : p = SetLen[s.set]
  BY <1>1, LaunchAssumption
<1>3. PICK q \in Nat \ {0} : q = InnerLen(s)
  <2>1. CASE s.inner = <<>>
    BY <2>1 DEF InnerLen
  <2>2. CASE s.inner # <<>>
    <3>1. s.inner[1].set \in DOMAIN SetLen
      BY <2>2, InnerBodies, Zenon
    <3>2. SetLen[s.inner[1].set] \in Nat \ {0}
      BY <3>1, LaunchAssumption
    <3> QED
      BY <2>2, <3>2 DEF InnerLen
  <2> QED
    BY <2>1, <2>2, Zenon
<1>4. q \in Nat
  OBVIOUS
<1>5. PICK k : k = PassStmt(s)
  OBVIOUS
<1>6. KernelOf(k, s, p, q)
  BY <1>2, <1>3, <1>5, KernelMade, Zenon DEF Ready
<1>7. LoopFits(s, p, q)
  BY <1>2, <1>3, Zenon DEF Ready
<1>8. Fine(k.body, p, q)
  BY <1>3, <1>4, <1>6, <1>7, KernelFine
<1>9. Shaped(s, k.body, p, q)
  BY <1>2, <1>3, <1>4, <1>6, KernelShaped
<1>10. k \in Lowered /\ k.kind = "kernel" /\ Told(k) /\ ByX(k) = p /\ ByY(k) = q
  BY <1>6, Zenon DEF KernelOf
<1>11. Code(k) = k.body
  BY <1>10 DEF Code, Body
<1>12. Sound(k)
  <2>1. k.kind # "abort"
    BY <1>10
  <2>2. k.body \in Seq(Atoms) /\ AllSafe(k.body, p, q)
    BY <1>8, Zenon DEF Fine
  <2> QED
    BY <1>4, <1>8, <1>10, <1>11, <2>1, <2>2, Zenon DEF Sound
<1>13. ASSUME NEW m \in Mems PROVE Does(k)[m] = RunStmt(m, s)
  <2>1. Does(k)[m] = Mix(m, k.body, p, q, AllDone(k.body, p, q))
    BY <1>10, <1>11, Zenon DEF Does, Whole
  <2>2. RunFor(m, s) = Mix(m, k.body, p, q, AllDone(k.body, p, q))
    BY <1>8, <1>9, ForMix
  <2>3. RunStmt(m, s) = RunFor(m, s)
    BY <1>1 DEF RunStmt
  <2> QED
    BY <2>1, <2>2, <2>3, Zenon
<1> QED
  BY <1>5, <1>12, <1>13, Zenon DEF Matches

\* A memory set does what it does in order.
LEMMA MemsetMatches ==
  ASSUME NEW s \in Memsets
  PROVE  Matches(s, s) /\ PassStmt(s) = s
<1>1. s.kind = "memset" /\ s.var \in Vars
  BY DEF Memsets
<1>2. PICK v \in Vars : v = s.var
  BY <1>1, Zenon
<1>3. PassStmt(s) = s
  BY <1>1 DEF PassStmt, CompoundStmt, ShardStmt, AnalyseStmt
<1>4. Code(s) = Clears(v)
  BY <1>1, <1>2 DEF Code, Body, Clears, ClearAtom
<1>5. ByX(s) = VarLen[v] /\ ByY(s) = 1
  <2>1. Lens(s) = <<VarLen[v]>>
    BY <1>1, <1>2 DEF Lens
  <2> QED
    BY <1>1, <2>1 DEF ByX, ByY
<1>6. Fine(Clears(v), VarLen[v], 1) /\ VarLen[v] \in Nat /\ 1 \in Nat
  BY ClearsFine
<1>7. Sound(s)
  <2>1. s \in Lowered /\ s.kind # "abort" /\ s.kind # "kernel"
    BY <1>1 DEF Lowered
  <2>2. Clears(v) \in Seq(Atoms) /\ AllSafe(Clears(v), VarLen[v], 1)
    BY <1>6, Zenon DEF Fine
  <2> QED
    BY <1>4, <1>5, <1>6, <2>1, <2>2, Zenon DEF Sound
<1>8. ASSUME NEW m \in Mems PROVE Does(s)[m] = RunStmt(m, s)
  <2>1. Does(s)[m] = Mix(m, Clears(v), VarLen[v], 1, AllDone(Clears(v), VarLen[v], 1))
    BY <1>4, <1>5, Zenon DEF Does, Whole
  <2>2. RunStmt(m, s) = [m EXCEPT ![v] = [i \in DOMAIN @ |-> 0]]
    BY <1>1, <1>2 DEF RunStmt
  <2> QED
    BY <2>1, <2>2, MemsetMix, Zenon
<1> QED
  BY <1>3, <1>7, <1>8, Zenon DEF Matches

\* A statement of the host is a single thread.
LEMMA OneThread == Threads(1, 1) = {<<0, 0>>}
<1>1. 0..(1 - 1) = {0}
  OBVIOUS
<1>2. {0} \X {0} = {<<0, 0>>}
  OBVIOUS
<1> QED
  BY <1>1, <1>2, Zenon DEF Threads

\* The first component of every variable exists.
LEMMA AtomAtOrigin ==
  ASSUME NEW a \in Atoms
  PROVE  InRange(a, <<0, 0>>)
<1>1. PICK E : E = {<<a.dst, a.at>>} \union {<<v, a.from>> : v \in {a.src} \ {"none"}}
  OBVIOUS
<1>2. a.dst \in Vars /\ (a.src = "none" \/ a.src \in Vars)
  BY AtomParts, Zenon
<1>3. ASSUME NEW r \in E PROVE r[1] \in Vars
  BY <1>1, <1>2
<1>4. ASSUME NEW v \in Vars PROVE 1 <= VarLen[v]
  BY LaunchAssumption
<1>5. Fits(a, 1, 1)
  BY <1>1, <1>3, <1>4, Zenon DEF Fits
<1>6. 0 \in 0..(1 - 1) /\ 1 \in Nat
  OBVIOUS
<1> QED
  BY <1>5, <1>6, FitsInRange, Zenon

\* A statement of the host does what it does in order.
LEMMA HostMatches ==
  ASSUME NEW s \in Hosts
  PROVE  Matches(s, s)
<1>1. s.kind = "host" /\ s.atom \in Atoms
  BY DEF Hosts
<1>2. PICK a \in Atoms : a = s.atom
  BY <1>1, Zenon
<1>3. PICK B \in Seq(Atoms) : B = <<a>> /\ Len(B) = 1 /\ B[1] = a
  <2>1. <<a>> \in Seq(Atoms) /\ Len(<<a>>) = 1 /\ <<a>>[1] = a
    OBVIOUS
  <2> QED
    BY <2>1, Zenon
<1>4. Code(s) = B /\ ByX(s) = 1 /\ ByY(s) = 1 /\ 1 \in Nat
  BY <1>1, <1>2, <1>3 DEF Code, ByX, ByY
<1>5. PICK t : t = <<0, 0>>
  OBVIOUS
<1>6. t[2] = 0 /\ t \in Threads(1, 1) /\ \A u \in Threads(1, 1) : u = t
  BY <1>5, OneThread
<1>7. \A i \in 1..Len(B) : B[i] = a
  BY <1>3
<1>8. AllSafe(B, 1, 1)
  BY <1>5, <1>6, <1>7, AtomAtOrigin, Zenon DEF AllSafe, Safe
<1>9. Sound(s)
  <2>1. s \in Lowered /\ s.kind # "abort" /\ s.kind # "kernel"
    BY <1>1 DEF Lowered
  <2> QED
    BY <1>1, <1>4, <1>8, <2>1, Zenon DEF Sound
<1>10. ASSUME NEW m \in Mems PROVE Does(s)[m] = RunStmt(m, s)
  <2>1. PICK pos \in Positions(B, 1, 1) : pos = AllDone(B, 1, 1)
    BY AllDoneType, Zenon
  <2>2. Does(s)[m] = Mix(m, B, 1, 1, pos)
    BY <1>4, <2>1, Zenon DEF Does, Whole
  <2>3. RunStmt(m, s) = RunAtom(m, a, t)
    BY <1>1, <1>2, <1>5 DEF RunStmt
  <2>4. pos[t] = 1
    BY <1>3, <1>6, <2>1, Zenon DEF AllDone
  <2>5. Safe(B, t)
    BY <1>6, <1>8, Zenon DEF AllSafe
  <2>6. Alone(m, B, t)[1] = RunAtom(m, a, t)
    <3>1. 0 \in 0..(Len(B) - 1) /\ 0 + 1 = 1
      BY <1>3
    <3>2. Alone(m, B, t)[0] = m /\ Alone(m, B, t)[0 + 1] = AloneStep(Alone(m, B, t)[0], B[0 + 1], t)
      BY <2>5, <3>1, AloneParts
    <3>3. Alone(m, B, t)[1] = AloneStep(m, a, t)
      BY <1>3, <3>1, <3>2, Zenon
    <3>4. Executes(a, t)
      BY <1>6, Zenon DEF Executes
    <3> QED
      BY <3>3, <3>4, Zenon DEF AloneStep
  <2>7. RunAtom(m, a, t) \in Mems /\ Mix(m, B, 1, 1, pos) \in Mems
    BY <1>4, <1>5, <1>8, AtomAtOrigin, RunAtomType, MixType, Zenon
  <2>8. ASSUME NEW v \in Vars, NEW c \in 1..VarLen[v]
        PROVE  Mix(m, B, 1, 1, pos)[v][c] = RunAtom(m, a, t)[v][c]
    <3>1. Sole(B, 1, 1, t, v, c)
      BY <1>6, Zenon DEF Sole
    <3>2. Mix(m, B, 1, 1, pos)[v][c] = Alone(m, B, t)[pos[t]][v][c]
      BY <1>4, <1>6, <1>8, <3>1, MixOwn
    <3> QED
      BY <2>4, <2>6, <3>2, Zenon
  <2>9. Mix(m, B, 1, 1, pos) = RunAtom(m, a, t)
    <3>1. PICK x, y : x = Mix(m, B, 1, 1, pos) /\ y = RunAtom(m, a, t)
      OBVIOUS
    <3>2. IsMem(x) /\ IsMem(y)
      BY <2>7, <3>1, MemsAre, Zenon
    <3>3. \A v \in Vars : \A c \in 1..VarLen[v] : x[v][c] = y[v][c]
      BY <2>8, <3>1, Zenon
    <3> QED
      BY <3>1, <3>2, <3>3, MemEqual
  <2> QED
    BY <2>2, <2>3, <2>9, Zenon
<1> QED
  BY <1>9, <1>10, Zenon DEF Matches

\* The passes keep what a statement of the host does.
LEMMA HostPassed ==
  ASSUME NEW s \in Hosts
  PROVE  Matches(PassStmt(s), s)
<1>1. s.kind = "host" /\ s.atom \in Atoms
  BY DEF Hosts
<1>2. PICK b : b = CompoundAtom(s.atom)
  OBVIOUS
<1>3. From(b, s.atom) /\ b \in Atoms
  BY <1>1, <1>2, CompoundFrom
<1>4. PICK k : k = [s EXCEPT !.atom = b]
  OBVIOUS
<1>5. k \in Hosts /\ k.kind = "host" /\ k.atom = b
  BY <1>3, <1>4 DEF Hosts
<1>6. PassStmt(s) = k
  <2>1. CompoundStmt(s) = k
    BY <1>1, <1>2, <1>4 DEF CompoundStmt
  <2> QED
    BY <1>5, <2>1 DEF PassStmt, ShardStmt, AnalyseStmt
<1>7. Matches(k, k)
  BY <1>5, HostMatches, Zenon
<1>8. ASSUME NEW m \in Mems PROVE RunStmt(m, k) = RunStmt(m, s)
  <2>1. RunStmt(m, k) = RunAtom(m, b, <<0, 0>>) /\ RunStmt(m, s) = RunAtom(m, s.atom, <<0, 0>>)
    BY <1>1, <1>5 DEF RunStmt
  <2>2. SameRun(s.atom, b)
    BY <1>3, Zenon DEF From
  <2>3. RunAtom(m, s.atom, <<0, 0>>) = RunAtom(m, b, <<0, 0>>)
    BY <2>2, RunSame
  <2> QED
    BY <2>1, <2>3, Zenon
<1> QED
  BY <1>6, <1>7, <1>8, Zenon DEF Matches

\* The statements of a program.
LEMMA ProgramParts ==
  ASSUME NEW r \in Programs, NEW i \in DOMAIN r
  PROVE  /\ r[i] \in NestedFors \union Hosts \union Memsets
         /\ r[i] \in NestedFors => Ready(r[i])
<1>1. r \in Seq(Fors \union Hosts \union Memsets)
      /\ (r[i].kind = "for" =>
            /\ Len(r[i].inner) <= 1
            /\ \A j \in DOMAIN r[i].inner : \A a \in Range(r[i].inner[j].body) : ~a.once)
  BY ProgramsAssumption
<1>2. r[i] \in Fors \union Hosts \union Memsets
  BY <1>1, SeqParts, Zenon
<1>3. PICK s : s = r[i]
  OBVIOUS
<1>4. s \in NestedFors \union Hosts \union Memsets
  <2>1. s \in Fors => s.kind = "for"
    BY DEF Fors
  <2> QED
    BY <1>1, <1>2, <1>3, <2>1 DEF NestedFors
<1>5. ASSUME s \in NestedFors PROVE Ready(s)
  <2>1. /\ s.kind = "for" /\ s.pre \in Seq(Atoms) /\ s.post \in Seq(Atoms) /\ InnerBody(s) \in Seq(Atoms)
    BY <1>5, LoopAtoms, Zenon
  <2>2. PICK p : p = SetLen[s.set]
    OBVIOUS
  <2>3. /\ \A a \in Range(s.pre \o s.post) : Fits(a, p, 1)
        /\ \A j \in DOMAIN s.inner : \A a \in Range(s.inner[j].body) : Fits(a, p, SetLen[s.inner[j].set])
    BY <1>3, <2>1, <2>2, IndexAssumption, Zenon
  <2>4. (\A j \in 1..Len(s.pre) : Fits(s.pre[j], p, 1)) /\ (\A j \in 1..Len(s.post) : Fits(s.post[j], p, 1))
    <3>1. PICK O : O = Range(s.pre \o s.post)
      OBVIOUS
    <3>2. (\A j \in 1..Len(s.pre) : s.pre[j] \in O) /\ (\A j \in 1..Len(s.post) : s.post[j] \in O)
      BY <2>1, <3>1, ConcatHolds, Zenon
    <3> QED
      BY <2>3, <3>1, <3>2, Zenon
  <2>5. ASSUME NEW j \in 1..Len(InnerBody(s))
        PROVE  Fits(InnerBody(s)[j], p, InnerLen(s)) /\ ~InnerBody(s)[j].once
    <3>1. s.inner # <<>>
      <4>1. ASSUME s.inner = <<>> PROVE FALSE
        <5>1. InnerBody(s) = <<>>
          BY <4>1, Zenon DEF InnerBody
        <5>2. Len(<<>>) = 0 /\ j \notin 1..0
          OBVIOUS
        <5> QED
          BY <5>1, <5>2, Zenon
      <4> QED
        BY <4>1, Zenon
    <3>2. DOMAIN s.inner = {1} /\ InnerBody(s) = s.inner[1].body
      BY <1>5, <3>1, InnerBodies, Zenon
    <3>3. InnerBody(s)[j] \in Range(s.inner[1].body)
      <4>1. DOMAIN InnerBody(s) = 1..Len(InnerBody(s))
        BY <2>1, SeqParts, Zenon
      <4> QED
        BY <3>2, <4>1, Zenon DEF Range
    <3>4. InnerLen(s) = SetLen[s.inner[1].set]
      BY <3>1, Zenon DEF InnerLen
    <3>5. 1 \in DOMAIN s.inner
      BY <3>2
    <3> QED
      BY <1>1, <1>3, <2>1, <2>3, <3>3, <3>4, <3>5, Zenon
  <2> QED
    BY <2>2, <2>4, <2>5, Zenon DEF Ready, LoopFits
<1> QED
  BY <1>3, <1>4, <1>5, Zenon

\* The passes before fusion keep what a race-free statement does.
LEMMA PassMatches ==
  ASSUME NEW r \in Programs, NEW i \in DOMAIN r, RaceFree(r[i])
  PROVE  Matches(PassStmt(r[i]), r[i])
<1>1. PICK s : s = r[i]
  OBVIOUS
<1>2. s \in NestedFors \union Hosts \union Memsets /\ (s \in NestedFors => Ready(s))
  BY <1>1, ProgramParts, Zenon
<1>3. CASE s \in NestedFors
  BY <1>1, <1>2, <1>3, LoopMatches, Zenon
<1>4. CASE s \in Hosts
  BY <1>1, <1>4, HostPassed, Zenon
<1>5. CASE s \in Memsets
  BY <1>1, <1>5, MemsetMatches, Zenon
<1> QED
  BY <1>2, <1>3, <1>4, <1>5, Zenon

-------------------------------------------------------------------------------
(* The compiled function does what the source does.                        *)

\* The first memory is a memory.
LEMMA ZerosType == Zeros \in Mems
<1>1. \A v \in Vars : VarLen[v] \in Nat
  BY LaunchAssumption
<1>2. 0 \in Cells
  BY LaunchAssumption DEF Cells
<1>3. IsMem(Zeros)
  BY <1>1, <1>2 DEF IsMem, Zeros
<1> QED
  BY <1>3, MemsAre, Zenon

\* The chain of statements that match others passes through the same memories.
LEMMA MatchingMeans ==
  ASSUME NEW list, NEW r, NEW n \in Nat, Len(list) = n, Len(r) = n, \A i \in 1..n : Matches(list[i], r[i]), NEW m \in Mems
  PROVE  AllSound(list) /\ Means(list, TRUE)[m] = RunList(m, r)
<1>1. AllSound(list)
  BY Zenon DEF AllSound, Matches
<1>2. ListRunSteps(r)
  <2>1. ASSUME NEW o \in Mems, NEW i \in 1..n PROVE RunStmt(o, r[i]) \in Mems
    <3>1. Sound(list[i]) /\ Does(list[i])[o] = RunStmt(o, r[i])
      BY Zenon DEF Matches
    <3>2. Does(list[i]) \in [Mems -> Mems]
      BY <3>1, DoesType, Zenon DEF Maps
    <3>3. Does(list[i])[o] \in Mems
      BY <3>2, Zenon
    <3> QED
      BY <3>1, <3>3, Zenon
  <2> QED
    BY <2>1, Zenon DEF ListRunSteps
<1>3. PICK g : ListRun(g, m, r)
  BY <1>2, ListRunIs, Zenon
<1>4. /\ g \in [0..n -> Mems] /\ g[0] = m /\ g[n] = RunList(m, r)
      /\ \A i \in 0..(n - 1) : g[i + 1] = RunStmt(g[i], r[i + 1])
  BY <1>3, Zenon DEF ListRun
<1>5. PICK h : h = Chain(list, TRUE)
  OBVIOUS
<1>6. Chains(h, list, TRUE)
  BY <1>1, <1>5, ChainIs, Zenon
<1>7. /\ h \in [0..n -> Maps] /\ h[0] = Same
      /\ \A i \in 0..(n - 1) : h[i + 1] = Then(TRUE, h[i], Does(list[i + 1]))
  BY <1>6, Zenon DEF Chains
<1> DEFINE S == {i \in 0..n : h[i][m] = g[i]}
<1>8. 0 \in S
  <2>1. Same[m] = m
    BY Zenon DEF Same
  <2> QED
    BY <1>4, <1>7, <2>1, SelfBound, Zenon
<1>9. ASSUME NEW i \in 0..(n - 1), i \in S PROVE i + 1 \in S
  <2>1. i \in 0..n /\ i + 1 \in 0..n /\ i + 1 \in 1..n
    OBVIOUS
  <2>2. h[i][m] = g[i] /\ g[i] \in Mems
    BY <1>4, <1>9, <2>1, Zenon
  <2>3. h[i + 1] = Comp(h[i], Does(list[i + 1]))
    <3>1. h[i + 1] = Then(TRUE, h[i], Does(list[i + 1]))
      BY <1>7, Zenon
    <3> QED
      BY <3>1, Zenon DEF Then
  <2>4. h[i + 1][m] = Does(list[i + 1])[h[i][m]]
    BY <2>3, Zenon DEF Comp
  <2>5. Does(list[i + 1])[g[i]] = RunStmt(g[i], r[i + 1])
    BY <2>1, <2>2, Zenon DEF Matches
  <2>6. h[i + 1][m] = g[i + 1]
    BY <1>4, <2>2, <2>4, <2>5, Zenon
  <2> QED
    BY <2>1, <2>6, Zenon
<1> HIDE DEF S
<1>10. \A i \in 0..n : i \in S
  BY <1>8, <1>9, InductionUpTo
<1>11. h[n][m] = g[n]
  BY <1>10, SelfBound, Zenon DEF S
<1> QED
  BY <1>1, <1>4, <1>5, <1>11, Zenon DEF Means

\* A function that computes what its source computes, or aborts the compiler.
Computes(list, r) ==
  HasAbort(list) \/ (AllSound(list) /\ Means(list, TRUE)[Zeros] = RunList(Zeros, r))

\* Compiling a race-free program keeps what it computes.
LEMMA CompiledComputes ==
  ASSUME NEW r \in Programs, \A i \in DOMAIN r : RaceFree(r[i])
  PROVE  Computes(Compiled(r), r)
<1>1. r \in Seq(Fors \union Hosts \union Memsets) /\ r # <<>>
  BY ProgramsAssumption
<1>2. PICK n \in Nat : n = Len(r) /\ DOMAIN r = 1..n
  BY <1>1, SeqParts, Zenon
<1>3. n # 0
  BY <1>1, <1>2, EmptySeq, Zenon
<1> DEFINE passed == Each(AnalyseStmt, Each(ShardStmt, Each(CompoundStmt, r)))
<1>4. passed = [i \in DOMAIN r |-> PassStmt(r[i])]
  BY DEF Each, PassStmt
<1> HIDE DEF passed
<1>5. ASSUME NEW i \in 1..n PROVE Matches(PassStmt(r[i]), r[i])
  BY <1>2, PassMatches, Zenon
<1>6. \A i \in 1..n : PassStmt(r[i]) \in Lowered
  BY <1>5, Zenon DEF Matches, Sound
<1>7. passed \in [1..n -> Lowered]
  BY <1>2, <1>4, <1>6, Zenon
<1>8. passed \in Seq(Lowered) /\ Len(passed) = n
  BY <1>7, FunctionIsSeq, Zenon
<1>9. passed # <<>>
  <2>1. Len(<<>>) = 0
    OBVIOUS
  <2> QED
    BY <1>3, <1>8, <2>1, Zenon
<1>10. \A i \in 1..n : Matches(passed[i], r[i])
  BY <1>2, <1>4, <1>5, Zenon
<1>11. AllSound(passed) /\ Means(passed, TRUE)[Zeros] = RunList(Zeros, r)
  BY <1>2, <1>8, <1>10, ZerosType, MatchingMeans
<1>12. SameMeaning(FuseAll(passed), passed, TRUE)
  BY <1>8, <1>9, <1>11, FuseAllMeans
<1>13. Compiled(r) = FuseAll(passed)
  BY Zenon DEF Compiled, passed
<1>14. Computes(FuseAll(passed), r)
  BY <1>11, <1>12, Zenon DEF Computes, SameMeaning
<1> QED
  BY <1>13, <1>14, Zenon

-------------------------------------------------------------------------------
(* The threads of a running kernel.                                        *)

Registers == [at : Nat, loaded : BOOLEAN, reg : Cells]

\* Thread t has run the atoms before its own, and what it holds of its own is
\* what it would hold had it run alone.
Running(r, m, B, t) ==
  /\ r.at \in 1..(Len(B) + 1)
  /\ r.loaded => /\ r.at <= Len(B) /\ Executes(B[r.at], t)
                 /\ r.reg = OperandOf(Alone(m, B, t)[r.at - 1], B[r.at], t)

\* How many atoms each thread has run.
Reached(ths, p, q) == [t \in Threads(p, q) |-> ths[t].at - 1]

\* The threads run body B from memory m, and mm is what they have made of it.
Going(ths, mm, m, B, p, q) ==
  /\ ths \in [DOMAIN ths -> Registers]
  /\ Threads(p, q) \subseteq DOMAIN ths
  /\ \A t \in Threads(p, q) : Running(ths[t], m, B, t)
  /\ \A t \in DOMAIN ths : t \notin Threads(p, q) => ~ths[t].loaded
  /\ mm = Mix(m, B, p, q, Reached(ths, p, q))

\* How far threads that run have come is a position.
LEMMA ReachedType ==
  ASSUME NEW ths, NEW mm, NEW m, NEW B \in Seq(Atoms), NEW p, NEW q, Going(ths, mm, m, B, p, q)
  PROVE  Reached(ths, p, q) \in Positions(B, p, q)
<1>1. PICK n \in Nat : n = Len(B)
  BY SeqParts, Zenon
<1>2. ASSUME NEW t \in Threads(p, q) PROVE ths[t].at - 1 \in 0..n
  <2>1. ths[t].at \in 1..(n + 1)
    BY <1>1, Zenon DEF Going, Running
  <2> QED
    BY <2>1
<1> QED
  BY <1>1, <1>2, Zenon DEF Reached, Positions

\* What a thread holds.
LEMMA RegistersOf ==
  ASSUME NEW ths, NEW mm, NEW m, NEW B, NEW p, NEW q, Going(ths, mm, m, B, p, q), NEW t \in DOMAIN ths
  PROVE  ths[t] \in Registers /\ ths[t].at \in Nat /\ ths[t].loaded \in BOOLEAN /\ ths[t].reg \in Cells
<1>1. ths[t] \in Registers
  BY Zenon DEF Going
<1> QED
  BY <1>1 DEF Registers

\* One thread takes a step.
LEMMA ThreadMoves ==
  ASSUME NEW ths, NEW mm, NEW m, NEW B, NEW p, NEW q, Going(ths, mm, m, B, p, q),
         NEW t \in DOMAIN ths, NEW r \in Registers, NEW new, new = [ths EXCEPT ![t] = r], NEW nm,
         t \in Threads(p, q) => Running(r, m, B, t), t \notin Threads(p, q) => ~r.loaded,
         nm = Mix(m, B, p, q, Reached(new, p, q))
  PROVE  Going(new, nm, m, B, p, q)
<1>1. DOMAIN new = DOMAIN ths /\ new[t] = r /\ \A u \in DOMAIN ths : u # t => new[u] = ths[u]
  BY DEF Going
<1>2. new \in [DOMAIN ths -> Registers]
  BY DEF Going
<1>3. new \in [DOMAIN new -> Registers] /\ Threads(p, q) \subseteq DOMAIN new
  BY <1>1, <1>2, Zenon DEF Going
<1>4. ASSUME NEW u \in Threads(p, q) PROVE Running(new[u], m, B, u)
  <2>1. u \in DOMAIN ths /\ Running(ths[u], m, B, u)
    BY Zenon DEF Going
  <2>2. CASE u = t
    BY <1>1, <2>2, Zenon
  <2>3. CASE u # t
    BY <1>1, <2>1, <2>3, Zenon
  <2> QED
    BY <2>2, <2>3, Zenon
<1>5. ASSUME NEW u \in DOMAIN new, u \notin Threads(p, q) PROVE ~new[u].loaded
  <2>1. u \in DOMAIN ths /\ ~ths[u].loaded
    BY <1>1, <1>5, Zenon DEF Going
  <2>2. CASE u = t
    BY <1>1, <1>5, <2>2, Zenon
  <2>3. CASE u # t
    BY <1>1, <2>1, <2>3, Zenon
  <2> QED
    BY <2>2, <2>3, Zenon
<1> QED
  BY <1>3, <1>4, <1>5, Zenon DEF Going

\* A launch starts every thread at its first atom.
LEMMA StartGoes ==
  ASSUME NEW m \in Mems, NEW B \in Seq(Atoms), NEW p \in Nat, NEW q \in Nat, AllSafe(B, p, q),
         NEW G, Threads(p, q) \subseteq G, NEW ths, ths = [t \in G |-> [at |-> 1, loaded |-> FALSE, reg |-> 0]]
  PROVE  Going(ths, m, m, B, p, q)
<1>0. Len(B) \in Nat
  BY SeqParts, Zenon
<1>1. 0 \in Cells
  BY LaunchAssumption DEF Cells
<1>2. [at |-> 1, loaded |-> FALSE, reg |-> 0] \in Registers
  BY <1>1 DEF Registers
<1>3. PICK r \in Registers : r = [at |-> 1, loaded |-> FALSE, reg |-> 0]
  BY <1>2, Zenon
<1>4. r.at = 1 /\ r.loaded = FALSE /\ 1 - 1 = 0
  BY <1>3
<1>5. DOMAIN ths = G /\ ths \in [G -> Registers] /\ \A t \in G : ths[t] = r
  BY <1>3, Zenon
<1>6. ASSUME NEW t \in Threads(p, q) PROVE Running(ths[t], m, B, t)
  <2>1. 1 \in 1..(Len(B) + 1)
    BY <1>0
  <2> QED
    BY <1>4, <1>5, <2>1 DEF Running
<1>7. \A t \in Threads(p, q) : ths[t].at = 1
  BY <1>4, <1>5, Zenon
<1>8. PICK pos : pos = Reached(ths, p, q)
  OBVIOUS
<1>9. \A t \in Threads(p, q) : pos[t] = 0
  BY <1>4, <1>7, <1>8, Zenon DEF Reached
<1>10. pos \in Positions(B, p, q)
  <2>1. 0 \in 0..Len(B)
    BY <1>0
  <2>2. pos = [t \in Threads(p, q) |-> 0]
    BY <1>4, <1>7, <1>8, Zenon DEF Reached
  <2> QED
    BY <2>1, <2>2, Zenon DEF Positions
<1>11. m = Mix(m, B, p, q, pos)
  BY <1>9, <1>10, MixStart
<1>12. \A t \in G : ~ths[t].loaded
  BY <1>4, <1>5
<1> QED
  BY <1>5, <1>6, <1>8, <1>11, <1>12, Zenon DEF Going

\* A thread outside the range ends.
LEMMA ExitGoes ==
  ASSUME NEW ths, NEW mm, NEW m, NEW B \in Seq(Atoms), NEW p, NEW q, Going(ths, mm, m, B, p, q),
         NEW t \in DOMAIN ths, t \notin Threads(p, q)
  PROVE  Going([ths EXCEPT ![t].at = Len(B) + 1], mm, m, B, p, q)
<1>1. Len(B) \in Nat
  BY SeqParts, Zenon
<1>2. ths[t] \in Registers /\ ~ths[t].loaded
  BY RegistersOf, Zenon DEF Going
<1>3. PICK r : r = [ths[t] EXCEPT !.at = Len(B) + 1]
  OBVIOUS
<1>4. r \in Registers /\ r.loaded = ths[t].loaded
  BY <1>1, <1>2, <1>3 DEF Registers
<1>5. PICK new : new = [ths EXCEPT ![t] = r]
  OBVIOUS
<1>6. [ths EXCEPT ![t].at = Len(B) + 1] = new
  BY <1>3, <1>5
<1>7. \A u \in Threads(p, q) : new[u] = ths[u]
  <2>1. \A u \in DOMAIN ths : u # t => new[u] = ths[u]
    BY <1>5
  <2> QED
    BY <2>1, Zenon DEF Going
<1>8. Reached(new, p, q) = Reached(ths, p, q)
  BY <1>7, Zenon DEF Reached
<1>9. mm = Mix(m, B, p, q, Reached(new, p, q))
  BY <1>8, Zenon DEF Going
<1>10. ~r.loaded
  BY <1>2, <1>4
<1>11. Going(new, mm, m, B, p, q)
  BY <1>4, <1>5, <1>9, <1>10, ThreadMoves
<1> QED
  BY <1>6, <1>11, Zenon

\* How far the other threads are does not change with a thread.
StepOf(pos, to, p, q, t, x, y) ==
  pos[t] = x - 1 /\ to[t] = y - 1 /\ \A u \in Threads(p, q) : u # t => to[u] = pos[u]

\* When one thread moves, only it is further.
LEMMA ReachedMoves ==
  ASSUME NEW ths, NEW p, NEW q, Threads(p, q) \subseteq DOMAIN ths, NEW t \in Threads(p, q), NEW r
  PROVE  StepOf(Reached(ths, p, q), Reached([ths EXCEPT ![t] = r], p, q), p, q, t, ths[t].at, r.at)
<1>0. PICK new : new = [ths EXCEPT ![t] = r]
  OBVIOUS
<1>1. new[t] = r /\ \A u \in Threads(p, q) : u # t => new[u] = ths[u]
  <2>1. \A u \in DOMAIN ths : u # t => new[u] = ths[u]
    BY <1>0
  <2>2. t \in DOMAIN ths
    BY Zenon
  <2>3. new[t] = r
    BY <1>0, <2>2
  <2> QED
    BY <2>1, <2>3, Zenon
<1>2. StepOf(Reached(ths, p, q), Reached(new, p, q), p, q, t, ths[t].at, r.at)
  BY <1>1, Zenon DEF Reached, StepOf
<1> QED
  BY <1>0, <1>2, Zenon

\* A thread of the range passes over a guarded atom.
LEMMA SkipGoes ==
  ASSUME NEW ths, NEW mm, NEW m \in Mems, NEW B \in Seq(Atoms), NEW p \in Nat, NEW q \in Nat, AllSafe(B, p, q),
         Going(ths, mm, m, B, p, q), NEW t \in Threads(p, q), ths[t].at <= Len(B), ~Executes(B[ths[t].at], t)
  PROVE  Going([ths EXCEPT ![t].at = @ + 1], mm, m, B, p, q)
<1>1. PICK n \in Nat : n = Len(B)
  BY SeqParts, Zenon
<1>2. t \in DOMAIN ths /\ Running(ths[t], m, B, t)
  BY Zenon DEF Going
<1>3. PICK x \in Nat : x = ths[t].at
  BY <1>2, RegistersOf, Zenon
<1>4. ths[t] \in Registers
  BY <1>2, RegistersOf, Zenon
<1>5. ~ths[t].loaded
  BY <1>2, Zenon DEF Running
<1>6. x \in 1..n
  <2>1. x \in 1..(n + 1)
    BY <1>1, <1>2, <1>3, Zenon DEF Running
  <2>2. x <= n
    BY <1>1, <1>3, Zenon
  <2> QED
    BY <2>1, <2>2
<1>7. PICK r : r = [ths[t] EXCEPT !.at = x + 1]
  OBVIOUS
<1>8. r \in Registers /\ r.loaded = ths[t].loaded /\ r.at = x + 1
  BY <1>4, <1>7, SMTT(60) DEF Registers
<1>9. PICK new : new = [ths EXCEPT ![t] = r]
  OBVIOUS
<1>10. [ths EXCEPT ![t].at = @ + 1] = new
  BY <1>3, <1>7, <1>9
<1>11. Running(r, m, B, t)
  <2>1. x + 1 \in 1..(n + 1)
    BY <1>6
  <2> QED
    BY <1>1, <1>5, <1>8, <2>1 DEF Running
<1>12. mm = Mix(m, B, p, q, Reached(new, p, q))
  <2>1. PICK pos, to : pos = Reached(ths, p, q) /\ to = Reached(new, p, q)
    OBVIOUS
  <2>2. Threads(p, q) \subseteq DOMAIN ths /\ mm = Mix(m, B, p, q, pos)
    BY <2>1, Zenon DEF Going
  <2>3. to[t] = r.at - 1 /\ pos[t] = ths[t].at - 1 /\ \A u \in Threads(p, q) : u # t => to[u] = pos[u]
    <3>1. StepOf(Reached(ths, p, q), Reached([ths EXCEPT ![t] = r], p, q), p, q, t, ths[t].at, r.at)
      BY <2>2, ReachedMoves
    <3>2. StepOf(pos, to, p, q, t, ths[t].at, r.at)
      BY <1>9, <2>1, <3>1
    <3> QED
      BY <3>2, Zenon DEF StepOf
  <2>4. (x + 1) - 1 = x /\ x - 1 \in 0..n /\ x \in 0..n /\ (x - 1) + 1 = x /\ ((x - 1) + 0) + 1 = x
    BY <1>6
  <2>5. to[t] = x /\ pos[t] = x - 1
    BY <1>3, <1>8, <2>3, <2>4, Zenon
  <2>6. Skipped(B, x - 1, 1, x, t)
    <3>1. \A j \in 0..(1 - 1) : j = 0
      OBVIOUS
    <3>2. ~Executes(B[((x - 1) + 0) + 1], t)
      BY <1>3, <2>4, Zenon
    <3> QED
      BY <2>4, <3>1, <3>2, Zenon DEF Skipped
  <2>7. Alone(m, B, t)[x] = Alone(m, B, t)[x - 1]
    <3>1. Safe(B, t)
      BY Zenon DEF AllSafe
    <3>2. x - 1 \in 0..Len(B) /\ x \in 0..Len(B) /\ 1 \in Nat
      BY <1>1, <2>4
    <3>3. PICK i \in 0..Len(B), e \in 0..Len(B) : i = x - 1 /\ e = x
      BY <3>2, Zenon
    <3>4. Skipped(B, i, 1, e, t)
      BY <2>6, <3>3, Zenon
    <3>5. Alone(m, B, t)[e] = Alone(m, B, t)[i]
      BY <3>1, <3>2, <3>4, AloneSkips
    <3> QED
      BY <3>3, <3>5, Zenon
  <2>8. \A u \in Threads(p, q) : Alone(m, B, u)[pos[u]] = Alone(m, B, u)[to[u]]
    BY <2>3, <2>5, <2>7, Zenon
  <2>9. Mix(m, B, p, q, pos) = Mix(m, B, p, q, to)
    BY <2>8, MixSame
  <2> QED
    BY <2>1, <2>2, <2>9, Zenon
<1>13. Going(new, mm, m, B, p, q)
  BY <1>2, <1>8, <1>9, <1>11, <1>12, ThreadMoves
<1> QED
  BY <1>10, <1>13, Zenon

\* A thread that loads gets what it would get alone.
LEMMA LoadGoes ==
  ASSUME NEW ths, NEW mm, NEW m \in Mems, NEW B, NEW p \in Nat, NEW q \in Nat, Fine(B, p, q),
         Going(ths, mm, m, B, p, q), NEW t \in Threads(p, q), ths[t].at <= Len(B), Executes(B[ths[t].at], t)
  PROVE  Going([ths EXCEPT ![t].loaded = TRUE, ![t].reg = OperandOf(mm, B[ths[t].at], t)], mm, m, B, p, q)
<1>0. B \in Seq(Atoms) /\ AllSafe(B, p, q)
  BY Zenon DEF Fine
<1>1. PICK n \in Nat : n = Len(B)
  BY <1>0, SeqParts, Zenon
<1>2. t \in DOMAIN ths /\ Running(ths[t], m, B, t)
  BY Zenon DEF Going
<1>3. PICK x \in Nat : x = ths[t].at
  BY <1>2, RegistersOf, Zenon
<1>4. ths[t] \in Registers
  BY <1>2, RegistersOf, Zenon
<1>6. x \in 1..n
  <2>1. x \in 1..(n + 1)
    BY <1>1, <1>2, <1>3, Zenon DEF Running
  <2>2. x <= n
    BY <1>1, <1>3, Zenon
  <2> QED
    BY <2>1, <2>2
<1>7. PICK pos \in Positions(B, p, q) : pos = Reached(ths, p, q)
  BY <1>0, ReachedType, Zenon
<1>8. mm = Mix(m, B, p, q, pos) /\ pos[t] = x - 1
  BY <1>3, <1>7, Zenon DEF Going, Reached
<1>9. (x - 1) + 1 = x /\ x - 1 \in 0..n
  BY <1>6
<1>10. PICK v : v = OperandOf(mm, B[x], t)
  OBVIOUS
<1>11. v = OperandOf(Alone(m, B, t)[x - 1], B[x], t)
  <2>1. pos[t] + 1 = x
    BY <1>8, <1>9, Zenon
  <2>2. pos[t] + 1 \in 1..Len(B) /\ Executes(B[pos[t] + 1], t)
    BY <1>1, <1>3, <1>6, <2>1, Zenon
  <2>3. OperandOf(Mix(m, B, p, q, pos), B[pos[t] + 1], t) = OperandOf(Alone(m, B, t)[pos[t]], B[pos[t] + 1], t)
    BY <2>2, ReadSame
  <2> QED
    BY <1>8, <1>10, <2>1, <2>3, Zenon
<1>12. v \in Cells
  <2>1. B[x] \in Atoms
    BY <1>0, <1>1, <1>6, SeqParts, Zenon
  <2>2. InRange(B[x], t)
    BY <1>0, <1>1, <1>3, <1>6, Zenon DEF AllSafe, Safe
  <2>3. IsMem(mm)
    BY <1>0, <1>8, MixType, MemsAre, Zenon
  <2> QED
    BY <1>10, <2>1, <2>2, <2>3, OperandType, Zenon
<1>13. PICK r : r = [ths[t] EXCEPT !.loaded = TRUE, !.reg = v]
  OBVIOUS
<1>14. r \in Registers /\ r.at = x /\ r.reg = v
  BY <1>3, <1>4, <1>12, <1>13 DEF Registers
<1>15. PICK new : new = [ths EXCEPT ![t] = r]
  OBVIOUS
<1>16. [ths EXCEPT ![t].loaded = TRUE, ![t].reg = OperandOf(mm, B[ths[t].at], t)] = new
  <2>1. OperandOf(mm, B[ths[t].at], t) = v
    BY <1>3, <1>10, Zenon
  <2>2. [ths EXCEPT ![t].loaded = TRUE, ![t].reg = v] = new
    BY <1>2, <1>13, <1>15
  <2> QED
    BY <2>1, <2>2, Zenon
<1>17. Running(r, m, B, t)
  <2>1. x \in 1..(n + 1) /\ x <= n
    BY <1>6
  <2> QED
    BY <1>1, <1>3, <1>11, <1>14, <2>1, Zenon DEF Running
<1>18. mm = Mix(m, B, p, q, Reached(new, p, q))
  <2>1. Threads(p, q) \subseteq DOMAIN ths
    BY Zenon DEF Going
  <2>2. Reached(new, p, q)[t] = r.at - 1 /\ \A u \in Threads(p, q) : u # t => Reached(new, p, q)[u] = pos[u]
    <3>1. StepOf(Reached(ths, p, q), Reached([ths EXCEPT ![t] = r], p, q), p, q, t, ths[t].at, r.at)
      BY <2>1, ReachedMoves
    <3>2. StepOf(pos, Reached(new, p, q), p, q, t, ths[t].at, r.at)
      BY <1>7, <1>15, <3>1
    <3> QED
      BY <3>2, Zenon DEF StepOf
  <2>3. \A u \in Threads(p, q) : pos[u] = Reached(new, p, q)[u]
    BY <1>8, <1>14, <2>2, Zenon
  <2>4. \A u \in Threads(p, q) : Alone(m, B, u)[pos[u]] = Alone(m, B, u)[Reached(new, p, q)[u]]
    BY <2>3, Zenon
  <2>5. Mix(m, B, p, q, pos) = Mix(m, B, p, q, Reached(new, p, q))
    BY <2>4, MixSame
  <2> QED
    BY <1>8, <2>5, Zenon
<1>19. Going(new, mm, m, B, p, q)
  BY <1>2, <1>14, <1>15, <1>17, <1>18, ThreadMoves
<1> QED
  BY <1>16, <1>19, Zenon

\* A thread that stores does to the memory what it would do alone.
LEMMA CommitGoes ==
  ASSUME NEW ths, NEW mm, NEW m \in Mems, NEW B, NEW p \in Nat, NEW q \in Nat, Fine(B, p, q),
         Going(ths, mm, m, B, p, q), NEW t \in DOMAIN ths, ths[t].loaded
  PROVE  Going([ths EXCEPT ![t] = [at |-> @.at + 1, loaded |-> FALSE, reg |-> 0]],
               CommitOf(mm, B[ths[t].at], t, ths[t].reg), m, B, p, q)
<1>0. B \in Seq(Atoms) /\ AllSafe(B, p, q)
  BY Zenon DEF Fine
<1>1. PICK n \in Nat : n = Len(B)
  BY <1>0, SeqParts, Zenon
<1>2. t \in Threads(p, q) /\ Running(ths[t], m, B, t)
  BY Zenon DEF Going
<1>3. PICK x \in Nat : x = ths[t].at
  BY <1>2, RegistersOf, Zenon
<1>4. x <= n /\ Executes(B[x], t) /\ ths[t].reg = OperandOf(Alone(m, B, t)[x - 1], B[x], t)
  BY <1>1, <1>2, <1>3, Zenon DEF Running
<1>6. x \in 1..n
  <2>1. x \in 1..(n + 1)
    BY <1>1, <1>2, <1>3, Zenon DEF Running
  <2> QED
    BY <1>4, <2>1
<1>7. PICK pos \in Positions(B, p, q) : pos = Reached(ths, p, q)
  BY <1>0, ReachedType, Zenon
<1>8. mm = Mix(m, B, p, q, pos) /\ pos[t] = x - 1
  BY <1>2, <1>3, <1>7, Zenon DEF Going, Reached
<1>9. (x - 1) + 1 = x /\ (x + 1) - 1 = x
  BY <1>6
<1>10. PICK r : r = [at |-> x + 1, loaded |-> FALSE, reg |-> 0]
  OBVIOUS
<1>11. r \in Registers /\ r.at = x + 1 /\ ~r.loaded
  <2>1. 0 \in Cells
    BY LaunchAssumption DEF Cells
  <2> QED
    BY <1>10, <2>1 DEF Registers
<1>12. PICK new : new = [ths EXCEPT ![t] = r]
  OBVIOUS
<1>13. [ths EXCEPT ![t] = [at |-> @.at + 1, loaded |-> FALSE, reg |-> 0]] = new
  BY <1>3, <1>10, <1>12
<1>14. Running(r, m, B, t)
  <2>1. x + 1 \in 1..(n + 1)
    BY <1>6
  <2> QED
    BY <1>1, <1>11, <2>1, Zenon DEF Running
<1>15. PICK to : to = Reached(new, p, q)
  OBVIOUS
<1>16. Moved(pos, to, t, p, q)
  <2>1. Threads(p, q) \subseteq DOMAIN ths
    BY Zenon DEF Going
  <2>2. to[t] = r.at - 1 /\ \A u \in Threads(p, q) : u # t => to[u] = pos[u]
    <3>1. StepOf(Reached(ths, p, q), Reached([ths EXCEPT ![t] = r], p, q), p, q, t, ths[t].at, r.at)
      BY <1>2, <2>1, ReachedMoves
    <3>2. StepOf(pos, to, p, q, t, ths[t].at, r.at)
      BY <1>7, <1>12, <1>15, <3>1
    <3> QED
      BY <3>2, Zenon DEF StepOf
  <2>3. to[t] = pos[t] + 1
    BY <1>8, <1>9, <1>11, <2>2, Zenon
  <2> QED
    BY <2>2, <2>3, Zenon DEF Moved
<1>17. to \in Positions(B, p, q)
  <2>1. to = [u \in Threads(p, q) |-> to[u]]
    BY <1>15, Zenon DEF Reached
  <2>2. ASSUME NEW u \in Threads(p, q) PROVE to[u] \in 0..n
    <3>1. x \in 0..n
      BY <1>6
    <3>2. CASE u = t
      <4>1. to[u] = x
        BY <1>8, <1>9, <1>16, <3>2, Zenon DEF Moved
      <4> QED
        BY <3>1, <4>1, Zenon
    <3>3. CASE u # t
      <4>1. to[u] = pos[u]
        BY <1>16, <3>3, Zenon DEF Moved
      <4> QED
        BY <1>1, <4>1, Zenon DEF Positions
    <3> QED
      BY <3>2, <3>3, Zenon
  <2> QED
    BY <1>1, <2>1, <2>2, Zenon DEF Positions
<1>18. CommitOf(mm, B[x], t, ths[t].reg) = Mix(m, B, p, q, to)
  <2>1. pos[t] + 1 = x
    BY <1>8, <1>9, Zenon
  <2>2. pos[t] + 1 \in 1..Len(B) /\ Executes(B[pos[t] + 1], t)
    BY <1>1, <1>4, <1>6, <2>1, Zenon
  <2>3. CommitOf(Mix(m, B, p, q, pos), B[pos[t] + 1], t,
                  OperandOf(Alone(m, B, t)[pos[t]], B[pos[t] + 1], t)) = Mix(m, B, p, q, to)
    BY <1>2, <1>16, <1>17, <2>2, CommitMix
  <2> QED
    BY <1>4, <1>8, <2>1, <2>3, Zenon
<1>19. Going(new, CommitOf(mm, B[x], t, ths[t].reg), m, B, p, q)
  BY <1>2, <1>11, <1>12, <1>14, <1>15, <1>18, ThreadMoves
<1> QED
  BY <1>3, <1>13, <1>19, Zenon

\* When every thread has ended the body has run.
LEMMA EndGoes ==
  ASSUME NEW ths, NEW mm, NEW m, NEW B \in Seq(Atoms), NEW p, NEW q, Going(ths, mm, m, B, p, q),
         \A t \in DOMAIN ths : ths[t].at > Len(B)
  PROVE  mm = Whole(m, B, p, q)
<1>1. PICK n \in Nat : n = Len(B)
  BY SeqParts, Zenon
<1>2. ASSUME NEW t \in Threads(p, q) PROVE ths[t].at - 1 = n
  <2>1. t \in DOMAIN ths /\ Running(ths[t], m, B, t)
    BY Zenon DEF Going
  <2>2. ths[t].at \in 1..(n + 1) /\ ths[t].at > n
    BY <1>1, <2>1, Zenon DEF Running
  <2> QED
    BY <2>2
<1>3. Reached(ths, p, q) = AllDone(B, p, q)
  BY <1>1, <1>2, Zenon DEF Reached, AllDone
<1> QED
  BY <1>3, Zenon DEF Going, Whole

-------------------------------------------------------------------------------
(* The run of a function.                                                  *)

RaceFreeSource == \A i \in DOMAIN source : RaceFree(source[i])

\* The memory the first i statements leave.
Reach(list, i) == Chain(list, TRUE)[i][Zeros]

\* The memory after each statement is what the statement makes of the one before.
LEMMA ReachIs ==
  ASSUME NEW list, Len(list) \in Nat, AllSound(list)
  PROVE  /\ Reach(list, 0) = Zeros /\ Reach(list, Len(list)) = Means(list, TRUE)[Zeros]
         /\ \A i \in 0..Len(list) : Reach(list, i) \in Mems
         /\ \A i \in 0..(Len(list) - 1) : Reach(list, i + 1) = Does(list[i + 1])[Reach(list, i)]
<1>1. PICK g : g = Chain(list, TRUE)
  OBVIOUS
<1>2. Chains(g, list, TRUE)
  BY <1>1, ChainIs, Zenon
<1>3. /\ g \in [0..Len(list) -> Maps] /\ g[0] = Same
      /\ \A i \in 0..(Len(list) - 1) : g[i + 1] = Then(TRUE, g[i], Does(list[i + 1]))
  BY <1>2, Zenon DEF Chains
<1>4. Reach(list, 0) = Zeros
  BY <1>1, <1>3, ZerosType, Zenon DEF Reach, Same
<1>5. Reach(list, Len(list)) = Means(list, TRUE)[Zeros]
  BY Zenon DEF Reach, Means
<1>6. ASSUME NEW i \in 0..Len(list) PROVE Reach(list, i) \in Mems
  BY <1>1, <1>3, ZerosType, Zenon DEF Reach, Maps
<1>7. ASSUME NEW i \in 0..(Len(list) - 1) PROVE Reach(list, i + 1) = Does(list[i + 1])[Reach(list, i)]
  <2>1. g[i + 1] = Comp(g[i], Does(list[i + 1]))
    BY <1>3, Zenon DEF Then
  <2>2. g[i + 1][Zeros] = Does(list[i + 1])[g[i][Zeros]]
    BY <2>1, ZerosType, Zenon DEF Comp
  <2> QED
    BY <1>1, <2>2, Zenon DEF Reach
<1> QED
  BY <1>4, <1>5, <1>6, <1>7, Zenon

\* The threads of a launch that run the body.
LEMMA LaunchedThreads ==
  ASSUME NEW s, Sound(s), s.kind # "host"
  PROVE  /\ Body(s) \in Seq(Atoms) /\ Code(s) = Body(s) /\ Fine(Body(s), ByX(s), ByY(s))
         /\ AllSafe(Body(s), ByX(s), ByY(s)) /\ ByX(s) \in Nat /\ ByY(s) \in Nat
         /\ Threads(ByX(s), ByY(s)) \subseteq Grid(s)
         /\ \A t \in Grid(s) : InsideGuard(s, t) <=> t \in Threads(ByX(s), ByY(s))
<1>1. Code(s) = Body(s)
  BY Zenon DEF Code
<1>2. s \in Lowered /\ s.kind # "abort"
  BY Zenon DEF Sound
<1>3. s.kind \in {"kernel", "memset"}
  BY <1>2, KindOf
<1>4. PICK F : F = (0..(Lens(s)[1] - 1)) \X (IF Len(Lens(s)) = 2 THEN 0..(Lens(s)[2] - 1) ELSE {0})
  OBVIOUS
<1>5. {t \in Grid(s) : InsideGuard(s, t)} = F
  BY <1>2, <1>3, <1>4, GridCovers, Zenon
<1>6. F = Threads(ByX(s), ByY(s))
  <2>1. ByX(s) = Lens(s)[1] /\ ByY(s) = IF Len(Lens(s)) = 2 THEN Lens(s)[2] ELSE 1
    BY DEF ByX, ByY
  <2>2. 0..(1 - 1) = {0}
    OBVIOUS
  <2> QED
    BY <1>4, <2>1, <2>2, Zenon DEF Threads
<1>7. PICK T : T = Threads(ByX(s), ByY(s))
  OBVIOUS
<1>8. {t \in Grid(s) : InsideGuard(s, t)} = T
  BY <1>5, <1>6, <1>7, Zenon
<1>9. T \subseteq Grid(s) /\ \A t \in Grid(s) : InsideGuard(s, t) <=> t \in T
  BY <1>8, Zenon
<1> QED
  BY <1>1, <1>7, <1>9, Zenon DEF Sound

\* The function does what its source does.
FuncComputes == AllSound(func) /\ Means(func, TRUE)[Zeros] = RunList(Zeros, source)

HostReached ==
  /\ pc \in 1..(Len(func) + 1)
  /\ phase = "done" => pc = Len(func) + 1

\* Between kernels the memory is what the statements before pc leave; while
\* threads run it is what they make of that memory.
MemReached ==
  /\ threads = <<>> => mem = Reach(func, pc - 1)
  /\ threads # <<>> => Going(threads, mem, Reach(func, pc - 1), Body(func[pc]), ByX(func[pc]), ByY(func[pc]))

ExecInv == phase # "aborted" /\ RaceFreeSource => FuncComputes /\ HostReached /\ MemReached

\* A compiled function starts as the invariant says.
LEMMA InitExec == Init => ExecInv
<1> SUFFICES ASSUME Init, phase # "aborted", RaceFreeSource PROVE FuncComputes /\ HostReached /\ MemReached
  BY Zenon DEF ExecInv
<1>1. source \in Programs /\ func = Compiled(source) /\ pc = 1 /\ mem = Zeros /\ threads = <<>> /\ phase # "done"
  BY DEF Init
<1>2. func \in Seq(Lowered)
  BY <1>1, CompiledType, Zenon
<1>3. Len(func) \in Nat /\ DOMAIN func = 1..Len(func)
  BY <1>2, SeqParts, Zenon
<1>4. ~HasAbort(func)
  <2>1. ~(\E i \in DOMAIN func : func[i].kind = "abort")
    BY DEF Init
  <2> QED
    BY <1>3, <2>1, Zenon DEF HasAbort
<1>5. Computes(func, source)
  BY <1>1, CompiledComputes, Zenon DEF RaceFreeSource
<1>6. FuncComputes
  BY <1>4, <1>5, Zenon DEF Computes, FuncComputes
<1>7. HostReached
  BY <1>1, <1>3 DEF HostReached
<1>8. Reach(func, 0) = Zeros
  BY <1>3, <1>6, ReachIs, Zenon DEF FuncComputes
<1>9. MemReached
  <2>1. 1 - 1 = 0
    OBVIOUS
  <2> QED
    BY <1>1, <1>8, <2>1, Zenon DEF MemReached
<1> QED
  BY <1>6, <1>7, <1>9, Zenon

\* What the invariant says of a function that has threads.
LEMMA WhileThreads ==
  ASSUME Inv, FuncComputes, HostReached, MemReached, NEW t \in DOMAIN threads
  PROVE  LET B == Body(func[pc])
             p == ByX(func[pc])
             q == ByY(func[pc])
             m == Reach(func, pc - 1)
         IN  /\ threads # <<>> /\ phase = "run" /\ Sound(func[pc]) /\ func[pc].kind # "host"
             /\ m \in Mems /\ Fine(B, p, q) /\ B \in Seq(Atoms) /\ AllSafe(B, p, q) /\ p \in Nat /\ q \in Nat
             /\ Going(threads, mem, m, B, p, q)
             /\ InsideGuard(func[pc], t) <=> t \in Threads(p, q)
             /\ threads[t].at \in Nat /\ Len(B) \in Nat
<1>1. threads # <<>>
  BY DEF Inv
<1>2. phase = "run" /\ pc \in Nat \ {0} /\ pc <= Len(func) /\ func[pc].kind # "host" /\ DOMAIN threads = Grid(func[pc])
  BY <1>1, Zenon DEF Inv, ThreadsLaunched
<1>3. Len(func) \in Nat
  BY SeqParts, Zenon DEF Inv, FuncLowered
<1>4. pc \in 1..Len(func) /\ pc - 1 \in 0..Len(func)
  BY <1>2, <1>3
<1>5. PICK s : s = func[pc]
  OBVIOUS
<1>6. Sound(s) /\ s.kind # "host"
  BY <1>2, <1>4, <1>5, Zenon DEF FuncComputes, AllSound
<1>7. PICK m : m = Reach(func, pc - 1)
  OBVIOUS
<1>8. m \in Mems
  BY <1>3, <1>4, <1>7, ReachIs, Zenon DEF FuncComputes
<1>9. PICK B, p, q : B = Body(s) /\ p = ByX(s) /\ q = ByY(s)
  OBVIOUS
<1>10. /\ B \in Seq(Atoms) /\ Fine(B, p, q) /\ AllSafe(B, p, q) /\ p \in Nat /\ q \in Nat
       /\ \A u \in Grid(s) : InsideGuard(s, u) <=> u \in Threads(p, q)
  BY <1>6, <1>9, LaunchedThreads, Zenon
<1>11. InsideGuard(s, t) <=> t \in Threads(p, q)
  BY <1>2, <1>5, <1>10, Zenon
<1>12. Going(threads, mem, m, B, p, q)
  BY <1>1, <1>5, <1>7, <1>9, Zenon DEF MemReached
<1>13. threads[t].at \in Nat /\ Len(B) \in Nat
  BY <1>10, <1>12, RegistersOf, SeqParts, Zenon
<1> QED
  BY <1>1, <1>2, <1>5, <1>6, <1>7, <1>8, <1>9, <1>10, <1>11, <1>12, <1>13, Zenon

\* A step of a thread keeps the memory what the threads make of it.
LEMMA ThreadGoes ==
  ASSUME Inv, FuncComputes, HostReached, MemReached, NEW t, Thread(t)
  PROVE  Going(threads', mem', Reach(func, pc - 1), Body(func[pc]), ByX(func[pc]), ByY(func[pc]))
<1>1. t \in DOMAIN threads
  BY DEF Thread, EarlyExit, SkipGuarded, LoadOperand, Commit
<1>2. PICK s, B, p, q, m : s = func[pc] /\ B = Body(func[pc]) /\ p = ByX(func[pc]) /\ q = ByY(func[pc])
                           /\ m = Reach(func, pc - 1)
  OBVIOUS
<1>3. /\ m \in Mems /\ Fine(B, p, q) /\ B \in Seq(Atoms) /\ AllSafe(B, p, q) /\ p \in Nat /\ q \in Nat
      /\ Going(threads, mem, m, B, p, q)
      /\ InsideGuard(s, t) <=> t \in Threads(p, q)
      /\ threads[t].at \in Nat /\ Len(B) \in Nat
  BY <1>1, <1>2, WhileThreads, Zenon
<1>4. AtomOf(t) = B[threads[t].at] /\ (~Finished(t) => threads[t].at <= Len(B))
  <2>1. ~(threads[t].at > Len(B)) => threads[t].at <= Len(B)
    BY <1>3
  <2> QED
    BY <1>2, <2>1, Zenon DEF AtomOf, Finished
<1>5. PICK a : a = B[threads[t].at]
  OBVIOUS
<1>6. CASE EarlyExit(t)
  <2>1. t \notin Threads(p, q) /\ mem' = mem /\ threads' = [threads EXCEPT ![t].at = Len(B) + 1]
    BY <1>2, <1>3, <1>6, Zenon DEF EarlyExit
  <2>2. Going([threads EXCEPT ![t].at = Len(B) + 1], mem, m, B, p, q)
    BY <1>1, <1>3, <2>1, ExitGoes
  <2> QED
    BY <1>2, <2>1, <2>2, Zenon
<1>7. CASE SkipGuarded(t)
  <2>1. /\ t \in Threads(p, q) /\ mem' = mem /\ threads' = [threads EXCEPT ![t].at = @ + 1]
        /\ threads[t].at <= Len(B) /\ ~Executes(B[threads[t].at], t)
    BY <1>2, <1>3, <1>4, <1>7, Zenon DEF SkipGuarded, Executes
  <2>2. Going([threads EXCEPT ![t].at = @ + 1], mem, m, B, p, q)
    BY <1>3, <2>1, SkipGoes
  <2> QED
    BY <1>2, <2>1, <2>2, Zenon
<1>8. CASE LoadOperand(t)
  <2>1. /\ t \in Threads(p, q) /\ mem' = mem
        /\ threads' = [threads EXCEPT ![t].loaded = TRUE, ![t].reg = Operand(t)]
        /\ threads[t].at <= Len(B) /\ Executes(B[threads[t].at], t)
    BY <1>2, <1>3, <1>4, <1>8, Zenon DEF LoadOperand, Executes
  <2>2. Operand(t) = OperandOf(mem, B[threads[t].at], t)
    BY <1>4, Zenon DEF Operand, OperandOf, Target
  <2>3. Going([threads EXCEPT ![t].loaded = TRUE, ![t].reg = OperandOf(mem, B[threads[t].at], t)], mem, m, B, p, q)
    BY <1>3, <2>1, LoadGoes
  <2> QED
    BY <1>2, <2>1, <2>2, <2>3, Zenon
<1>9. CASE Commit(t)
  <2>1. /\ threads[t].loaded
        /\ threads' = [threads EXCEPT ![t] = [at |-> @.at + 1, loaded |-> FALSE, reg |-> 0]]
    BY <1>9, Zenon DEF Commit
  <2>2. mem' = CommitOf(mem, B[threads[t].at], t, threads[t].reg)
    BY <1>4, <1>9, Zenon DEF Commit, CommitOf
  <2>3. Going([threads EXCEPT ![t] = [at |-> @.at + 1, loaded |-> FALSE, reg |-> 0]],
              CommitOf(mem, B[threads[t].at], t, threads[t].reg), m, B, p, q)
    BY <1>1, <1>3, <2>1, CommitGoes
  <2> QED
    BY <1>2, <2>1, <2>2, <2>3, Zenon
<1> QED
  BY <1>6, <1>7, <1>8, <1>9, Zenon DEF Thread

\* Steps of threads keep the invariant.
LEMMA ThreadExec ==
  ASSUME Inv, ExecInv, NEW t, Thread(t)
  PROVE  ExecInv'
<1>1. source' = source /\ func' = func /\ phase' = phase /\ pc' = pc /\ t \in DOMAIN threads
  BY DEF Thread, EarlyExit, SkipGuarded, LoadOperand, Commit
<1>2. DOMAIN threads' = DOMAIN threads
  BY DEF Thread, EarlyExit, SkipGuarded, LoadOperand, Commit
<1>3. threads' # <<>>
  BY <1>1, <1>2
<1> SUFFICES ASSUME phase # "aborted", RaceFreeSource PROVE (FuncComputes /\ HostReached /\ MemReached)'
  BY <1>1, Zenon DEF ExecInv, RaceFreeSource
<1>4. FuncComputes /\ HostReached /\ MemReached
  BY Zenon DEF ExecInv
<1>5. FuncComputes' /\ HostReached'
  BY <1>1, <1>4, Zenon DEF FuncComputes, HostReached
<1>6. Going(threads', mem', Reach(func, pc - 1), Body(func[pc]), ByX(func[pc]), ByY(func[pc]))
  BY <1>4, ThreadGoes, Zenon
<1>7. MemReached'
  BY <1>1, <1>3, <1>6, Zenon DEF MemReached
<1> QED
  BY <1>5, <1>7, Zenon

\* The statement the host is at.
LEMMA AtStatement ==
  ASSUME Inv, FuncComputes, pc <= Len(func)
  PROVE  LET m == Reach(func, pc - 1) IN
         /\ Len(func) \in Nat /\ pc \in 1..Len(func) /\ Sound(func[pc]) /\ m \in Mems
         /\ Reach(func, (pc + 1) - 1) = Does(func[pc])[m]
         /\ Does(func[pc])[m] = Whole(m, Code(func[pc]), ByX(func[pc]), ByY(func[pc]))
<1>1. PICK n \in Nat : n = Len(func)
  BY SeqParts, Zenon DEF Inv, FuncLowered
<1>2. pc \in Nat \ {0} /\ pc <= n
  BY <1>1, Zenon DEF Inv, ThreadsLaunched
<1>3. PICK i \in 0..(n - 1) : pc = i + 1 /\ pc - 1 = i /\ (pc + 1) - 1 = i + 1 /\ i \in 0..n
  <2>1. pc - 1 \in 0..(n - 1) /\ pc = (pc - 1) + 1 /\ (pc + 1) - 1 = (pc - 1) + 1 /\ pc - 1 \in 0..n
    BY <1>2
  <2> QED
    BY <2>1, Zenon
<1>4. pc \in 1..n
  BY <1>2
<1>5. Reach(func, i) \in Mems /\ Reach(func, i + 1) = Does(func[i + 1])[Reach(func, i)]
  BY <1>1, <1>3, ReachIs, Zenon DEF FuncComputes
<1>6. Sound(func[pc])
  BY <1>1, <1>4, Zenon DEF FuncComputes, AllSound
<1>7. Does(func[pc])[Reach(func, i)] = Whole(Reach(func, i), Code(func[pc]), ByX(func[pc]), ByY(func[pc]))
  BY <1>5, Zenon DEF Does
<1> QED
  BY <1>1, <1>3, <1>4, <1>5, <1>6, <1>7, Zenon

\* Steps of the host keep the invariant.
LEMMA HostExec ==
  ASSUME Inv, ExecInv, Host
  PROVE  ExecInv'
<1>1. source' = source /\ func' = func /\ (phase = "aborted" => phase' = "aborted")
  <2>1. phase = "aborted" => ~Return
    BY DEF Return
  <2> QED
    BY <2>1, Zenon DEF Host, HostStmt, Launch, DeviceSync, Return
<1> SUFFICES ASSUME phase # "aborted", RaceFreeSource PROVE (FuncComputes /\ HostReached /\ MemReached)'
  BY <1>1, Zenon DEF ExecInv, RaceFreeSource
<1>2. FuncComputes /\ HostReached /\ MemReached
  BY Zenon DEF ExecInv
<1>3. FuncComputes'
  BY <1>1, <1>2, Zenon DEF FuncComputes
<1>4. Len(func) \in Nat /\ pc \in Nat \ {0}
  BY SeqParts, Zenon DEF Inv, FuncLowered, ThreadsLaunched
<1>5. CASE HostStmt
  <2>1. pc <= Len(func) /\ func[pc].kind = "host" /\ mem' = RunStmt(mem, func[pc]) /\ pc' = pc + 1
        /\ phase' = "run" /\ threads' = threads
    BY <1>5 DEF HostStmt
  <2>2. threads = <<>>
    BY <2>1, Zenon DEF Inv, ThreadsLaunched
  <2>3. PICK m \in Mems : m = Reach(func, pc - 1)
    BY <1>2, <2>1, AtStatement, Zenon
  <2>4. Sound(func[pc]) /\ Reach(func, (pc + 1) - 1) = Does(func[pc])[m]
    BY <1>2, <2>1, <2>3, AtStatement, Zenon
  <2>5. func[pc] \in Hosts
    BY <2>1, <2>4, KindOf, Zenon DEF Sound
  <2>6. Does(func[pc])[m] = RunStmt(m, func[pc])
    BY <2>5, HostMatches, Zenon DEF Matches
  <2>7. mem = m
    BY <1>2, <2>2, <2>3, Zenon DEF MemReached
  <2>8. MemReached'
    BY <1>1, <2>1, <2>2, <2>4, <2>6, <2>7, Zenon DEF MemReached
  <2>9. HostReached'
    <3>1. pc + 1 \in 1..(Len(func) + 1)
      BY <1>4, <2>1
    <3>2. phase' # "done"
      BY <2>1
    <3> QED
      BY <1>1, <2>1, <3>1, <3>2, Zenon DEF HostReached
  <2> QED
    BY <1>3, <2>8, <2>9, Zenon
<1>6. CASE Launch
  <2>1. pc <= Len(func) /\ func[pc].kind # "host" /\ threads = <<>> /\ mem' = mem /\ pc' = pc /\ phase' = phase
        /\ threads' = [t \in Grid(func[pc]) |-> [at |-> 1, loaded |-> FALSE, reg |-> 0]]
    BY <1>6, Zenon DEF Launch
  <2>2. PICK m \in Mems : m = Reach(func, pc - 1)
    BY <1>2, <2>1, AtStatement, Zenon
  <2>3. Sound(func[pc])
    BY <1>2, <2>1, AtStatement, Zenon
  <2>4. mem = m
    BY <1>2, <2>1, <2>2, Zenon DEF MemReached
  <2>5. PICK B, p, q : B = Body(func[pc]) /\ p = ByX(func[pc]) /\ q = ByY(func[pc])
    OBVIOUS
  <2>6. B \in Seq(Atoms) /\ AllSafe(B, p, q) /\ p \in Nat /\ q \in Nat /\ Threads(p, q) \subseteq Grid(func[pc])
    BY <2>1, <2>3, <2>5, LaunchedThreads, Zenon
  <2>7. Going(threads', m, m, B, p, q)
    BY <2>1, <2>6, StartGoes
  <2>8. MemReached'
    BY <1>1, <2>1, <2>2, <2>4, <2>5, <2>7, Zenon DEF MemReached
  <2>9. HostReached'
    BY <1>1, <1>2, <2>1, Zenon DEF HostReached
  <2> QED
    BY <1>3, <2>8, <2>9, Zenon
<1>7. CASE DeviceSync
  <2>1. threads # <<>> /\ (\A t \in DOMAIN threads : Finished(t)) /\ threads' = <<>> /\ pc' = pc + 1
        /\ phase' = phase /\ mem' = mem
    BY <1>7, Zenon DEF DeviceSync
  <2>2. phase = "run" /\ pc <= Len(func) /\ func[pc].kind # "host"
    BY <2>1, Zenon DEF Inv, ThreadsLaunched
  <2>3. PICK m \in Mems : m = Reach(func, pc - 1)
    BY <1>2, <2>2, AtStatement, Zenon
  <2>4. Sound(func[pc]) /\ Reach(func, (pc + 1) - 1) = Whole(m, Code(func[pc]), ByX(func[pc]), ByY(func[pc]))
    BY <1>2, <2>2, <2>3, AtStatement
  <2>5. PICK B, p, q : B = Body(func[pc]) /\ p = ByX(func[pc]) /\ q = ByY(func[pc])
    OBVIOUS
  <2>6. B \in Seq(Atoms) /\ Code(func[pc]) = B
    BY <2>2, <2>4, <2>5, LaunchedThreads, Zenon
  <2>7. Going(threads, mem, m, B, p, q)
    BY <1>2, <2>1, <2>3, <2>5, Zenon DEF MemReached
  <2>8. \A t \in DOMAIN threads : threads[t].at > Len(B)
    BY <2>1, <2>5, Zenon DEF Finished
  <2>9. mem = Whole(m, B, p, q)
    BY <2>6, <2>7, <2>8, EndGoes
  <2>10. MemReached'
    BY <1>1, <2>1, <2>4, <2>5, <2>6, <2>9, Zenon DEF MemReached
  <2>11. HostReached'
    <3>1. pc + 1 \in 1..(Len(func) + 1)
      BY <1>4, <2>2
    <3>2. phase' # "done"
      BY <2>1, <2>2
    <3> QED
      BY <1>1, <2>1, <3>1, <3>2, Zenon DEF HostReached
  <2> QED
    BY <1>3, <2>10, <2>11, Zenon
<1>8. CASE Return
  <2>1. pc > Len(func) /\ pc' = pc /\ mem' = mem /\ threads' = threads
    BY <1>8, Zenon DEF Return
  <2>2. pc = Len(func) + 1
    <3>1. pc \in 1..(Len(func) + 1)
      BY <1>2, Zenon DEF HostReached
    <3> QED
      BY <1>4, <2>1, <3>1
  <2>3. HostReached'
    BY <1>1, <1>2, <2>1, <2>2, Zenon DEF HostReached
  <2>4. MemReached'
    BY <1>1, <1>2, <2>1, Zenon DEF MemReached
  <2> QED
    BY <1>3, <2>3, <2>4, Zenon
<1> QED
  BY <1>5, <1>6, <1>7, <1>8, Zenon DEF Host

\* Every step keeps the invariant.
LEMMA NextExec ==
  ASSUME Inv, ExecInv, [Next]_vars
  PROVE  ExecInv'
<1>1. CASE Host
  BY <1>1, HostExec, Zenon
<1>2. CASE \E t \in AllTids \X AllTids : Thread(t)
  BY <1>2, ThreadExec, Zenon
<1>3. CASE UNCHANGED vars
  <2>1. source' = source /\ func' = func /\ phase' = phase /\ pc' = pc /\ mem' = mem /\ threads' = threads
    BY <1>3, Zenon DEF vars
  <2> QED
    BY <2>1, Zenon DEF ExecInv, RaceFreeSource, FuncComputes, HostReached, MemReached
<1> QED
  BY <1>1, <1>2, <1>3, Zenon DEF Next

\* A finished function has run all of its statements.
LEMMA DoneMatches ==
  ASSUME Inv, ExecInv
  PROVE  DoneMatchesSequential
<1> SUFFICES ASSUME phase = "done", RaceFreeSource PROVE mem = Expected
  BY Zenon DEF DoneMatchesSequential, RaceFreeSource
<1>1. phase # "aborted" /\ phase # "run"
  OBVIOUS
<1>2. FuncComputes /\ HostReached /\ MemReached
  BY <1>1, Zenon DEF ExecInv
<1>3. threads = <<>>
  BY <1>1, Zenon DEF Inv, ThreadsLaunched
<1>4. Len(func) \in Nat
  BY SeqParts, Zenon DEF Inv, FuncLowered
<1>5. pc - 1 = Len(func)
  <2>1. pc = Len(func) + 1
    BY <1>2, Zenon DEF HostReached
  <2> QED
    BY <1>4, <2>1
<1>6. mem = Reach(func, Len(func))
  BY <1>2, <1>3, <1>5, Zenon DEF MemReached
<1>7. Reach(func, Len(func)) = RunList(Zeros, source)
  BY <1>2, <1>4, ReachIs, Zenon DEF FuncComputes
<1>8. Expected = RunList(Zeros, source)
  BY DEF Expected, RunList
<1> QED
  BY <1>6, <1>7, <1>8, Zenon

\* A function of race-free loops leaves the memory its sequential run leaves,
\* however its kernels were moved and fused and however their threads
\* interleave (KernelSwapRewriter, shardLoops, compile(GPUKernel)).
THEOREM RaceFreeFunctionsMatch == Spec => []DoneMatchesSequential
<1>1. Init => Inv /\ ExecInv
  BY InitInv, InitExec, Zenon
<1>2. Inv /\ ExecInv /\ [Next]_vars => (Inv /\ ExecInv)'
  BY NextInv, NextExec, Zenon
<1>3. Inv /\ ExecInv => DoneMatchesSequential
  BY DoneMatches, Zenon
<1> QED
  BY <1>1, <1>2, <1>3, PTL DEF Spec
=============================================================================
