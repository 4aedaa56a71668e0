------------------------- MODULE LLVMFunctionProofs -------------------------
(***************************************************************************)
(* The life of a compiled function on the CPU, for any formals, externs    *)
(* and objects, any number of changes and any answers of MCJIT.            *)
(*                                                                         *)
(* What a run sees is decided by earlier binds and inits, so the proofs    *)
(* rest on what the pointers of the compiled code hold between runs.       *)
(***************************************************************************)
EXTENDS LLVMFunction, TLAPS

\* While `initialized` stands the harness holds the objects bound now, as they
\* were at the last init, except where an init was left by an exception.
HarnessCurrent ==
  initialized /\ funcPtr # None =>
    \A n \in Args \ lost :
      /\ funcPtr[n].obj = arguments[n]
      /\ n \notin changed => funcPtr[n] = Snap(arguments[n])

\* An extern's pointers are those of the object bound to it, as it was then,
\* unless the bind was rejected.
ExternsCurrent ==
  \A n \in Globals \ lost :
    globals[n] # None =>
      /\ externPtrs[n] # None
      /\ externPtrs[n].obj = globals[n]
      /\ n \notin changed => externPtrs[n] = Snap(globals[n])

\* A set of other dimensions never gets past makeSet, nor past bind for an
\* extern.
PointersFit ==
  /\ funcPtr # None => \A n \in Args : funcPtr[n].obj \notin Misfit
  /\ \A n \in Globals :
       externPtrs[n] # None => externPtrs[n].obj \notin Misfit

\* A name that sizes memory stays bound: an init that got as far as the harness
\* found every set, and so will every later one.
SizesBound ==
  initialized \/ funcPtr # None => arguments[IndexedArg] # None /\ AllDimsBound

\* The pointers into the index and the vectors over arguments are those of the
\* sets the harness passes, except where an init was left by an exception; the
\* vectors over an extern are those of the set its pointers describe.
MemoryCurrent ==
  initialized /\ funcPtr # None =>
    /\ IndexedArg \notin lost => indexPtr.idx = funcPtr[IndexedArg]
    /\ indexPtr.alive => temporary = indexPtr.idx
    /\ \A n \in (Dims \cap Args) \ lost : vectors[n] = funcPtr[n]
    /\ \A n \in (Dims \cap Globals) \ (lost \cup unsized) : vectors[n] = externPtrs[n]

\* A run that was just made read the pointers as they stand.
RanReads ==
  ran # None =>
    /\ initialized /\ funcPtr # None /\ AllGlobalsBound
    /\ ran = [args |-> funcPtr, externs |-> externPtrs, index |-> indexPtr,
              temp |-> temporary, vectors |-> vectors]

Inv ==
  /\ TypeOK /\ HarnessCurrent /\ ExternsCurrent /\ PointersFit /\ SizesBound
  /\ MemoryCurrent /\ RanReads

USE NamesAssumption, ObjsAssumption, NoneAssumption

-----------------------------------------------------------------------------

\* A snapshot of an object is a snapshot, and not null.
LEMMA SnapIsSnap ==
  ASSUME TypeOK, NEW o \in Objs
  PROVE  Snap(o) \in Snaps /\ Snap(o) # None
<1>1. Snap(o) \in Snaps
  BY DEF Snap, Snaps, TypeOK
<1> QED
  BY <1>1

\* A function that was never bound has no pointers to keep.
LEMMA InitInv == Init => Inv
<1> SUFFICES ASSUME Init PROVE Inv
  OBVIOUS
<1>1. TypeOK
  <2>1. version \in [Objs -> 0..MaxVersion]
    BY MaxVersionAssumption DEF Init
  <2>2. /\ arguments \in [Args -> Objs \cup {None}]
        /\ globals \in [Globals -> Objs \cup {None}]
        /\ externPtrs \in [Globals -> Snaps \cup {None}]
        /\ vectors \in [Dims -> Snaps \cup {None}]
    BY DEF Init
  <2> QED
    BY <2>1, <2>2 DEF Init, TypeOK
<1>2. HarnessCurrent /\ ExternsCurrent /\ PointersFit /\ SizesBound /\ MemoryCurrent /\ RanReads
  BY DEF Init, HarnessCurrent, ExternsCurrent, PointersFit, SizesBound, MemoryCurrent,
         RanReads
<1> QED
  BY <1>1, <1>2 DEF Inv

\* The client's change marks every name the object is bound to.
LEMMA ChangeInv ==
  ASSUME Inv, NEW o \in Objs, Change(o)
  PROVE  Inv'
<1> USE DEF Inv
<1>1. TypeOK'
  <2>1. version' \in [Objs -> 0..MaxVersion]
    BY MaxVersionAssumption DEF Change, TypeOK
  <2>2. changed' \subseteq Names
    BY DEF Change, TypeOK, Names
  <2> QED
    BY <2>1, <2>2 DEF Change, TypeOK
<1>2. \A x \in Objs \ {o} : Snap(x)' = Snap(x)
  BY DEF Change, TypeOK, Snap
<1>3. HarnessCurrent'
  <2> SUFFICES ASSUME initialized, funcPtr # None, NEW n \in Args \ lost
               PROVE  /\ funcPtr[n].obj = arguments[n]
                      /\ n \notin changed' =>
                           funcPtr[n] = Snap(arguments[n])'
    BY DEF HarnessCurrent, Change
  <2>1. /\ funcPtr[n].obj = arguments[n]
        /\ n \notin changed => funcPtr[n] = Snap(arguments[n])
    BY DEF HarnessCurrent
  <2>2. arguments[n] \in Objs
    BY <2>1 DEF TypeOK, Snaps
  <2>3. n \notin changed' => n \notin changed /\ arguments[n] # o
    BY DEF Change
  <2>4. arguments' = arguments
    BY DEF Change
  <2> QED
    BY <2>1, <2>2, <2>3, <2>4, <1>2 DEF Snap
<1>4. ExternsCurrent'
  <2> SUFFICES ASSUME NEW n \in Globals \ lost, globals[n] # None
               PROVE  /\ externPtrs[n] # None
                      /\ externPtrs[n].obj = globals[n]
                      /\ n \notin changed' =>
                           externPtrs[n] = Snap(globals[n])'
    BY DEF ExternsCurrent, Change
  <2>1. /\ externPtrs[n] # None
        /\ externPtrs[n].obj = globals[n]
        /\ n \notin changed => externPtrs[n] = Snap(globals[n])
    BY DEF ExternsCurrent
  <2>2. globals[n] \in Objs
    BY DEF TypeOK
  <2>3. n \notin changed' => n \notin changed /\ globals[n] # o
    BY DEF Change
  <2>4. globals' = globals
    BY DEF Change
  <2> QED
    BY <2>1, <2>2, <2>3, <2>4, <1>2 DEF Snap
<1>5. PointersFit' /\ SizesBound' /\ MemoryCurrent' /\ RanReads'
  BY DEF Change, PointersFit, SizesBound, MemoryCurrent, RanReads, AllDimsBound,
         Actual
<1> QED
  BY <1>1, <1>3, <1>4, <1>5

\* Rebinding an argument withdraws `initialized`.
LEMMA BindArgumentInv ==
  ASSUME Inv, NEW n \in Args, NEW o \in Objs, BindArgument(n, o)
  PROVE  Inv'
<1> USE DEF Inv
<1>1. TypeOK'
  BY DEF BindArgument, TypeOK
<1>2. HarnessCurrent' /\ RanReads'
  BY DEF BindArgument, HarnessCurrent, RanReads
<1>3. ExternsCurrent'
  <2> SUFFICES ASSUME NEW m \in Globals \ lost, globals[m] # None
               PROVE  /\ externPtrs[m] # None
                      /\ externPtrs[m].obj = globals[m]
                      /\ m \notin changed' =>
                           externPtrs[m] = Snap(globals[m])'
    BY DEF ExternsCurrent, BindArgument
  <2>1. m \notin changed' => m \notin changed
    BY DEF BindArgument
  <2> QED
    BY <2>1 DEF BindArgument, ExternsCurrent, Snap
<1>4. PointersFit' /\ SizesBound' /\ MemoryCurrent'
  <2>1. /\ arguments[IndexedArg] # None => arguments'[IndexedArg] # None
        /\ \A m \in Dims : Actual(m) # None => Actual(m)' # None
    BY DEF BindArgument, TypeOK, Actual
  <2> QED
    BY <2>1 DEF BindArgument, PointersFit, SizesBound, MemoryCurrent, AllDimsBound
<1> QED
  BY <1>1, <1>2, <1>3, <1>4

\* An extern that fits is captured by bind itself.
LEMMA BindGlobalInv ==
  ASSUME Inv, NEW n \in Globals, NEW o \in Objs, BindGlobal(n, o)
  PROVE  Inv'
<1> USE DEF Inv
<1>1. Snap(o) \in Snaps /\ Snap(o) # None /\ Snap(o).obj = o
  BY SnapIsSnap DEF Snap
<1>2. TypeOK'
  BY <1>1 DEF BindGlobal, TypeOK, Names
<1>3. HarnessCurrent'
  <2>1. \A m \in Args \ lost' : m \in Args \ lost /\ (m \notin changed' => m \notin changed)
    BY DEF BindGlobal
  <2> QED
    BY <2>1 DEF BindGlobal, HarnessCurrent, Snap
<1>4. ExternsCurrent'
  <2> SUFFICES ASSUME NEW m \in Globals \ lost', globals'[m] # None
               PROVE  /\ externPtrs'[m] # None
                      /\ externPtrs'[m].obj = globals'[m]
                      /\ m \notin changed' =>
                           externPtrs'[m] = Snap(globals[m])'
    BY DEF ExternsCurrent, Snap
  <2>1. version' = version
    BY DEF BindGlobal
  <2>2. CASE m = n
    <3>1. externPtrs'[m] = Snap(o) /\ globals'[m] = o
      BY <2>2 DEF BindGlobal, TypeOK
    <3> QED
      BY <3>1, <2>1, <1>1 DEF Snap
  <2>3. CASE m # n
    <3>1. externPtrs'[m] = externPtrs[m] /\ globals'[m] = globals[m]
      BY <2>3 DEF BindGlobal, TypeOK
    <3>2. m \in Globals \ lost /\ (m \notin changed' => m \notin changed)
      BY <2>3 DEF BindGlobal
    <3> QED
      BY <3>1, <3>2, <2>1 DEF ExternsCurrent, Snap
  <2> QED
    BY <2>2, <2>3
<1>5. PointersFit'
  BY <1>1 DEF BindGlobal, PointersFit, TypeOK
<1>6. SizesBound' /\ RanReads'
  <2>1. \A m \in Dims : Actual(m) # None => Actual(m)' # None
    BY DEF BindGlobal, TypeOK, Actual
  <2> QED
    BY <2>1 DEF BindGlobal, SizesBound, AllDimsBound, RanReads
<1>7. MemoryCurrent'
  <2>1. \A m \in Globals \ (lost' \cup unsized') :
          m \in Globals \ (lost \cup unsized) /\ externPtrs'[m] = externPtrs[m]
    BY DEF BindGlobal, TypeOK
  <2>2. \A m \in Args : m \in lost' <=> m \in lost
    BY DEF BindGlobal
  <2> QED
    BY <2>1, <2>2 DEF BindGlobal, MemoryCurrent
<1> QED
  BY <1>2, <1>3, <1>4, <1>5, <1>6, <1>7

\* A rejected extern keeps its old pointers and counts as lost.
LEMMA BindGlobalThrowsInv ==
  ASSUME Inv, NEW n \in Globals, NEW o \in Objs, BindGlobalThrows(n, o)
  PROVE  Inv'
<1> USE DEF Inv
<1>1. TypeOK'
  BY DEF BindGlobalThrows, TypeOK, Names
<1>2. HarnessCurrent'
  BY DEF BindGlobalThrows, HarnessCurrent, Snap
<1>3. ExternsCurrent'
  <2>1. \A m \in Globals \ lost' : m \in Globals \ lost /\ globals'[m] = globals[m]
    BY DEF BindGlobalThrows, TypeOK
  <2> QED
    BY <2>1 DEF BindGlobalThrows, ExternsCurrent, Snap
<1>4. PointersFit' /\ MemoryCurrent' /\ RanReads'
  BY DEF BindGlobalThrows, PointersFit, MemoryCurrent, RanReads
<1>5. SizesBound'
  <2>1. \A m \in Dims : Actual(m) # None => Actual(m)' # None
    BY DEF BindGlobalThrows, TypeOK, Actual
  <2> QED
    BY <2>1 DEF BindGlobalThrows, SizesBound, AllDimsBound
<1> QED
  BY <1>1, <1>2, <1>3, <1>4, <1>5

-----------------------------------------------------------------------------

\* What the names of Dims are bound to.
LEMMA SizedIs ==
  ASSUME TypeOK, NEW n \in Dims, Actual(n) # None
  PROVE  /\ Sized(n) \in Snaps
         /\ n \in Args => Sized(n) = Snap(arguments[n])
         /\ n \in Globals => Sized(n) = Snap(globals[n]) /\ globals[n] # None
<1>1. Actual(n) \in Objs
  BY DEF Actual, TypeOK
<1>2. /\ n \in Args => Actual(n) = arguments[n]
      /\ n \in Globals => Actual(n) = globals[n]
  BY DEF Actual
<1> QED
  BY <1>1, <1>2, SnapIsSnap DEF Sized

\* What init builds before the harness is of the sets bound now.
LEMMA BeginInitIs ==
  ASSUME Inv, BeginInit
  PROVE  /\ arguments[IndexedArg] \in Objs
         /\ pathIndices' \in Snaps
         /\ indexPtr' \in [idx : Snaps, alive : BOOLEAN]
         /\ temporary' \in Snaps
         /\ vectors' \in [Dims -> Snaps]
         /\ unsized' = changed \cap Globals
         /\ indexPtr'.idx = Snap(arguments[IndexedArg])
         /\ indexPtr'.alive => temporary' = indexPtr'.idx
         /\ \A n \in Dims \cap Args : vectors'[n] = Snap(arguments[n])
         /\ \A n \in (Dims \cap Globals) \ (lost \cup unsized') :
              vectors'[n] = externPtrs[n]
<1>1. arguments[IndexedArg] \in Objs
  BY DEF BeginInit, Inv, TypeOK
<1>2. BuiltIndex \in Snaps /\ BuiltIndex = Snap(arguments[IndexedArg])
  BY <1>1, SnapIsSnap DEF Inv, BuiltIndex
<1>3. KeptIndex \in Snaps /\ (pathIndices = None => KeptIndex = BuiltIndex)
  BY <1>2 DEF Inv, TypeOK, KeptIndex
<1>4. /\ pathIndices' = KeptIndex /\ temporary' = KeptIndex
      /\ indexPtr' = [idx |-> BuiltIndex, alive |-> pathIndices = None]
      /\ vectors' = [n \in Dims |-> Sized(n)] /\ unsized' = changed \cap Globals
  BY DEF BeginInit, InitIndices, AllocateTemporaries
<1>5. \A n \in Dims :
        /\ Sized(n) \in Snaps
        /\ n \in Args => Sized(n) = Snap(arguments[n])
        /\ n \in Globals => Sized(n) = Snap(globals[n]) /\ globals[n] # None
  BY SizedIs DEF BeginInit, AllDimsBound, Inv
<1>6. ASSUME NEW n \in (Dims \cap Globals) \ (lost \cup unsized')
      PROVE  vectors'[n] = externPtrs[n]
  <2>1. n \notin changed
    BY <1>4
  <2>2. externPtrs[n] = Snap(globals[n])
    BY <1>5, <2>1 DEF Inv, ExternsCurrent
  <2> QED
    BY <1>4, <1>5, <2>2
<1>7. \A n \in Dims \cap Args : vectors'[n] = Snap(arguments[n])
  BY <1>4, <1>5
<1>8. vectors' \in [Dims -> Snaps]
  BY <1>4, <1>5
<1>9. /\ indexPtr' \in [idx : Snaps, alive : BOOLEAN]
      /\ indexPtr'.idx = Snap(arguments[IndexedArg])
      /\ indexPtr'.alive => temporary' = indexPtr'.idx
  BY <1>2, <1>3, <1>4
<1> QED
  BY <1>1, <1>3, <1>4, <1>6, <1>7, <1>8, <1>9

\* init completed: the harness is made of what is bound now.
LEMMA InitOkInv ==
  ASSUME Inv, InitOk
  PROVE  /\ TypeOK' /\ HarnessCurrent' /\ ExternsCurrent' /\ PointersFit'
         /\ SizesBound' /\ MemoryCurrent' /\ initialized' /\ funcPtr' # None
<1>1. BeginInit /\ initialized'
  BY DEF InitOk, BeginInit
<1>2. \A n \in Args : arguments[n] \in Objs \ Misfit
  BY DEF InitOk, HarnessBuilds, AllArgsBound, Inv, TypeOK
<1>3. \A n \in Args : Snap(arguments[n]) \in Snaps
  BY <1>2, SnapIsSnap DEF Inv
<1>4. funcPtr' = [n \in Args |-> Snap(arguments[n])]
  BY DEF InitOk, Baked
<1>5. funcPtr' \in [Args -> Snaps] /\ funcPtr' # None
  BY <1>3, <1>4
<1>6. TypeOK'
  BY <1>1, <1>5, BeginInitIs DEF InitOk, Inv, TypeOK
<1>7. HarnessCurrent'
  BY <1>4 DEF InitOk, HarnessCurrent, Snap
<1>8. ExternsCurrent'
  <2>1. \A m \in Globals : (m \notin lost' => m \notin lost) /\ (m \notin changed' => m \notin changed)
    BY DEF InitOk
  <2> QED
    BY <2>1 DEF InitOk, ExternsCurrent, Snap, Inv
<1>9. PointersFit'
  <2>1. \A n \in Args : funcPtr'[n].obj = arguments[n]
    BY <1>4 DEF Snap
  <2>2. externPtrs' = externPtrs
    BY DEF InitOk
  <2> QED
    BY <1>2, <2>1, <2>2 DEF PointersFit, Inv
<1>10. SizesBound'
  BY <1>1 DEF InitOk, BeginInit, SizesBound, AllDimsBound, Actual
<1>11. MemoryCurrent'
  <2>1. \A n \in Args : funcPtr'[n] = Snap(arguments[n])
    BY <1>4
  <2>2. externPtrs' = externPtrs /\ lost' = lost \ Args
    BY DEF InitOk
  <2>3. \A n \in (Dims \cap Globals) \ (lost' \cup unsized') :
          n \in (Dims \cap Globals) \ (lost \cup unsized')
    BY <2>2
  <2> QED
    BY <2>1, <2>2, <2>3, <1>1, BeginInitIs DEF MemoryCurrent
<1> QED
  BY <1>1, <1>5, <1>6, <1>7, <1>8, <1>9, <1>10, <1>11

\* init left by an exception: the old harness stays, and every argument is
\* lost until the next init completes.
LEMMA InitThrowsInv ==
  ASSUME Inv, InitThrows
  PROVE  /\ TypeOK' /\ HarnessCurrent' /\ ExternsCurrent' /\ PointersFit'
         /\ SizesBound' /\ MemoryCurrent'
<1>1. BeginInit /\ initialized'
  BY DEF InitThrows, BeginInit
<1>2. codegenDone' \in BOOLEAN
  BY DEF InitThrows
<1>3. TypeOK'
  BY <1>1, <1>2, BeginInitIs DEF InitThrows, Inv, TypeOK, Names
<1>4. HarnessCurrent'
  BY DEF InitThrows, HarnessCurrent
<1>5. ExternsCurrent'
  <2>1. \A m \in Globals : m \notin lost' => m \notin lost
    BY DEF InitThrows
  <2> QED
    BY <2>1 DEF InitThrows, ExternsCurrent, Snap, Inv
<1>6. PointersFit'
  BY DEF InitThrows, PointersFit, Inv
<1>7. SizesBound'
  BY <1>1 DEF InitThrows, BeginInit, SizesBound, AllDimsBound, Actual
<1>8. MemoryCurrent'
  <2>1. externPtrs' = externPtrs /\ lost' = lost \cup Args
    BY DEF InitThrows
  <2> QED
    BY <2>1, <1>1, BeginInitIs DEF MemoryCurrent
<1> QED
  BY <1>3, <1>4, <1>5, <1>6, <1>7, <1>8

\* init left before the harness is begun: there was none, for a set that sizes
\* memory is missing.
LEMMA InitThrowsEarlyInv ==
  ASSUME Inv, InitThrowsEarly
  PROVE  /\ TypeOK' /\ HarnessCurrent' /\ ExternsCurrent' /\ PointersFit'
         /\ SizesBound' /\ MemoryCurrent'
<1>1. ~initialized /\ funcPtr = None
  BY DEF InitThrowsEarly, Inv, SizesBound
<1>2. initialized' = initialized /\ funcPtr' = funcPtr
  BY DEF InitThrowsEarly
<1>3. /\ pathIndices' \in Snaps \cup {None}
      /\ indexPtr' \in [idx : Snaps, alive : BOOLEAN] \cup {None}
      /\ temporary' \in Snaps \cup {None}
      /\ vectors' \in [Dims -> Snaps \cup {None}]
  <2>1. CASE arguments[IndexedArg] = None
    BY <2>1 DEF InitThrowsEarly, Inv, TypeOK
  <2>2. CASE arguments[IndexedArg] # None
    <3>1. arguments[IndexedArg] \in Objs
      BY <2>2 DEF Inv, TypeOK
    <3>2. BuiltIndex \in Snaps
      BY <3>1, SnapIsSnap DEF Inv, BuiltIndex
    <3>3. KeptIndex \in Snaps
      BY <3>2 DEF Inv, TypeOK, KeptIndex
    <3>4. PICK done \in SUBSET {n \in Dims : Actual(n) # None} :
            vectors' = [n \in Dims |-> IF n \in done THEN Sized(n) ELSE vectors[n]]
      BY <2>2 DEF InitThrowsEarly
    <3>5. \A n \in done : Sized(n) \in Snaps
      BY SizedIs DEF Inv
    <3>6. vectors' \in [Dims -> Snaps \cup {None}]
      BY <3>4, <3>5 DEF Inv, TypeOK
    <3>7. /\ pathIndices' = KeptIndex /\ temporary' \in {temporary, KeptIndex}
          /\ indexPtr' = [idx |-> BuiltIndex, alive |-> pathIndices = None]
      BY <2>2 DEF InitThrowsEarly, InitIndices
    <3> QED
      BY <3>2, <3>3, <3>6, <3>7 DEF Inv, TypeOK
  <2> QED
    BY <2>1, <2>2
<1>4. TypeOK'
  BY <1>3 DEF InitThrowsEarly, Inv, TypeOK, Names
<1>5. HarnessCurrent' /\ SizesBound' /\ MemoryCurrent'
  BY <1>1, <1>2 DEF HarnessCurrent, SizesBound, MemoryCurrent
<1>6. ExternsCurrent'
  <2>1. \A m \in Globals : m \notin lost' => m \notin lost
    BY DEF InitThrowsEarly
  <2> QED
    BY <2>1 DEF InitThrowsEarly, ExternsCurrent, Snap, Inv
<1>7. PointersFit'
  BY <1>1, <1>2 DEF InitThrowsEarly, PointersFit, Inv
<1> QED
  BY <1>4, <1>5, <1>6, <1>7

\* A run reads the pointers as they stand.
LEMMA RunInv == ASSUME Inv, Run PROVE Inv'
<1> USE DEF Inv
<1>1. /\ TypeOK' /\ HarnessCurrent' /\ ExternsCurrent' /\ PointersFit'
      /\ SizesBound' /\ MemoryCurrent'
  BY DEF Run, TypeOK, HarnessCurrent, ExternsCurrent, PointersFit,
         SizesBound, MemoryCurrent, Snap, AllDimsBound, Actual
<1>2. RanReads'
  BY DEF Run, Reads, RanReads, AllGlobalsBound
<1> QED
  BY <1>1, <1>2

\* runSafe inits a function that is not initialized, then runs it.
LEMMA RunSafeInitInv == ASSUME Inv, RunSafeInit PROVE Inv'
<1>1. InitOk
  BY DEF RunSafeInit
<1>2. RanReads'
  <2>1. AllGlobalsBound'
    BY <1>1 DEF RunSafeInit, InitOk, AllGlobalsBound
  <2>2. externPtrs' = externPtrs
    BY <1>1 DEF InitOk
  <2>3. ran' = [args |-> funcPtr', externs |-> externPtrs, index |-> indexPtr',
                temp |-> temporary', vectors |-> vectors']
    BY DEF RunSafeInit, Reads
  <2> QED
    BY <2>1, <2>2, <2>3, <1>1, InitOkInv DEF RanReads
<1> QED
  BY <1>1, <1>2, InitOkInv DEF Inv

\* Every call of the client keeps the invariant.
LEMMA NextInv == Inv /\ [Next]_vars => Inv'
<1> SUFFICES ASSUME Inv, [Next]_vars PROVE Inv'
  OBVIOUS
<1>1. ASSUME NEW o \in Objs, Change(o) PROVE Inv'
  BY <1>1, ChangeInv
<1>2. ASSUME NEW n \in Args, NEW o \in Objs, BindArgument(n, o) PROVE Inv'
  BY <1>2, BindArgumentInv
<1>3. ASSUME NEW n \in Globals, NEW o \in Objs, BindGlobal(n, o) PROVE Inv'
  BY <1>3, BindGlobalInv
<1>4. ASSUME NEW n \in Globals, NEW o \in Objs, BindGlobalThrows(n, o)
      PROVE  Inv'
  BY <1>4, BindGlobalThrowsInv
<1>5. CASE CallInit
  <2>1. RanReads'
    BY <1>5 DEF CallInit, RanReads
  <2> QED
    BY <2>1, <1>5, InitOkInv, InitThrowsInv, InitThrowsEarlyInv DEF CallInit, Inv
<1>6. CASE Run
  BY <1>6, RunInv
<1>7. CASE RunSafeInit
  BY <1>7, RunSafeInitInv
<1>8. CASE RunSafeThrows
  <2>1. RanReads'
    BY <1>8 DEF RunSafeThrows, RanReads
  <2> QED
    BY <2>1, <1>8, InitThrowsInv, InitThrowsEarlyInv DEF RunSafeThrows, Inv
<1>9. CASE UNCHANGED vars
  BY <1>9 DEF vars, Inv, TypeOK, HarnessCurrent, ExternsCurrent, PointersFit,
              SizesBound, MemoryCurrent, RanReads, Snap, AllGlobalsBound,
              AllDimsBound, Actual
<1> QED
  BY <1>1, <1>2, <1>3, <1>4, <1>5, <1>6, <1>7, <1>8, <1>9 DEF Next

-----------------------------------------------------------------------------

\* The pointers of the compiled code follow binds and inits in every state.
THEOREM PointersFollow == Spec => []Inv
<1> QED
  BY InitInv, NextInv, PTL DEF Spec

\* Pointers are null or snapshots of objects the client has, for every
\* number of objects, names and changes.
THEOREM TypeCorrect == Spec => []TypeOK
<1>1. Inv => TypeOK
  BY DEF Inv
<1> QED
  BY <1>1, PointersFollow, PTL

\* A run works on the objects last bound to each name, unless the bind or the
\* init was left by an exception.
THEOREM RunsUseBoundObjects == Spec => []RunUsesBoundObjects
<1>1. Inv => RunUsesBoundObjects
  BY DEF Inv, RunUsesBoundObjects, RanReads, HarnessCurrent, ExternsCurrent,
         AllGlobalsBound
<1> QED
  BY <1>1, PointersFollow, PTL

\* A run sees every object as it is now, unless the client changed it after
\* its snapshot was taken.
THEOREM RunsAreFreshUnlessChanged == Spec => []RunFreshUnlessChanged
<1>1. Inv => RunFreshUnlessChanged
  BY DEF Inv, RunFreshUnlessChanged, RanReads, HarnessCurrent, ExternsCurrent,
         AllGlobalsBound
<1> QED
  BY <1>1, PointersFollow, PTL

\* What a run works with was made for the sets it works on, however often init
\* was called or left by an exception.
THEOREM RunMemoryAlwaysFits == Spec => []RunMemoryFits
<1>1. Inv => RunMemoryFits
  BY DEF Inv, RunMemoryFits, RanReads, MemoryCurrent
<1> QED
  BY <1>1, PointersFollow, PTL

\* No run is given a set whose dimensions do not fit its formal or extern.
THEOREM RunsNeverSeeMisfits == Spec => []RunNeverSeesMisfit
<1>1. Inv => RunNeverSeesMisfit
  BY DEF Inv, RunNeverSeesMisfit, RanReads, PointersFit
<1> QED
  BY <1>1, PointersFollow, PTL

=============================================================================
