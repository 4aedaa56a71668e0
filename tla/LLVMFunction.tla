---------------------------- MODULE LLVMFunction ----------------------------
(***************************************************************************)
(* The life of a compiled function on the CPU: Function (src/src/          *)
(* function.cpp) over LLVMFunction (src/src/backend/llvm/llvm_function.cpp)*)
(* and the client that binds, changes and runs.                            *)
(*                                                                         *)
(* What the function takes from an object is a snapshot: the size and the  *)
(* buffer addresses of a set, the value of a scalar passed by value.       *)
(* version[o] stands for all of that; the client's add, remove or scalar   *)
(* assignment makes a new one.  Arguments are captured by init, externs by *)
(* bind.  One tensor index is built, from the set bound to IndexedArg, and *)
(* the matrix temporary over it; vector and stencil temporaries are sized  *)
(* by the sets bound to Dims.                                              *)
(***************************************************************************)
EXTENDS Naturals

CONSTANTS
  Args,        \* formal arguments
  Globals,     \* set externs (a tensor extern is read through its pointer)
  Objs,        \* the client's sets and scalars
  IndexedArg,  \* the argument whose set the tensor index is built from
  Dims,        \* the names whose sets size a vector or a stencil temporary
  Misfit,      \* grid sets with another number of dimensions than the formal:
               \* bind accepts them as an argument, makeSet does not
  Lookup,      \* what MCJIT may answer when asked for a harness function that
               \* was added after code generation: found or not
  MaxVersion,  \* bound on the changes to one object
  None

ASSUME NamesAssumption ==
  Args \cap Globals = {} /\ IndexedArg \in Args /\ Dims \subseteq Args \cup Globals
ASSUME ObjsAssumption == Misfit \subseteq Objs /\ None \notin Objs
ASSUME LookupAssumption == Lookup \in (SUBSET BOOLEAN) \ {{}}
ASSUME MaxVersionAssumption == MaxVersion \in Nat

\* What the compiled code knows of an object.
Snaps == [obj : Objs, ver : 0..MaxVersion]

ASSUME NoneAssumption == None \notin Snaps \cup [Args -> Snaps]

VARIABLES
  version,      \* [Objs -> Nat]
  arguments,    \* LLVMFunction::arguments
  globals,      \* LLVMFunction::globals
  externPtrs,   \* what the extern pointers of the compiled code hold
  initialized,  \* LLVMFunction::initialized
  funcPtr,      \* Function::funcPtr: the snapshots baked into the harness
  codegenDone,  \* the harness module has been finalised once
  pathIndices,  \* the index kept alive by LLVMFunction::pathIndices
  indexPtr,     \* the index the compiled code reads, and whether it is alive
  temporary,    \* the index version the matrix temporary was sized for
  vectors,      \* what the temporaries over each of Dims were sized for
  ran,          \* what the run just made saw, or None
  changed,      \* history: names whose object changed after its snapshot
  lost,         \* history: names whose last bind or init was left by an exception
  unsized       \* history: externs whose pointers and temporaries were written
                \* for different snapshots

vars == <<version, arguments, globals, externPtrs, initialized, funcPtr,
          codegenDone, pathIndices, indexPtr, temporary, vectors, ran, changed,
          lost, unsized>>

Names == Args \cup Globals
Snap(o) == [obj |-> o, ver |-> version[o]]
AllArgsBound == \A n \in Args : arguments[n] # None
AllGlobalsBound == \A n \in Globals : globals[n] # None

\* size looks a set up among the arguments, then among the externs.
Actual(n) == IF n \in Args THEN arguments[n] ELSE globals[n]
AllDimsBound == \A n \in Dims : Actual(n) # None

-----------------------------------------------------------------------------

Init ==
  /\ version = [o \in Objs |-> 0]
  /\ arguments = [n \in Args |-> None]
  /\ globals = [n \in Globals |-> None]
  /\ externPtrs = [n \in Globals |-> None]
  /\ initialized = FALSE
  /\ funcPtr = None
  /\ codegenDone = FALSE
  /\ pathIndices = None
  /\ indexPtr = None
  /\ temporary = None
  /\ vectors = [n \in Dims |-> None]
  /\ ran = None
  /\ changed = {}
  /\ lost = {}
  /\ unsized = {}

\* The client changes an object: the function is not told.
Change(o) ==
  /\ version[o] < MaxVersion
  /\ version' = [version EXCEPT ![o] = @ + 1]
  /\ changed' = changed \cup {n \in Args : arguments[n] = o}
                        \cup {n \in Globals : globals[n] = o}
  /\ ran' = None
  /\ UNCHANGED <<arguments, globals, externPtrs, initialized, funcPtr,
                 codegenDone, pathIndices, indexPtr, temporary, vectors, lost, unsized>>

\* Slip: a rebound argument does not ask for a new init.
BindArgumentKeepsInit(n, o) ==
  /\ arguments' = [arguments EXCEPT ![n] = o]
  /\ changed' = changed \ {n}
  /\ ran' = None
  /\ UNCHANGED <<version, globals, externPtrs, initialized, funcPtr,
                 codegenDone, pathIndices, indexPtr, temporary, vectors, lost, unsized>>

\* LLVMFunction::bind on an argument.
BindArgument(n, o) ==
  /\ arguments' = [arguments EXCEPT ![n] = o]
  /\ initialized' = FALSE
  /\ changed' = changed \ {n}
  /\ ran' = None
  /\ UNCHANGED <<version, globals, externPtrs, funcPtr, codegenDone,
                 pathIndices, indexPtr, temporary, vectors, lost, unsized>>

\* LLVMFunction::bind on an extern: the snapshot is written at once, init is
\* not asked for, so its temporaries keep their size.  A grid set of the wrong
\* dimensions is rejected.
BindGlobal(n, o) ==
  /\ o \notin Misfit
  /\ globals' = [globals EXCEPT ![n] = o]
  /\ externPtrs' = [externPtrs EXCEPT ![n] = Snap(o)]
  /\ changed' = changed \ {n}
  /\ lost' = lost \ {n}
  /\ unsized' = unsized \cup {n}
  /\ ran' = None
  /\ UNCHANGED <<version, arguments, initialized, funcPtr, codegenDone,
                 pathIndices, indexPtr, temporary, vectors>>

\* The rejected extern has already replaced the old one in `globals`.
BindGlobalThrows(n, o) ==
  /\ o \in Misfit
  /\ globals' = [globals EXCEPT ![n] = o]
  /\ lost' = lost \cup {n}
  /\ ran' = None
  /\ UNCHANGED <<version, arguments, externPtrs, initialized, funcPtr,
                 codegenDone, pathIndices, indexPtr, temporary, vectors,
                 changed, unsized>>

\* What size finds out about a dimension.
Sized(n) == Snap(Actual(n))

\* The index init builds, and the one that stays in LLVMFunction::pathIndices:
\* map::insert keeps the first.
BuiltIndex == Snap(arguments[IndexedArg])
KeptIndex == IF pathIndices = None THEN BuiltIndex ELSE pathIndices

\* initIndices.  An index that is not the first is owned by the local builder
\* alone and dies when init returns, while the code's pointers point into it.
InitIndices ==
  /\ pathIndices' = KeptIndex
  /\ indexPtr' = [idx |-> BuiltIndex, alive |-> pathIndices = None]

\* Slip: a vector that is already there is kept.
AllocateTemporariesOnce ==
  /\ temporary' = KeptIndex
  /\ vectors' = [n \in Dims |-> IF vectors[n] = None THEN Sized(n) ELSE vectors[n]]
  /\ unsized' = changed \cap Globals

\* The temporaries: the matrix is sized from the index that was kept, vectors
\* and stencils from the sets bound now.
AllocateTemporaries ==
  /\ temporary' = KeptIndex
  /\ vectors' = [n \in Dims |-> Sized(n)]
  /\ unsized' = changed \cap Globals

\* LLVMFunction::init up to the harness: `initialized` is set before the
\* formals are checked.
BeginInit ==
  /\ arguments[IndexedArg] # None
  /\ AllDimsBound
  /\ InitIndices
  /\ AllocateTemporaries
  /\ initialized' = TRUE

\* Function::init, left by an exception before `initialized` is set: the index
\* builder or, with the index built and some of the temporaries allocated, size
\* does not find a set.
InitThrowsEarly ==
  /\ \/ /\ arguments[IndexedArg] = None
        /\ UNCHANGED <<pathIndices, indexPtr, temporary, vectors>>
     \/ /\ arguments[IndexedArg] # None
        /\ ~AllDimsBound
        /\ InitIndices
        /\ temporary' \in {temporary, KeptIndex}
        /\ \E done \in SUBSET {n \in Dims : Actual(n) # None} :
             vectors' = [n \in Dims |-> IF n \in done THEN Sized(n) ELSE vectors[n]]
  /\ lost' = lost \cup Args
  /\ UNCHANGED <<version, arguments, globals, externPtrs, initialized, funcPtr,
                 codegenDone, changed, unsized>>

\* The rest of init, which throws when a formal has no actual, when a set
\* does not fit its formal, or when MCJIT does not find the new harness.
HarnessFails ==
  \/ ~AllArgsBound
  \/ \E n \in Args : arguments[n] \in Misfit
  \/ codegenDone /\ FALSE \in Lookup

\* Slip: a set is passed without comparing its dimensions.
HarnessBuildsUnchecked == AllArgsBound /\ (codegenDone => TRUE \in Lookup)

HarnessBuilds ==
  /\ AllArgsBound
  /\ \A n \in Args : arguments[n] \notin Misfit
  /\ codegenDone => TRUE \in Lookup

\* Slip: the size a set had when it was made is baked in.
BakedAtCreation == [n \in Args |-> [obj |-> arguments[n], ver |-> 0]]

Baked == [n \in Args |-> Snap(arguments[n])]

\* Function::init, completed: the harness holds the snapshots taken now.
InitOk ==
  /\ BeginInit
  /\ HarnessBuilds
  /\ funcPtr' = Baked
  /\ codegenDone' = TRUE
  /\ changed' = changed \ Args
  /\ lost' = lost \ Args
  /\ UNCHANGED <<version, arguments, globals, externPtrs>>

\* Function::init, left by an exception later on: funcPtr is not assigned.
InitThrows ==
  /\ BeginInit
  /\ HarnessFails
  /\ codegenDone' = (codegenDone \/ (AllArgsBound /\
                       \A n \in Args : arguments[n] \notin Misfit))
  /\ lost' = lost \cup Args
  /\ UNCHANGED <<version, arguments, globals, externPtrs, funcPtr, changed>>

\* The client calls init itself.
CallInit ==
  /\ InitOk \/ InitThrows \/ InitThrowsEarly
  /\ ran' = None

\* What a call of the compiled code reads.
Reads ==
  [args |-> funcPtr', externs |-> externPtrs, index |-> indexPtr',
   temp |-> temporary', vectors |-> vectors']

\* Function::run, by a client that has called init since its last bind, and
\* the second half of runSafe.  On the CPU mapArgs and unmapArgs do nothing.
Run ==
  /\ initialized
  /\ funcPtr # None
  /\ AllGlobalsBound
  /\ UNCHANGED <<version, arguments, globals, externPtrs, initialized, funcPtr,
                 codegenDone, pathIndices, indexPtr, temporary, vectors, changed,
                 lost, unsized>>
  /\ ran' = Reads

\* Function::runSafe when it must init first; it throws with init.
RunSafeInit ==
  /\ ~initialized
  /\ AllGlobalsBound
  /\ InitOk
  /\ ran' = Reads

RunSafeThrows ==
  /\ ~initialized
  /\ AllGlobalsBound
  /\ InitThrows \/ InitThrowsEarly
  /\ ran' = None

Next ==
  \/ \E o \in Objs : Change(o)
  \/ \E n \in Args, o \in Objs : BindArgument(n, o)
  \/ \E n \in Globals, o \in Objs : BindGlobal(n, o)
  \/ \E n \in Globals, o \in Objs : BindGlobalThrows(n, o)
  \/ CallInit
  \/ Run
  \/ RunSafeInit
  \/ RunSafeThrows

Spec == Init /\ [][Next]_vars

-----------------------------------------------------------------------------

\* Pointers are null or snapshots of objects the client has.
TypeOK ==
  /\ version \in [Objs -> 0..MaxVersion]
  /\ arguments \in [Args -> Objs \cup {None}]
  /\ globals \in [Globals -> Objs \cup {None}]
  /\ externPtrs \in [Globals -> Snaps \cup {None}]
  /\ initialized \in BOOLEAN
  /\ funcPtr \in [Args -> Snaps] \cup {None}
  /\ codegenDone \in BOOLEAN
  /\ pathIndices \in Snaps \cup {None}
  /\ indexPtr \in [idx : Snaps, alive : BOOLEAN] \cup {None}
  /\ temporary \in Snaps \cup {None}
  /\ vectors \in [Dims -> Snaps \cup {None}]
  /\ changed \subseteq Names /\ lost \subseteq Names /\ unsized \subseteq Globals

\* A run works on the objects last bound to each name: rebinding between runs
\* is never missed, for arguments (captured by init) or externs (by bind),
\* unless the bind or the init was left by an exception.
RunUsesBoundObjects ==
  ran # None =>
    /\ \A n \in Args \ lost : ran.args[n].obj = arguments[n]
    /\ \A n \in Globals \ lost :
         ran.externs[n] # None /\ ran.externs[n].obj = globals[n]

\* A run sees an object as it is now unless the client changed it after the
\* name was bound (externs) or after the last init (arguments).
RunFreshUnlessChanged ==
  ran # None =>
    /\ \A n \in Args \ (changed \cup lost) : ran.args[n] = Snap(arguments[n])
    /\ \A n \in Globals \ (changed \cup lost) : ran.externs[n] = Snap(globals[n])

\* What a run works with was made for the sets it works on, however often init
\* was called or left by an exception: the pointers of the tensor index and the
\* vectors over an argument fit the set the harness passes, those over an extern
\* the set its pointers describe, unless it was bound since or changed between
\* bind and init, and the matrix temporary fits the index while that is alive.
RunMemoryFits ==
  ran # None =>
    /\ IndexedArg \notin lost => ran.index.idx = ran.args[IndexedArg]
    /\ ran.index.alive => ran.temp = ran.index.idx
    /\ \A n \in (Dims \cap Args) \ lost : ran.vectors[n] = ran.args[n]
    /\ \A n \in (Dims \cap Globals) \ (lost \cup unsized) :
         ran.vectors[n] = ran.externs[n]

\* No run is given a set whose dimensions do not fit the formal or extern,
\* although bind accepts it as an argument and init may be left half way.
RunNeverSeesMisfit ==
  ran # None =>
    /\ \A n \in Args : ran.args[n].obj \notin Misfit
    /\ \A n \in Globals : ran.externs[n] # None =>
                             ran.externs[n].obj \notin Misfit

=============================================================================
