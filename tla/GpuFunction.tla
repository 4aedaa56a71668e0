---------------------------- MODULE GpuFunction -----------------------------
(***************************************************************************)
(* Where the data of a function's bindables is on the GPU backend:         *)
(* GPUFunction (src/src/backend/gpu/gpu_function.cpp) under Function       *)
(* (src/src/function.cpp).  A bindable's buffer has a host copy, owned by  *)
(* the client, and a device copy, owned by a DeviceDataHandle; the two are *)
(* brought together by init, unmapArgs (to the device) and mapArgs (to the *)
(* host).  A set with several fields is several names bound together.      *)
(*                                                                         *)
(* Buffers hold stamps: the clock of the write they come from.  With       *)
(* Disciplined the client works as apps/springs/springs.cpp does: write,   *)
(* unmapArgs, run, mapArgs; otherwise it calls anything in any order.      *)
(***************************************************************************)
EXTENDS Naturals, FiniteSets

CONSTANTS
  Results,     \* arguments that are results (isResult)
  Inputs,      \* other arguments passed in a buffer
  ByValue,     \* other scalar arguments: their value is put in the harness
  SetExterns,  \* set externs: copied to the device by init
  TensorExterns, \* tensor externs: allocated by init, not copied
  Temps,       \* temporaries: device memory without a host buffer
  Rank,        \* the order of pushedBufs, [Handled -> Nat]
  Objs,        \* the client's buffers
  Grids,       \* names of grid set type
  Misfits,     \* buffers of grid sets with another number of dimensions
  Disciplined, \* whether the client keeps to the order of the applications
  MaxClock,    \* bound on the number of writes
  None, Garbage

Args == Results \cup Inputs \cup ByValue
Externs == SetExterns \cup TensorExterns
Bindables == Args \cup Externs
Handled == (Bindables \ ByValue) \cup Temps   \* names with a handle
Hosted == Handled \ Temps
Writable == Results \cup Externs

ASSUME NamesAssumption ==
  /\ Results \cap (Inputs \cup ByValue \cup Externs \cup Temps) = {}
  /\ Inputs \cap (ByValue \cup Externs \cup Temps) = {}
  /\ ByValue \cap (Externs \cup Temps) = {}
  /\ Externs \cap Temps = {}
ASSUME SetVersusTensor == SetExterns \cap TensorExterns = {}
ASSUME RankAssumption ==
  /\ IsFiniteSet(Handled)
  /\ Rank \in [Handled -> Nat]
  /\ \A m, n \in Handled : Rank[m] = Rank[n] => m = n
ASSUME GridsAssumption == Grids \subseteq Bindables /\ Misfits \subseteq Objs
ASSUME DisciplinedAssumption == Disciplined \in BOOLEAN
ASSUME MaxClockAssumption == MaxClock \in Nat

Stamps == 0..MaxClock
Datum == Stamps \cup {Garbage}
Handles ==
  [Handled -> [hostBuffer : Objs \cup {None}, data : Datum, devDirty : BOOLEAN]]

ASSUME NoneAssumption == None \notin Objs \cup Handles /\ Garbage \notin Nat

VARIABLES
  host,         \* the client's buffers
  bound,        \* arguments and globals: the buffer bound to each name
  handle,       \* pushedBufs and argBufMap, None before the first init
  scalar,       \* the by-value arguments in the harness
  initialized,  \* GPUFunction::initialized
  saw,          \* what the last run read
  clock,
  onDevice,     \* the disciplined client is between unmapArgs and mapArgs
  unpushed      \* history: names whose host buffer changed since it was copied

vars == <<host, bound, handle, scalar, initialized, saw, clock, onDevice,
          unpushed>>

\* Only a function whose bindables are all bound can be initialised.
AllBound == \A n \in Bindables : bound[n] # None

\* Every grid set bound has the dimensions of its type.
Fit == \A n \in Bindables : bound[n] \notin Misfits

\* Two names work on one buffer and a run may write through one of them.
Clashes(n, o) ==
  \E m \in Bindables \ {n} : bound[m] = o /\ {m, n} \cap Writable # {}

-----------------------------------------------------------------------------
(* The parts of the handlers, on handles h and host buffers hb.            *)

\* init: the old handles are freed, dirty or not, and every buffer is
\* allocated anew; all but temporaries and tensor externs are copied.
Pushed ==
  [n \in Handled |->
     [hostBuffer |-> IF n \in Temps THEN None ELSE bound[n],
      data |-> IF n \in Temps \cup TensorExterns THEN Garbage ELSE host[bound[n]],
      devDirty |-> FALSE]]

\* unmapArgs: every handle with a host buffer is copied to the device,
\* whether or not the device copy is the newer one.
Unmapped(h, hb) ==
  [n \in Handled |->
     IF h[n].hostBuffer = None THEN h[n]
     ELSE [h[n] EXCEPT !.data = hb[h[n].hostBuffer]]]

\* Slip: externs are not marked.
LaunchedResultsDirty(h, W, stamp) ==
  [n \in Handled |->
     [h[n] EXCEPT !.data = IF n \in W THEN stamp ELSE @,
                  !.devDirty = @ \/ n \in Results]]

\* The kernel launch: it writes some of what it may write; all results and
\* externs are marked.
Launched(h, W, stamp) ==
  [n \in Handled |->
     [h[n] EXCEPT !.data = IF n \in W THEN stamp ELSE @,
                  !.devDirty = @ \/ n \in Writable]]

Dirty(h) == {n \in Handled : h[n].devDirty}

\* mapArgs: the dirty handles are copied to the host in the order of
\* pushedBufs, the last one staying.
MappedHost(h, hb) ==
  [o \in Objs |->
     LET on == {n \in Dirty(h) : h[n].hostBuffer = o}
     IN IF on = {} THEN hb[o]
        ELSE h[CHOOSE n \in on : \A m \in on : Rank[m] <= Rank[n]].data]

\* Slip: the dirty bit outlives the copy.
MappedKeepsDirty(h) == h

Mapped(h) == [n \in Handled |-> [h[n] EXCEPT !.devDirty = FALSE]]

\* The names whose buffer another name's copy has just replaced.
Overwritten(h) ==
  {m \in Hosted : \E n \in Dirty(h) \ {m} : h[n].hostBuffer = h[m].hostBuffer}

\* What a launch reads.
Read(h, sc) ==
  [n \in Bindables |-> IF n \in ByValue THEN sc[n] ELSE h[n].data]

-----------------------------------------------------------------------------

Init ==
  /\ host = [o \in Objs |-> 0]
  /\ bound = [n \in Bindables |-> None]
  /\ handle = None
  /\ scalar = None
  /\ initialized = FALSE
  /\ saw = None
  /\ clock = 0
  /\ onDevice = FALSE
  /\ unpushed = {}

\* The client writes one of its buffers.  The disciplined one does so between
\* mapArgs and unmapArgs, and binds a by-value scalar again after changing it.
HostWrite(o) ==
  /\ clock < MaxClock
  /\ Disciplined => /\ ~onDevice
                    /\ initialized => \A n \in ByValue : bound[n] # o
  /\ clock' = clock + 1
  /\ host' = [host EXCEPT ![o] = clock']
  /\ unpushed' = IF handle = None THEN {}
                 ELSE unpushed \cup {n \in Hosted : handle[n].hostBuffer = o}
  /\ UNCHANGED <<bound, handle, scalar, initialized, saw, onDevice>>

\* GPUFunction::bind, on any bindable.  The dimensions of a grid set are
\* compared for an extern only, an argument's not before init.
Bind(n, o) ==
  /\ o \in Misfits => n \in Grids \ Externs
  /\ Disciplined => ~onDevice /\ ~Clashes(n, o) /\ o \notin Misfits
  /\ bound' = [bound EXCEPT ![n] = o]
  /\ initialized' = FALSE
  /\ UNCHANGED <<host, handle, scalar, saw, clock, onDevice, unpushed>>

\* bind of an extern throws in LLVMFunction::bind, with the global replaced
\* and `initialized` as it was.
BindThrows(n, o) ==
  /\ n \in Grids \cap SetExterns /\ o \in Misfits
  /\ ~Disciplined
  /\ bound' = [bound EXCEPT ![n] = o]
  /\ UNCHANGED <<host, handle, scalar, initialized, saw, clock, onDevice,
                 unpushed>>

\* Function::init, by the client or by runSafe, throws in pushSetData: the old
\* handles are gone and `initialized` is as it was.
InitThrows ==
  /\ AllBound /\ ~Fit
  /\ handle' = None
  /\ unpushed' = {}
  /\ UNCHANGED <<host, bound, scalar, initialized, saw, clock, onDevice>>

\* Function::init.
CallInit ==
  /\ AllBound /\ Fit
  /\ Disciplined => ~onDevice
  /\ handle' = Pushed
  /\ scalar' = [n \in ByValue |-> host[bound[n]]]
  /\ initialized' = TRUE
  /\ unpushed' = TensorExterns
  /\ UNCHANGED <<host, bound, saw, clock, onDevice>>

\* Function::unmapArgs; with updated = FALSE it does nothing, which the
\* disciplined client asks for only when it changed nothing.  Before the first
\* init, and after one that threw, there is nothing to copy.
UnmapArgs(updated) ==
  /\ handle # None
  /\ Disciplined => ~onDevice /\ initialized /\ (updated \/ unpushed = {})
  /\ handle' = IF updated THEN Unmapped(handle, host) ELSE handle
  /\ unpushed' = IF updated THEN {} ELSE unpushed
  /\ onDevice' = Disciplined
  /\ UNCHANGED <<host, bound, scalar, initialized, saw, clock>>

\* Function::run: the function pointer of the last init, bound anew or not.
\* After an init that threw it would work on freed device memory: no run.
Run(W) ==
  /\ handle # None
  /\ Disciplined => onDevice
  /\ clock < MaxClock
  /\ clock' = clock + 1
  /\ saw' = Read(handle, scalar)
  /\ handle' = Launched(handle, W, clock')
  /\ UNCHANGED <<host, bound, scalar, initialized, onDevice, unpushed>>

\* Function::mapArgs.
MapArgs ==
  /\ handle # None
  /\ Disciplined => onDevice
  /\ host' = MappedHost(handle, host)
  /\ handle' = Mapped(handle)
  /\ unpushed' = (unpushed \ Dirty(handle)) \cup Overwritten(handle)
  /\ onDevice' = FALSE
  /\ UNCHANGED <<bound, scalar, initialized, saw, clock>>

\* Slip: runSafe maps first and unmaps afterwards, as function.h describes.
RunSafeSwapped(W) ==
  LET h0 == IF initialized THEN handle ELSE Pushed
      sc == IF initialized THEN scalar ELSE [n \in ByValue |-> host[bound[n]]]
      h1 == Mapped(h0)
      h2 == Launched(h1, W, clock')
  IN /\ AllBound
     /\ IF initialized THEN handle # None ELSE Fit
     /\ Disciplined => ~onDevice
     /\ clock < MaxClock
     /\ clock' = clock + 1
     /\ scalar' = sc
     /\ initialized' = TRUE
     /\ saw' = Read(h1, sc)
     /\ host' = MappedHost(h0, host)
     /\ handle' = Unmapped(h2, host')
     /\ unpushed' = Overwritten(h2)
     /\ UNCHANGED <<bound, onDevice>>

\* Function::runSafe: init when needed, unmapArgs, run, mapArgs.
RunSafe(W) ==
  LET h0 == IF initialized THEN handle ELSE Pushed
      sc == IF initialized THEN scalar ELSE [n \in ByValue |-> host[bound[n]]]
      h1 == Unmapped(h0, host)
      h2 == Launched(h1, W, clock')
  IN /\ AllBound
     /\ IF initialized THEN handle # None ELSE Fit
     /\ Disciplined => ~onDevice
     /\ clock < MaxClock
     /\ clock' = clock + 1
     /\ scalar' = sc
     /\ initialized' = TRUE
     /\ saw' = Read(h1, sc)
     /\ host' = MappedHost(h2, host)
     /\ handle' = Mapped(h2)
     /\ unpushed' = Overwritten(h2)
     /\ UNCHANGED <<bound, onDevice>>

Next ==
  \/ \E o \in Objs : HostWrite(o)
  \/ \E n \in Bindables, o \in Objs : Bind(n, o)
  \/ \E n \in Bindables, o \in Objs : BindThrows(n, o)
  \/ CallInit
  \/ InitThrows
  \/ \E updated \in BOOLEAN : UnmapArgs(updated)
  \/ \E W \in SUBSET (Writable \cup Temps) : Run(W)
  \/ MapArgs
  \/ \E W \in SUBSET (Writable \cup Temps) : RunSafe(W)

Spec == Init /\ [][Next]_vars

-----------------------------------------------------------------------------

\* Every handle stands for a buffer of the client or for none, and buffers
\* hold stamps or, where device memory was never written, garbage.
TypeOK ==
  /\ host \in [Objs -> Datum]
  /\ bound \in [Bindables -> Objs \cup {None}]
  /\ handle = None \/
       /\ handle \in Handles
       /\ \A n \in Hosted : handle[n].hostBuffer \in Objs
  /\ scalar = None \/ scalar \in [ByValue -> Datum]
  /\ initialized \in BOOLEAN
  /\ saw = None \/ saw \in [Bindables -> Datum]
  /\ clock \in Stamps
  /\ onDevice \in BOOLEAN
  /\ unpushed \subseteq Hosted

\* Whatever the client calls, a handle that is not dirty and whose host buffer
\* has not changed since it was copied holds what the host buffer holds.
CopiesAgree ==
  handle # None =>
    \A n \in Hosted \ unpushed :
      ~handle[n].devDirty => handle[n].data = host[handle[n].hostBuffer]

\* runSafe, after any calls that leave no misfitting grid set bound, makes a
\* round trip: the kernel reads the buffers bound now as the host has them,
\* what it wrote reaches every buffer that no other name shares, and no buffer
\* but those of results and externs changes.
RoundTrip(W) ==
  /\ \A n \in Hosted : saw'[n] = host[bound[n]]
  /\ \A n \in Writable : ~Clashes(n, bound[n]) =>
       host'[bound[n]] = IF n \in W THEN clock' ELSE host[bound[n]]
  /\ \A o \in Objs : host'[o] # host[o] =>
       \E n \in W \cap Writable : bound[n] = o

RunSafeRoundTrip ==
  [][\A W \in SUBSET (Writable \cup Temps) : RunSafe(W) /\ Fit =>
       RoundTrip(W)]_vars

\* Under the order the applications use, the two copies are one memory: the
\* function works in place on the client's buffers, as on the CPU.
View ==
  [o \in Objs |->
     LET on == IF handle = None THEN {}
               ELSE {n \in Dirty(handle) : handle[n].hostBuffer = o}
     IN IF on = {} THEN host[o] ELSE handle[CHOOSE n \in on : TRUE].data]

InPlace == INSTANCE FunctionSpec WITH mem <- View

ImplementsFunctionSpec == InPlace!Spec
=============================================================================
