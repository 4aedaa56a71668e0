------------------------- MODULE GpuFunctionProofs --------------------------
(***************************************************************************)
(* Data residency on the GPU, for any formals, externs, temporaries and    *)
(* client buffers, any order of pushedBufs and any number of writes.       *)
(***************************************************************************)
EXTENDS GpuFunction, DataLemmas

\* What init, unmapArgs, the launch and mapArgs keep of a table of handles:
\* temporaries have no host buffer, and only what a kernel may write is dirty.
Good(h) ==
  /\ h \in Handles
  /\ \A n \in Hosted : h[n].hostBuffer \in Objs
  /\ \A n \in Temps : h[n].hostBuffer = None
  /\ Dirty(h) \subseteq Writable

\* A handle table is good once there is one, with every by-value argument in
\* the harness beside it.
HandlesGood ==
  handle # None => Good(handle) /\ scalar \in [ByValue -> Datum]

\* While `initialized` stands, and no bind or init has thrown since, which a
\* misfitting set bound shows, the handles are those of the buffers bound now.
HandlesBound ==
  initialized =>
    /\ AllBound
    /\ Fit => /\ handle # None
              /\ \A n \in Hosted : handle[n].hostBuffer = bound[n]

Inv == TypeOK /\ HandlesGood /\ HandlesBound /\ CopiesAgree

\* The disciplined client binds no buffer twice where a run may write it.
NoClash == \A n \in Bindables : bound[n] # None => ~Clashes(n, bound[n])

\* It runs only with everything copied to the device, and after mapArgs
\* nothing is left there; the values in the harness are those bound.
InStep ==
  /\ onDevice => initialized /\ unpushed = {}
  /\ ~onDevice /\ handle # None => Dirty(handle) = {}
  /\ initialized => \A n \in ByValue : scalar[n] = host[bound[n]]

USE NamesAssumption, SetVersusTensor

-----------------------------------------------------------------------------
(* What the parts of the handlers do to a table of handles.                *)

\* The kinds of names exclude one another.
LEMMA Kinds ==
  /\ Hosted \cap Temps = {} /\ Hosted \cup Temps = Handled
  /\ Writable \subseteq Hosted /\ Hosted \subseteq Bindables
  /\ Bindables \ ByValue = Hosted /\ ByValue \subseteq Bindables
  /\ ByValue \cap Hosted = {} /\ TensorExterns \subseteq Hosted
  /\ Bindables \cap Temps = {} /\ ByValue \cap Writable = {}
  BY DEF Hosted, Handled, Bindables, Writable, Args, Externs

\* init makes good handles, none dirty, of the buffers bound now.
LEMMA PushedIs ==
  ASSUME TypeOK, AllBound
  PROVE  /\ Good(Pushed)
         /\ Dirty(Pushed) = {}
         /\ \A n \in Hosted : Pushed[n].hostBuffer = bound[n]
         /\ \A n \in Hosted \ TensorExterns : Pushed[n].data = host[bound[n]]
         /\ [n \in ByValue |-> host[bound[n]]] \in [ByValue -> Datum]
<1>1. \A n \in Bindables : bound[n] \in Objs /\ host[bound[n]] \in Datum
  BY DEF TypeOK, AllBound
<1>2. \A n \in Handled : n \notin Temps => bound[n] \in Objs /\ host[bound[n]] \in Datum
  BY <1>1, Kinds
<1>3. Garbage \in Datum
  BY DEF Datum
<1>4. Pushed \in Handles
  BY <1>2, <1>3 DEF Pushed, Handles
<1>5. \A n \in Handled :
        /\ Pushed[n].hostBuffer = IF n \in Temps THEN None ELSE bound[n]
        /\ Pushed[n].data = IF n \in Temps \cup TensorExterns THEN Garbage
                            ELSE host[bound[n]]
        /\ Pushed[n].devDirty = FALSE
  BY DEF Pushed
<1>6. Dirty(Pushed) = {}
  BY <1>5 DEF Dirty
<1>7. Good(Pushed)
  BY <1>2, <1>4, <1>5, <1>6, Kinds DEF Good
<1> QED
  BY <1>1, <1>5, <1>6, <1>7, Kinds

\* unmapArgs leaves the handles as they are but for the data, which is the
\* host's.
LEMMA UnmappedIs ==
  ASSUME NEW h, Good(h), NEW hb \in [Objs -> Datum]
  PROVE  /\ Good(Unmapped(h, hb))
         /\ \A n \in Handled :
              /\ Unmapped(h, hb)[n].hostBuffer = h[n].hostBuffer
              /\ Unmapped(h, hb)[n].devDirty = h[n].devDirty
         /\ \A n \in Hosted : Unmapped(h, hb)[n].data = hb[h[n].hostBuffer]
<1> DEFINE u == Unmapped(h, hb)
<1>1. \A n \in Handled : h[n].hostBuffer # None => h[n].hostBuffer \in Objs
  BY DEF Good, Handles
<1>2. u \in Handles
  BY <1>1 DEF Unmapped, Good, Handles
<1>3. \A n \in Handled : /\ u[n].hostBuffer = h[n].hostBuffer
                         /\ u[n].devDirty = h[n].devDirty
  BY DEF Unmapped, Good, Handles
<1>4. \A n \in Hosted : h[n].hostBuffer # None
  BY NoneAssumption DEF Good
<1>5. \A n \in Hosted : u[n].data = hb[h[n].hostBuffer]
  BY <1>4, Kinds DEF Unmapped, Good, Handles
<1>6. Dirty(u) = Dirty(h)
  BY <1>3 DEF Dirty
<1> HIDE DEF u
<1>7. Good(u)
  BY <1>2, <1>3, <1>6, Kinds DEF Good
<1> QED
  BY <1>3, <1>5, <1>7 DEF u

\* A launch makes everything writable dirty and stamps what it writes.
LEMMA LaunchedIs ==
  ASSUME NEW h, Good(h), NEW W \in SUBSET (Writable \cup Temps),
         NEW stamp \in Stamps
  PROVE  /\ Good(Launched(h, W, stamp))
         /\ Dirty(Launched(h, W, stamp)) = Writable
         /\ \A n \in Handled :
              /\ Launched(h, W, stamp)[n].hostBuffer = h[n].hostBuffer
              /\ Launched(h, W, stamp)[n].data =
                   IF n \in W THEN stamp ELSE h[n].data
<1> DEFINE l == Launched(h, W, stamp)
<1>1. l \in Handles
  <2>1. stamp \in Datum
    BY DEF Datum
  <2>2. h \in Handles
    BY DEF Good
  <2> QED
    BY <2>1, <2>2 DEF Launched, Handles
<1>2. \A n \in Handled :
        /\ l[n].hostBuffer = h[n].hostBuffer
        /\ l[n].data = IF n \in W THEN stamp ELSE h[n].data
        /\ l[n].devDirty = (h[n].devDirty \/ n \in Writable)
  BY DEF Launched, Good, Handles
<1> HIDE DEF l
<1>3. Dirty(l) = Writable
  BY <1>2, Kinds DEF Dirty, Good
<1>4. Good(l)
  BY <1>1, <1>2, <1>3, Kinds DEF Good
<1> QED
  BY <1>2, <1>3, <1>4 DEF l

\* After mapArgs no handle is dirty.
LEMMA MappedIs ==
  ASSUME NEW h, Good(h)
  PROVE  /\ Good(Mapped(h)) /\ Dirty(Mapped(h)) = {}
         /\ \A n \in Handled : /\ Mapped(h)[n].hostBuffer = h[n].hostBuffer
                               /\ Mapped(h)[n].data = h[n].data
                               /\ Mapped(h)[n].devDirty = FALSE
<1> DEFINE m == Mapped(h)
<1>1. m \in Handles
  BY DEF Mapped, Good, Handles
<1>2. \A n \in Handled : /\ m[n].hostBuffer = h[n].hostBuffer
                         /\ m[n].data = h[n].data
                         /\ m[n].devDirty = FALSE
  BY DEF Mapped, Good, Handles
<1> HIDE DEF m
<1>3. Dirty(m) = {}
  BY <1>2 DEF Dirty
<1>4. Good(m)
  BY <1>1, <1>2, <1>3, Kinds DEF Good
<1> QED
  BY <1>2, <1>3, <1>4 DEF m

\* The last of several dirty handles on one buffer exists: pushedBufs is
\* finite.
LEMMA LastPushed ==
  ASSUME NEW on \in SUBSET Handled, on # {}
  PROVE  \E n \in on : \A m \in on : Rank[m] <= Rank[n]
<1> DEFINE ranks == {Rank[n] : n \in on}
<1>1. ranks \subseteq Nat /\ ranks # {}
  BY RankAssumption
<1>2. IsFiniteSet(on)
  BY RankAssumption, FS_Subset
<1>3. IsFiniteSet(ranks)
  <2>1. [n \in on |-> Rank[n]] \in Surjection(on, ranks)
    BY DEF Surjection
  <2> QED
    BY <1>2, <2>1, FS_Surjection
<1>4. PICK x \in ranks : \A y \in ranks : y <= x
  BY <1>1, <1>3, GreatestElement
<1> QED
  BY <1>4

\* mapArgs gives a buffer the data of a dirty handle on it, and leaves a
\* buffer without one alone.
LEMMA MappedHostIs ==
  ASSUME NEW h, Good(h), NEW hb \in [Objs -> Datum]
  PROVE  /\ MappedHost(h, hb) \in [Objs -> Datum]
         /\ \A o \in Objs :
              \/ /\ \A n \in Dirty(h) : h[n].hostBuffer # o
                 /\ MappedHost(h, hb)[o] = hb[o]
              \/ \E n \in Dirty(h) : /\ h[n].hostBuffer = o
                                     /\ MappedHost(h, hb)[o] = h[n].data
<1> DEFINE on(o) == {n \in Dirty(h) : h[n].hostBuffer = o}
           last(o) == CHOOSE n \in on(o) : \A m \in on(o) : Rank[m] <= Rank[n]
<1>1. MappedHost(h, hb) =
        [o \in Objs |-> IF on(o) = {} THEN hb[o] ELSE h[last(o)].data]
  BY DEF MappedHost
<1>2. ASSUME NEW o \in Objs, on(o) # {}
      PROVE  last(o) \in on(o)
  <2>1. on(o) \in SUBSET Handled
    BY DEF Dirty
  <2>2. \E n \in on(o) : \A m \in on(o) : Rank[m] <= Rank[n]
    BY <1>2, <2>1, LastPushed
  <2> QED
    BY <2>2
<1>3. ASSUME NEW o \in Objs, on(o) # {}
      PROVE  /\ last(o) \in Dirty(h)
             /\ h[last(o)].hostBuffer = o
             /\ h[last(o)].data \in Datum
  <2>1. last(o) \in Dirty(h) /\ h[last(o)].hostBuffer = o
    BY <1>2, <1>3
  <2>2. last(o) \in Handled
    BY <2>1 DEF Dirty
  <2> HIDE DEF last
  <2>3. h[last(o)].data \in Datum
    BY <2>2 DEF Good, Handles
  <2> QED
    BY <2>1, <2>3
<1>4. MappedHost(h, hb) \in [Objs -> Datum]
  <2> HIDE DEF last, on
  <2> QED
    BY <1>1, <1>3
<1>5. ASSUME NEW o \in Objs
      PROVE  \/ /\ \A n \in Dirty(h) : h[n].hostBuffer # o
                /\ MappedHost(h, hb)[o] = hb[o]
             \/ \E n \in Dirty(h) : /\ h[n].hostBuffer = o
                                    /\ MappedHost(h, hb)[o] = h[n].data
  <2>1. CASE on(o) = {}
    <3>1. MappedHost(h, hb)[o] = hb[o]
      BY <1>1, <2>1
    <3> QED
      BY <2>1, <3>1
  <2>2. CASE on(o) # {}
    <3>1. MappedHost(h, hb)[o] = h[last(o)].data
      BY <1>1, <2>2
    <3> HIDE DEF last
    <3> QED
      BY <1>3, <2>2, <3>1
  <2> QED
    BY <2>1, <2>2
<1> QED
  BY <1>4, <1>5

\* mapArgs makes the copies of a name agree when they did or when the name
\* was dirty, unless another dirty name shares its buffer.
LEMMA MappedAgree ==
  ASSUME NEW h, Good(h), NEW hb \in [Objs -> Datum], NEW n \in Hosted,
         n \notin Overwritten(h),
         ~h[n].devDirty => h[n].data = hb[h[n].hostBuffer]
  PROVE  h[n].data = MappedHost(h, hb)[h[n].hostBuffer]
<1> DEFINE o == h[n].hostBuffer
<1>1. o \in Objs /\ n \in Handled
  BY Kinds DEF Good
<1>2. \A m \in Dirty(h) : h[m].hostBuffer = o => m = n
  BY <1>1 DEF Overwritten
<1>3. n \in Dirty(h) <=> h[n].devDirty
  BY <1>1 DEF Dirty
<1> HIDE DEF o
<1>4. \/ /\ \A m \in Dirty(h) : h[m].hostBuffer # o
         /\ MappedHost(h, hb)[o] = hb[o]
      \/ \E m \in Dirty(h) : /\ h[m].hostBuffer = o
                             /\ MappedHost(h, hb)[o] = h[m].data
  BY <1>1, MappedHostIs
<1>5. CASE /\ \A m \in Dirty(h) : h[m].hostBuffer # o
           /\ MappedHost(h, hb)[o] = hb[o]
  <2>1. n \notin Dirty(h)
    BY <1>5 DEF o
  <2> QED
    BY <2>1, <1>3, <1>5 DEF o
<1>6. CASE \E m \in Dirty(h) : /\ h[m].hostBuffer = o
                              /\ MappedHost(h, hb)[o] = h[m].data
  BY <1>6, <1>2 DEF o
<1> QED
  BY <1>4, <1>5, <1>6

-----------------------------------------------------------------------------
(* One lemma per operation that the client calls.                          *)

\* A new function has no handles.
LEMMA InitInv == Init => Inv
<1> SUFFICES ASSUME Init PROVE Inv
  OBVIOUS
<1>1. 0 \in Stamps
  BY MaxClockAssumption DEF Stamps
<1>2. host \in [Objs -> Datum] /\ clock \in Stamps
  BY <1>1 DEF Init, Datum
<1>3. bound \in [Bindables -> Objs \cup {None}]
  BY DEF Init
<1>4. TypeOK
  BY <1>2, <1>3 DEF Init, TypeOK
<1>5. HandlesGood /\ HandlesBound /\ CopiesAgree
  BY DEF Init, HandlesGood, HandlesBound, CopiesAgree
<1> QED
  BY <1>4, <1>5 DEF Inv

\* A write by the client makes the clean copies of the buffer out of date.
LEMMA HostWriteInv ==
  ASSUME Inv, NEW o \in Objs, HostWrite(o)
  PROVE  Inv'
<1>1. clock' \in Stamps /\ clock' \in Datum
  BY MaxClockAssumption DEF HostWrite, Inv, TypeOK, Stamps, Datum
<1>2. host' \in [Objs -> Datum]
  BY <1>1 DEF HostWrite, Inv, TypeOK
<1>3. unpushed' \subseteq Hosted
  BY DEF HostWrite, Inv, TypeOK
<1>4. TypeOK'
  BY <1>1, <1>2, <1>3 DEF HostWrite, Inv, TypeOK
<1>5. HandlesGood' /\ HandlesBound'
  BY DEF HostWrite, Inv, HandlesGood, HandlesBound, AllBound, Fit
<1>6. CopiesAgree'
  <2> SUFFICES ASSUME handle # None, NEW n \in Hosted \ unpushed',
                      ~handle[n].devDirty
               PROVE  handle[n].data = host'[handle[n].hostBuffer]
    BY DEF CopiesAgree, HostWrite
  <2>1. n \notin unpushed /\ handle[n].hostBuffer # o
    BY DEF HostWrite
  <2>2. handle[n].hostBuffer \in Objs
    BY DEF Inv, HandlesGood, Good
  <2>3. host'[handle[n].hostBuffer] = host[handle[n].hostBuffer]
    BY <2>1, <2>2 DEF HostWrite, Inv, TypeOK
  <2> QED
    BY <2>1, <2>3 DEF Inv, CopiesAgree
<1> QED
  BY <1>4, <1>5, <1>6 DEF Inv

\* bind takes back `initialized`, so the old handles are no longer claimed.
LEMMA BindInv ==
  ASSUME Inv, NEW n \in Bindables, NEW o \in Objs, Bind(n, o)
  PROVE  Inv'
<1>1. TypeOK'
  BY DEF Bind, Inv, TypeOK
<1>2. HandlesGood' /\ HandlesBound' /\ CopiesAgree'
  BY DEF Bind, Inv, HandlesGood, HandlesBound, CopiesAgree
<1> QED
  BY <1>1, <1>2 DEF Inv

\* A bind that throws leaves the handles, which a misfitting set now shows not
\* to be those of the buffers bound.
LEMMA BindThrowsInv ==
  ASSUME Inv, NEW n \in Bindables, NEW o \in Objs, BindThrows(n, o)
  PROVE  Inv'
<1>1. TypeOK'
  BY DEF BindThrows, Inv, TypeOK
<1>2. HandlesGood' /\ CopiesAgree'
  BY DEF BindThrows, Inv, HandlesGood, CopiesAgree, Good, Dirty
<1>3. \A m \in Bindables : bound'[m] = IF m = n THEN o ELSE bound[m]
  BY DEF BindThrows, Inv, TypeOK
<1>4. ~Fit'
  BY <1>3 DEF BindThrows, Fit
<1>5. o # None
  BY NoneAssumption
<1>6. HandlesBound'
  BY <1>3, <1>4, <1>5 DEF BindThrows, Inv, HandlesBound, AllBound
<1> QED
  BY <1>1, <1>2, <1>6 DEF Inv

\* An init that throws leaves no handles, and the misfitting set bound.
LEMMA InitThrowsInv ==
  ASSUME Inv, InitThrows
  PROVE  Inv'
<1>1. TypeOK'
  BY DEF InitThrows, Inv, TypeOK
<1>2. HandlesGood' /\ CopiesAgree'
  BY DEF InitThrows, HandlesGood, CopiesAgree
<1>3. AllBound' /\ ~Fit'
  BY DEF InitThrows, AllBound, Fit
<1>4. HandlesBound'
  BY <1>3 DEF HandlesBound
<1> QED
  BY <1>1, <1>2, <1>4 DEF Inv

\* init makes a fresh, clean table of handles.
LEMMA CallInitInv ==
  ASSUME Inv, CallInit
  PROVE  Inv'
<1>1. /\ Good(Pushed)
      /\ \A n \in Hosted : Pushed[n].hostBuffer = bound[n]
      /\ \A n \in Hosted \ TensorExterns : Pushed[n].data = host[bound[n]]
      /\ scalar' \in [ByValue -> Datum]
  BY PushedIs DEF CallInit, Inv
<1>2. handle' = Pushed /\ handle' \in Handles /\ handle' # None
  BY <1>1, NoneAssumption DEF CallInit, Good
<1>3. TypeOK'
  BY <1>1, <1>2, Kinds DEF CallInit, Inv, TypeOK, Good
<1>4. HandlesGood'
  <2>1. Good(handle')
    BY <1>1, <1>2
  <2> QED
    BY <1>1, <2>1 DEF HandlesGood, Good, Dirty
<1>5. HandlesBound'
  BY <1>1, <1>2 DEF CallInit, HandlesBound, AllBound, Fit
<1>6. CopiesAgree'
  BY <1>1, <1>2 DEF CallInit, CopiesAgree
<1> QED
  BY <1>3, <1>4, <1>5, <1>6 DEF Inv

\* unmapArgs brings every hosted copy up to date, or does nothing.
LEMMA UnmapArgsInv ==
  ASSUME Inv, NEW updated \in BOOLEAN, UnmapArgs(updated)
  PROVE  Inv'
<1>1. CASE ~updated
  <2>1. /\ handle' = handle /\ unpushed' = unpushed
        /\ UNCHANGED <<host, bound, scalar, initialized, saw, clock>>
    BY <1>1 DEF UnmapArgs
  <2>2. onDevice' \in BOOLEAN
    BY DisciplinedAssumption DEF UnmapArgs
  <2>3. TypeOK'
    BY <2>1, <2>2 DEF Inv, TypeOK
  <2>4. HandlesGood' /\ HandlesBound' /\ CopiesAgree'
    BY <2>1 DEF Inv, HandlesGood, HandlesBound, CopiesAgree, AllBound, Fit,
                Good, Dirty
  <2> QED
    BY <2>3, <2>4 DEF Inv
<1>2. CASE updated
  <2>1. Good(handle) /\ host \in [Objs -> Datum]
    BY DEF UnmapArgs, Inv, HandlesGood, TypeOK
  <2>2. handle' = Unmapped(handle, host) /\ unpushed' = {}
    BY <1>2 DEF UnmapArgs
  <2>3. UNCHANGED <<host, bound, scalar, initialized, saw, clock>>
    BY DEF UnmapArgs
  <2>4. /\ Good(handle')
        /\ \A n \in Hosted : /\ handle'[n].hostBuffer = handle[n].hostBuffer
                             /\ handle'[n].data = host[handle[n].hostBuffer]
    BY <2>1, <2>2, UnmappedIs, Kinds
  <2>5. handle' \in Handles /\ handle' # None
    BY <2>4, NoneAssumption DEF Good
  <2>6. onDevice' \in BOOLEAN
    BY DisciplinedAssumption DEF UnmapArgs
  <2>7. TypeOK'
    BY <2>2, <2>3, <2>4, <2>5, <2>6 DEF Inv, TypeOK, Good
  <2>8. HandlesGood'
    BY <2>3, <2>4 DEF UnmapArgs, Inv, HandlesGood, Good, Dirty
  <2>9. HandlesBound'
    BY <2>3, <2>4, <2>5 DEF Inv, HandlesBound, AllBound, Fit
  <2>10. CopiesAgree'
    BY <2>3, <2>4 DEF CopiesAgree
  <2> QED
    BY <2>7, <2>8, <2>9, <2>10 DEF Inv
<1> QED
  BY <1>1, <1>2

\* A launch reads data: what it saw has the right type.
LEMMA ReadType ==
  ASSUME NEW h, Good(h), NEW sc \in [ByValue -> Datum]
  PROVE  Read(h, sc) \in [Bindables -> Datum]
<1>1. \A n \in Bindables \ ByValue : h[n].data \in Datum
  BY Kinds DEF Good, Handles
<1> QED
  BY <1>1 DEF Read

\* A run marks dirty every handle it may have written.
LEMMA RunInv ==
  ASSUME Inv, NEW W \in SUBSET (Writable \cup Temps), Run(W)
  PROVE  Inv'
<1>1. clock' \in Stamps
  BY MaxClockAssumption DEF Run, Inv, TypeOK, Stamps
<1>2. Good(handle) /\ scalar \in [ByValue -> Datum]
  BY DEF Run, Inv, HandlesGood
<1>3. /\ Good(handle')
      /\ Dirty(handle') = Writable
      /\ \A n \in Handled :
           /\ handle'[n].hostBuffer = handle[n].hostBuffer
           /\ handle'[n].data = IF n \in W THEN clock' ELSE handle[n].data
  BY <1>1, <1>2, LaunchedIs DEF Run
<1>4. handle' \in Handles /\ handle' # None
  BY <1>3, NoneAssumption DEF Good
<1>5. saw' \in [Bindables -> Datum]
  BY <1>2, ReadType DEF Run
<1>6. UNCHANGED <<host, bound, scalar, initialized, onDevice, unpushed>>
  BY DEF Run
<1>7. TypeOK'
  BY <1>1, <1>3, <1>4, <1>5, <1>6 DEF Inv, TypeOK, Good
<1>8. HandlesGood'
  BY <1>2, <1>3, <1>6 DEF HandlesGood, Good, Dirty
<1>9. HandlesBound'
  BY <1>3, <1>4, <1>6, Kinds DEF Inv, HandlesBound, AllBound, Fit
<1>10. CopiesAgree'
  <2> SUFFICES ASSUME NEW n \in Hosted \ unpushed, ~handle'[n].devDirty
               PROVE  handle'[n].data = host[handle'[n].hostBuffer]
    BY <1>6 DEF CopiesAgree
  <2>1. n \in Handled /\ n \notin Temps
    BY Kinds
  <2>2. n \notin Writable
    BY <1>3, <2>1 DEF Dirty
  <2>3. n \notin Dirty(handle)
    BY <1>2, <2>2 DEF Good
  <2>4. ~handle[n].devDirty
    BY <2>1, <2>3 DEF Dirty
  <2>5. handle[n].data = host[handle[n].hostBuffer]
    BY <2>4 DEF Run, Inv, CopiesAgree
  <2> QED
    BY <1>3, <2>1, <2>2, <2>5
<1> QED
  BY <1>7, <1>8, <1>9, <1>10 DEF Inv

\* mapArgs copies what is dirty back, and then nothing is.
LEMMA MapArgsInv ==
  ASSUME Inv, MapArgs
  PROVE  Inv'
<1>1. Good(handle) /\ scalar \in [ByValue -> Datum] /\ host \in [Objs -> Datum]
  BY DEF MapArgs, Inv, HandlesGood, TypeOK
<1>2. host' \in [Objs -> Datum]
  BY <1>1, MappedHostIs DEF MapArgs
<1>3. /\ Good(handle')
      /\ \A n \in Handled : /\ handle'[n].hostBuffer = handle[n].hostBuffer
                            /\ handle'[n].data = handle[n].data
  BY <1>1, MappedIs DEF MapArgs
<1>4. handle' \in Handles /\ handle' # None
  BY <1>3, NoneAssumption DEF Good
<1>5. UNCHANGED <<bound, scalar, initialized, saw, clock>> /\ onDevice' = FALSE
  BY DEF MapArgs
<1>6. unpushed' \subseteq Hosted
  BY DEF MapArgs, Inv, TypeOK, Overwritten
<1>7. TypeOK'
  BY <1>2, <1>3, <1>4, <1>5, <1>6 DEF Inv, TypeOK, Good
<1>8. HandlesGood'
  BY <1>1, <1>3, <1>5 DEF HandlesGood, Good, Dirty
<1>9. HandlesBound'
  BY <1>3, <1>4, <1>5, Kinds DEF Inv, HandlesBound, AllBound, Fit
<1>10. CopiesAgree'
  <2> SUFFICES ASSUME NEW n \in Hosted \ unpushed'
               PROVE  handle'[n].data = host'[handle'[n].hostBuffer]
    BY DEF CopiesAgree
  <2>1. n \in Handled /\ n \notin Overwritten(handle)
    BY Kinds DEF MapArgs
  <2>2. ~handle[n].devDirty => handle[n].data = host[handle[n].hostBuffer]
    BY <2>1 DEF MapArgs, Inv, CopiesAgree, Dirty
  <2>3. handle[n].data = MappedHost(handle, host)[handle[n].hostBuffer]
    BY <1>1, <2>1, <2>2, MappedAgree
  <2> QED
    BY <1>3, <2>1, <2>3 DEF MapArgs
<1> QED
  BY <1>7, <1>8, <1>9, <1>10 DEF Inv

-----------------------------------------------------------------------------
(* runSafe, which is init when needed, unmapArgs, run and mapArgs.          *)

SafeHandles == IF initialized THEN handle ELSE Pushed
SafeScalars ==
  IF initialized THEN scalar ELSE [n \in ByValue |-> host[bound[n]]]

\* The buffers that the launch of a runSafe works on.
SafeBuffer(n) == SafeHandles[n].hostBuffer

\* A table of handles as a launch leaves it that read those buffers.
LaunchedFrom(l, W, stamp) ==
  /\ Good(l)
  /\ Dirty(l) = Writable
  /\ \A n \in Hosted :
       /\ l[n].hostBuffer = SafeBuffer(n)
       /\ l[n].data = IF n \in W THEN stamp ELSE host[SafeBuffer(n)]

\* The handles of a runSafe are good, and those of the buffers bound now unless
\* a misfitting set is.
LEMMA SafeHandlesAre ==
  ASSUME Inv, NEW W \in SUBSET (Writable \cup Temps), RunSafe(W)
  PROVE  /\ AllBound
         /\ Good(SafeHandles)
         /\ Fit => \A n \in Hosted : SafeBuffer(n) = bound[n]
         /\ SafeScalars \in [ByValue -> Datum]
         /\ initialized \/ Fit
<1>1. AllBound /\ TypeOK /\ (initialized => handle # None) /\ (~initialized => Fit)
  BY DEF RunSafe, Inv
<1>2. /\ Good(SafeHandles)
      /\ Fit => \A n \in Hosted : SafeBuffer(n) = bound[n]
  <2>1. CASE initialized
    BY <1>1, <2>1 DEF SafeHandles, SafeBuffer, Inv, HandlesGood, HandlesBound
  <2>2. CASE ~initialized
    BY <2>2, <1>1, PushedIs DEF SafeHandles, SafeBuffer
  <2> QED
    BY <2>1, <2>2
<1>3. SafeScalars \in [ByValue -> Datum]
  <2>1. CASE initialized
    BY <1>1, <2>1 DEF SafeScalars, Inv, HandlesGood
  <2>2. CASE ~initialized
    BY <2>2, <1>1, PushedIs DEF SafeScalars
  <2> QED
    BY <2>1, <2>2
<1> QED
  BY <1>1, <1>2, <1>3

\* The launch of a runSafe takes the data of its handles from the host.
LEMMA RunSafeIs ==
  ASSUME Inv, NEW W \in SUBSET (Writable \cup Temps), RunSafe(W)
  PROVE  /\ \E l : /\ LaunchedFrom(l, W, clock')
                  /\ host' = MappedHost(l, host) /\ handle' = Mapped(l)
                  /\ unpushed' = Overwritten(l)
         /\ \A n \in Hosted : saw'[n] = host[SafeBuffer(n)]
         /\ \A n \in ByValue : saw'[n] = scalar'[n]
         /\ saw' \in [Bindables -> Datum]
         /\ scalar' = SafeScalars /\ scalar' \in [ByValue -> Datum]
         /\ clock' = clock + 1 /\ clock' \in Stamps
         /\ initialized' = TRUE /\ UNCHANGED <<bound, onDevice>>
         /\ AllBound
<1> DEFINE u == Unmapped(SafeHandles, host)
           l == Launched(u, W, clock')
<1>1. AllBound /\ TypeOK /\ host \in [Objs -> Datum]
  BY DEF RunSafe, Inv, TypeOK
<1>2. Good(SafeHandles)
  BY SafeHandlesAre
<1>3. SafeScalars \in [ByValue -> Datum]
  BY SafeHandlesAre
<1>4. clock' = clock + 1 /\ clock' \in Stamps
  BY MaxClockAssumption DEF RunSafe, Inv, TypeOK, Stamps
<1>5. /\ Good(u)
      /\ \A n \in Hosted : /\ u[n].hostBuffer = SafeBuffer(n)
                           /\ u[n].data = host[SafeBuffer(n)]
  BY <1>1, <1>2, UnmappedIs, Kinds DEF SafeBuffer
<1>6. /\ scalar' = SafeScalars
      /\ saw' = Read(u, SafeScalars)
      /\ host' = MappedHost(l, host) /\ handle' = Mapped(l)
      /\ unpushed' = Overwritten(l)
      /\ initialized' = TRUE /\ UNCHANGED <<bound, onDevice>>
  BY DEF RunSafe, SafeHandles, SafeScalars
<1> HIDE DEF u
<1>7. /\ Good(l) /\ Dirty(l) = Writable
      /\ \A n \in Handled :
           /\ l[n].hostBuffer = u[n].hostBuffer
           /\ l[n].data = IF n \in W THEN clock' ELSE u[n].data
  <2> DEFINE c == clock'
  <2>1. Good(u) /\ c \in Stamps
    BY <1>4, <1>5
  <2>2. l = Launched(u, W, c)
    OBVIOUS
  <2> HIDE DEF l, c
  <2>3. Good(l) /\ Dirty(l) = Writable
    BY <2>1, <2>2, LaunchedIs
  <2>4. ASSUME NEW n \in Handled
        PROVE  /\ l[n].hostBuffer = u[n].hostBuffer
               /\ l[n].data = IF n \in W THEN c ELSE u[n].data
    BY <2>1, <2>2, LaunchedIs
  <2> QED
    BY <2>3, <2>4 DEF c
<1> HIDE DEF l
<1>8. saw' \in [Bindables -> Datum]
  BY <1>3, <1>5, <1>6, ReadType
<1>9. \A n \in Hosted : saw'[n] = u[n].data
  BY <1>6, Kinds DEF Read
<1>10. \A n \in ByValue : saw'[n] = scalar'[n]
  BY <1>6, Kinds DEF Read
<1>11. \A n \in Hosted :
         /\ l[n].hostBuffer = SafeBuffer(n)
         /\ l[n].data = IF n \in W THEN clock' ELSE host[SafeBuffer(n)]
         /\ saw'[n] = host[SafeBuffer(n)]
  BY <1>5, <1>7, <1>9, Kinds
<1>12. \E k : /\ LaunchedFrom(k, W, clock')
              /\ host' = MappedHost(k, host) /\ handle' = Mapped(k)
              /\ unpushed' = Overwritten(k)
  <2> WITNESS l
  <2> QED
    BY <1>6, <1>7, <1>11 DEF LaunchedFrom
<1> QED
  BY <1>1, <1>3, <1>4, <1>6, <1>8, <1>10, <1>11, <1>12

\* runSafe is init where needed, unmapArgs, the run and mapArgs.
LEMMA RunSafeInv ==
  ASSUME Inv, NEW W \in SUBSET (Writable \cup Temps), RunSafe(W)
  PROVE  Inv'
<1>a. PICK l : /\ LaunchedFrom(l, W, clock')
               /\ host' = MappedHost(l, host) /\ handle' = Mapped(l)
               /\ unpushed' = Overwritten(l)
  BY RunSafeIs, Zenon
<1>0. /\ Good(l) /\ Dirty(l) = Writable
      /\ \A n \in Hosted :
           /\ l[n].hostBuffer = SafeBuffer(n)
           /\ l[n].data = IF n \in W THEN clock' ELSE host[SafeBuffer(n)]
      /\ host' = MappedHost(l, host) /\ handle' = Mapped(l)
      /\ unpushed' = Overwritten(l)
  BY <1>a DEF LaunchedFrom
<1>1. /\ saw' \in [Bindables -> Datum] /\ scalar' \in [ByValue -> Datum]
      /\ clock' \in Stamps
      /\ initialized' = TRUE /\ UNCHANGED <<bound, onDevice>> /\ AllBound
  BY RunSafeIs, Zenon
<1>2. host \in [Objs -> Datum]
  BY DEF Inv, TypeOK
<1>3. host' \in [Objs -> Datum]
  BY <1>0, <1>1, <1>2, MappedHostIs
<1>4. /\ Good(handle')
      /\ \A n \in Handled : /\ handle'[n].hostBuffer = l[n].hostBuffer
                            /\ handle'[n].data = l[n].data
  <2>1. Good(l) /\ handle' = Mapped(l)
    BY <1>0
  <2>2. Good(Mapped(l))
    BY <2>1, MappedIs
  <2>3. ASSUME NEW n \in Handled
        PROVE  /\ Mapped(l)[n].hostBuffer = l[n].hostBuffer
               /\ Mapped(l)[n].data = l[n].data
    BY <2>1, MappedIs
  <2> QED
    BY <2>1, <2>2, <2>3
<1>5. handle' \in Handles /\ handle' # None
  BY <1>4, NoneAssumption DEF Good
<1>6. unpushed' \subseteq Hosted
  BY <1>0, <1>1 DEF Overwritten
<1>7. TypeOK'
  BY <1>0, <1>1, <1>3, <1>4, <1>5, <1>6 DEF Inv, TypeOK, Good
<1>8. HandlesGood'
  BY <1>0, <1>1, <1>4 DEF HandlesGood, Good, Dirty
<1>9. HandlesBound'
  <2>1. Fit => \A n \in Hosted : SafeBuffer(n) = bound[n]
    BY SafeHandlesAre
  <2>2. AllBound' /\ (Fit' => Fit)
    BY <1>1 DEF AllBound, Fit
  <2> QED
    BY <1>0, <1>1, <1>4, <1>5, <2>1, <2>2, Kinds DEF HandlesBound
<1>10. CopiesAgree'
  <2> SUFFICES ASSUME NEW n \in Hosted \ unpushed'
               PROVE  handle'[n].data = host'[handle'[n].hostBuffer]
    BY DEF CopiesAgree
  <2>1. n \in Handled /\ n \notin Overwritten(l) /\ n \notin Temps
    BY <1>0, <1>1, Kinds
  <2>2. ~l[n].devDirty => l[n].data = host[l[n].hostBuffer]
    <3> SUFFICES ASSUME ~l[n].devDirty PROVE l[n].data = host[SafeBuffer(n)]
      BY <1>0, <1>1
    <3>1. n \notin Dirty(l)
      BY DEF Dirty
    <3> QED
      BY <3>1, <1>0, <1>1, <2>1
  <2>3. l[n].data = MappedHost(l, host)[l[n].hostBuffer]
    BY <1>0, <1>1, <1>2, <2>1, <2>2, MappedAgree
  <2> QED
    BY <1>0, <1>1, <1>4, <2>1, <2>3
<1> QED
  BY <1>7, <1>8, <1>9, <1>10 DEF Inv

\* The round trip of one runSafe.
LEMMA RunSafeMakesRoundTrip ==
  ASSUME Inv, NEW W \in SUBSET (Writable \cup Temps), RunSafe(W), Fit
  PROVE  RoundTrip(W)
<1>a. PICK l : LaunchedFrom(l, W, clock') /\ host' = MappedHost(l, host)
  BY RunSafeIs, Zenon
<1>b. \A n \in Hosted : SafeBuffer(n) = bound[n]
  BY SafeHandlesAre
<1>0. /\ Good(l) /\ Dirty(l) = Writable
      /\ \A n \in Hosted :
           /\ l[n].hostBuffer = bound[n]
           /\ l[n].data = IF n \in W THEN clock' ELSE host[bound[n]]
      /\ host' = MappedHost(l, host)
  BY <1>a, <1>b DEF LaunchedFrom
<1>1. /\ \A n \in Hosted : saw'[n] = host[bound[n]]
      /\ host \in [Objs -> Datum]
      /\ \A n \in Bindables : bound[n] \in Objs
  <2>0. AllBound /\ \A n \in Hosted : saw'[n] = host[SafeBuffer(n)]
    BY RunSafeIs, Zenon
  <2>1. AllBound /\ \A n \in Hosted : saw'[n] = host[bound[n]]
    BY <1>b, <2>0
  <2> QED
    BY <2>1 DEF Inv, TypeOK, AllBound
<1>2. \A o \in Objs :
        \/ /\ \A n \in Writable : bound[n] # o
           /\ host'[o] = host[o]
        \/ \E n \in Writable : /\ bound[n] = o
                               /\ host'[o] = l[n].data
  <2>1. \A n \in Writable : l[n].hostBuffer = bound[n]
    BY <1>0, <1>1, Kinds
  <2>2. \A o \in Objs :
          \/ /\ \A n \in Dirty(l) : l[n].hostBuffer # o
             /\ host'[o] = host[o]
          \/ \E n \in Dirty(l) : /\ l[n].hostBuffer = o
                                 /\ host'[o] = l[n].data
    BY <1>0, <1>1, MappedHostIs
  <2> QED
    BY <1>0, <1>1, <2>1, <2>2
<1>3. ASSUME NEW n \in Writable, ~Clashes(n, bound[n])
      PROVE  host'[bound[n]] = IF n \in W THEN clock' ELSE host[bound[n]]
  <2>1. n \in Hosted /\ bound[n] \in Objs
    BY <1>0, <1>1, Kinds
  <2>2. \A m \in Writable : bound[m] = bound[n] => m = n
    BY <1>3, Kinds DEF Clashes
  <2>3. host'[bound[n]] = l[n].data
    BY <1>2, <2>1, <2>2
  <2> QED
    BY <1>0, <1>1, <2>1, <2>3
<1>4. ASSUME NEW o \in Objs, host'[o] # host[o]
      PROVE  \E n \in W \cap Writable : bound[n] = o
  <2>1. PICK n \in Writable : bound[n] = o /\ host'[o] = l[n].data
    BY <1>2, <1>4
  <2>2. n \in Hosted
    BY Kinds
  <2>3. n \in W
    BY <1>0, <1>1, <1>4, <2>1, <2>2
  <2> QED
    BY <2>1, <2>3
<1> QED
  BY <1>0, <1>1, <1>3, <1>4 DEF RoundTrip

\* Every call of the client keeps the invariant.
LEMMA NextInv == Inv /\ [Next]_vars => Inv'
<1> SUFFICES ASSUME Inv, [Next]_vars PROVE Inv'
  OBVIOUS
<1>1. ASSUME NEW o \in Objs, HostWrite(o) PROVE Inv'
  BY <1>1, HostWriteInv
<1>2. ASSUME NEW n \in Bindables, NEW o \in Objs, Bind(n, o) PROVE Inv'
  BY <1>2, BindInv
<1>3. CASE CallInit
  BY <1>3, CallInitInv
<1>4. ASSUME NEW updated \in BOOLEAN, UnmapArgs(updated) PROVE Inv'
  BY <1>4, UnmapArgsInv
<1>5. ASSUME NEW W \in SUBSET (Writable \cup Temps), Run(W) PROVE Inv'
  BY <1>5, RunInv
<1>6. CASE MapArgs
  BY <1>6, MapArgsInv
<1>7. ASSUME NEW W \in SUBSET (Writable \cup Temps), RunSafe(W) PROVE Inv'
  BY <1>7, RunSafeInv
<1>8. ASSUME NEW n \in Bindables, NEW o \in Objs, BindThrows(n, o) PROVE Inv'
  BY <1>8, BindThrowsInv
<1>9. CASE InitThrows
  BY <1>9, InitThrowsInv
<1>10. CASE UNCHANGED vars
  BY <1>10 DEF vars, Inv, TypeOK, HandlesGood, HandlesBound, CopiesAgree,
               AllBound, Fit, Good, Dirty
<1> QED
  BY <1>1, <1>2, <1>3, <1>4, <1>5, <1>6, <1>7, <1>8, <1>9, <1>10 DEF Next

\* The handle tables stay good, and follow the bindings, in every state.
THEOREM HandlesFollow == Spec => []Inv
<1> QED
  BY InitInv, NextInv, PTL DEF Spec

\* Handles stand for the client's buffers and hold stamps or garbage, for
\* every set of names and buffers.
THEOREM TypeCorrect == Spec => []TypeOK
<1>1. Inv => TypeOK
  BY DEF Inv
<1> QED
  BY <1>1, HandlesFollow, PTL

\* Whatever the client calls, a handle that is neither dirty nor out of date
\* holds what its host buffer holds.
THEOREM CopiesAlwaysAgree == Spec => []CopiesAgree
<1>1. Inv => CopiesAgree
  BY DEF Inv
<1> QED
  BY <1>1, HandlesFollow, PTL

\* runSafe makes a round trip from any reachable state in which the grid sets
\* bound fit their types, for any kernel.
THEOREM RunSafeAlwaysRoundTrips == Spec => RunSafeRoundTrip
<1>1. Inv /\ [Next]_vars =>
        [\A W \in SUBSET (Writable \cup Temps) :
           RunSafe(W) /\ Fit => RoundTrip(W)]_vars
  BY RunSafeMakesRoundTrip
<1> QED
  BY <1>1, HandlesFollow, PTL DEF Spec, RunSafeRoundTrip

-----------------------------------------------------------------------------
(* The disciplined client: the two copies are one memory.                  *)

InvD == Inv /\ NoClash /\ InStep /\ Fit

\* The names of one buffer that a run may write are one name.
LEMMA OneWriter ==
  ASSUME NoClash, NEW n \in Bindables, NEW m \in Bindables, bound[n] # None,
         bound[m] = bound[n], n \in Writable
  PROVE  m = n
<1>1. ~Clashes(n, bound[n])
  BY DEF NoClash
<1> QED
  BY <1>1 DEF Clashes

\* With nothing dirty on the device the memory is the host's.
LEMMA ViewClean ==
  ASSUME TypeOK, handle # None => Dirty(handle) = {}
  PROVE  View = host
<1>1. View = [o \in Objs |-> host[o]]
  BY DEF View
<1> QED
  BY <1>1 DEF TypeOK

\* While the client's data is on the device, a buffer's content is that of the
\* one name that a run may write it through, if that is dirty.
ViewFollowsDirty ==
  \A o \in Objs :
    /\ (\A n \in Dirty(handle) : bound[n] # o) => View[o] = host[o]
    /\ \A n \in Dirty(handle) : bound[n] = o => View[o] = handle[n].data

\* So it is whenever the function is initialized and no buffers clash.
LEMMA ViewOnDevice == Inv /\ NoClash /\ Fit /\ initialized => ViewFollowsDirty
<1> SUFFICES ASSUME Inv, NoClash, Fit, initialized, NEW o \in Objs
             PROVE  /\ (\A n \in Dirty(handle) : bound[n] # o) => View[o] = host[o]
                    /\ \A n \in Dirty(handle) :
                         bound[n] = o => View[o] = handle[n].data
  BY DEF ViewFollowsDirty
<1> DEFINE on == {n \in Dirty(handle) : handle[n].hostBuffer = o}
<1>1. handle # None
  BY DEF Inv, HandlesBound
<1>2. \A n \in Dirty(handle) : /\ n \in Writable /\ n \in Bindables
                               /\ handle[n].hostBuffer = bound[n]
  BY <1>1, Kinds DEF Inv, HandlesGood, HandlesBound, Good
<1>3. View[o] = IF on = {} THEN host[o] ELSE handle[CHOOSE n \in on : TRUE].data
  BY <1>1 DEF View
<1>4. (\A n \in Dirty(handle) : bound[n] # o) => View[o] = host[o]
  BY <1>2, <1>3
<1>5. ASSUME NEW n \in Dirty(handle), bound[n] = o
      PROVE  View[o] = handle[n].data
  <2>1. o # None
    BY NoneAssumption
  <2>2. \A m \in on : m = n
    BY <1>2, <1>5, <2>1, OneWriter
  <2>3. on = {n}
    BY <1>2, <1>5, <2>2
  <2> HIDE DEF on
  <2> QED
    BY <1>3, <2>3
<1> QED
  BY <1>4, <1>5

\* mapArgs leaves a buffer that no run may write alone.
LEMMA MappedHostUnwritten ==
  ASSUME NEW h, Good(h), NEW hb \in [Objs -> Datum], NEW o \in Objs,
         \A n \in Dirty(h) : h[n].hostBuffer # o
  PROVE  MappedHost(h, hb)[o] = hb[o]
  BY MappedHostIs

\* Nothing is bound at first.
LEMMA InitInvD == Init => NoClash /\ InStep /\ Fit
  BY NoneAssumption, GridsAssumption DEF Init, NoClash, InStep, Fit

\* The disciplined client writes while nothing is on the device.
LEMMA HostWriteInvD ==
  ASSUME InvD, Disciplined, NEW o \in Objs, HostWrite(o)
  PROVE  NoClash' /\ InStep'
<1>1. NoClash'
  BY DEF HostWrite, InvD, NoClash, Clashes
<1>2. ASSUME initialized, NEW n \in ByValue
      PROVE  scalar[n] = host'[bound[n]]
  <2>1. bound[n] \in Objs /\ bound[n] # o
    BY <1>2, Kinds DEF HostWrite, InvD, Inv, TypeOK, HandlesBound, AllBound
  <2>2. host'[bound[n]] = host[bound[n]]
    BY <2>1 DEF HostWrite, InvD, Inv, TypeOK
  <2> QED
    BY <1>2, <2>2 DEF InvD, InStep
<1>3. InStep'
  BY <1>2 DEF HostWrite, InvD, InStep, Dirty
<1> QED
  BY <1>1, <1>3

\* The disciplined client binds no clashing buffer.
LEMMA BindInvD ==
  ASSUME InvD, Disciplined, NEW n \in Bindables, NEW o \in Objs, Bind(n, o)
  PROVE  NoClash' /\ InStep'
<1>1. ~onDevice /\ ~Clashes(n, o)
  BY DEF Bind
<1>2. \A m \in Bindables : bound'[m] = IF m = n THEN o ELSE bound[m]
  BY DEF Bind, InvD, Inv, TypeOK
<1>3. ASSUME NEW k \in Bindables, NEW m \in Bindables \ {k}, bound'[k] # None,
             bound'[m] = bound'[k]
      PROVE  {m, k} \cap Writable = {}
  <2>1. CASE k = n
    BY <1>1, <1>2, <1>3, <2>1 DEF Clashes
  <2>2. CASE m = n
    BY <1>1, <1>2, <1>3, <2>2 DEF Clashes
  <2>3. CASE k # n /\ m # n
    <3>1. bound[k] # None /\ bound[m] = bound[k]
      BY <1>2, <1>3, <2>3
    <3> QED
      BY <3>1 DEF InvD, NoClash, Clashes
  <2> QED
    BY <2>1, <2>2, <2>3
<1>4. NoClash'
  BY <1>3 DEF NoClash, Clashes
<1>5. InStep'
  BY <1>1 DEF Bind, InvD, InStep, Dirty
<1> QED
  BY <1>4, <1>5

\* init reads the by-value arguments again.
LEMMA CallInitInvD ==
  ASSUME InvD, Disciplined, CallInit
  PROVE  NoClash' /\ InStep'
<1>1. NoClash'
  BY DEF CallInit, InvD, NoClash, Clashes
<1>2. Dirty(Pushed) = {}
  BY PushedIs DEF CallInit, InvD, Inv
<1>3. InStep'
  BY <1>2 DEF CallInit, InStep, Dirty
<1> QED
  BY <1>1, <1>3

\* unmapArgs leaves nothing to push.
LEMMA UnmapArgsInvD ==
  ASSUME InvD, Disciplined, NEW updated \in BOOLEAN, UnmapArgs(updated)
  PROVE  NoClash' /\ InStep'
<1>1. NoClash'
  BY DEF UnmapArgs, InvD, NoClash, Clashes
<1>2. onDevice' /\ initialized' /\ unpushed' = {}
  BY DEF UnmapArgs
<1>3. InStep'
  BY <1>2 DEF UnmapArgs, InvD, InStep
<1> QED
  BY <1>1, <1>3

\* A run keeps everything on the device.
LEMMA RunInvD ==
  ASSUME InvD, Disciplined, NEW W \in SUBSET (Writable \cup Temps), Run(W)
  PROVE  NoClash' /\ InStep'
<1>1. NoClash'
  BY DEF Run, InvD, NoClash, Clashes
<1>2. InStep'
  BY DEF Run, InvD, InStep
<1> QED
  BY <1>1, <1>2

\* mapArgs leaves nothing dirty on the device.
LEMMA MapArgsInvD ==
  ASSUME InvD, Disciplined, MapArgs
  PROVE  NoClash' /\ InStep'
<1>1. NoClash'
  BY DEF MapArgs, InvD, NoClash, Clashes
<1>2. Good(handle) /\ host \in [Objs -> Datum] /\ initialized
  BY DEF MapArgs, InvD, Inv, HandlesGood, TypeOK, InStep
<1>3. Dirty(handle') = {}
  BY <1>2, MappedIs DEF MapArgs
<1>4. ASSUME NEW n \in ByValue
      PROVE  scalar[n] = host'[bound[n]]
  <2>1. bound[n] \in Objs /\ bound[n] # None /\ n \in Bindables
    BY <1>2, Kinds DEF InvD, Inv, TypeOK, HandlesBound, AllBound
  <2>2. \A m \in Dirty(handle) : handle[m].hostBuffer # bound[n]
    <3> SUFFICES ASSUME NEW m \in Dirty(handle), handle[m].hostBuffer = bound[n]
                 PROVE  FALSE
      OBVIOUS
    <3>1. m \in Writable /\ m \in Bindables /\ bound[m] = bound[n]
      BY <1>2, Kinds DEF InvD, Inv, HandlesBound, Good
    <3> QED
      BY <2>1, <3>1, OneWriter, Kinds DEF InvD
  <2>3. host'[bound[n]] = host[bound[n]]
    BY <1>2, <2>1, <2>2, MappedHostUnwritten DEF MapArgs
  <2> QED
    BY <1>2, <2>3 DEF InvD, InStep
<1>5. InStep'
  <2>1. onDevice' = FALSE /\ UNCHANGED <<bound, scalar, initialized>>
    BY DEF MapArgs
  <2> QED
    BY <1>3, <1>4, <2>1 DEF InStep, Dirty
<1> QED
  BY <1>1, <1>5

\* runSafe ends with everything back on the host.
LEMMA RunSafeInvD ==
  ASSUME InvD, Disciplined, NEW W \in SUBSET (Writable \cup Temps), RunSafe(W)
  PROVE  /\ NoClash' /\ InStep'
         /\ \A n \in Bindables : saw'[n] = host[bound[n]]
<1>1. PICK l : /\ LaunchedFrom(l, W, clock')
               /\ host' = MappedHost(l, host) /\ handle' = Mapped(l)
  BY RunSafeIs, Zenon DEF InvD
<1>b. \A n \in Hosted : SafeBuffer(n) = bound[n]
  BY SafeHandlesAre DEF InvD
<1>c. /\ \A n \in Hosted : saw'[n] = host[SafeBuffer(n)]
      /\ \A n \in ByValue : saw'[n] = scalar'[n]
      /\ scalar' = SafeScalars
      /\ UNCHANGED <<bound, onDevice>> /\ AllBound
  BY RunSafeIs, Zenon DEF InvD
<1>2. /\ \A n \in Hosted : saw'[n] = host[bound[n]]
      /\ \A n \in ByValue : saw'[n] = scalar'[n]
      /\ scalar' = SafeScalars
      /\ UNCHANGED <<bound, onDevice>> /\ AllBound
  BY <1>b, <1>c
<1>3. /\ Good(l) /\ Dirty(l) = Writable
      /\ \A n \in Hosted : l[n].hostBuffer = bound[n]
      /\ ~onDevice /\ host \in [Objs -> Datum]
  BY <1>1, <1>b DEF LaunchedFrom, RunSafe, InvD, Inv, TypeOK
<1>4. NoClash'
  BY <1>2 DEF InvD, NoClash, Clashes
<1>5. Dirty(handle') = {}
  BY <1>1, <1>3, MappedIs
<1>6. \A n \in ByValue : scalar'[n] = host[bound[n]]
  BY <1>2 DEF SafeScalars, InvD, InStep
<1>7. ASSUME NEW n \in ByValue
      PROVE  host'[bound[n]] = host[bound[n]]
  <2>1. bound[n] \in Objs /\ bound[n] # None /\ n \in Bindables
    BY <1>2, Kinds DEF InvD, Inv, TypeOK, AllBound
  <2>2. \A m \in Dirty(l) : l[m].hostBuffer # bound[n]
    BY <1>3, <2>1, OneWriter, Kinds DEF InvD
  <2> QED
    BY <1>1, <1>3, <2>1, <2>2, MappedHostUnwritten
<1>8. InStep'
  BY <1>2, <1>3, <1>5, <1>6, <1>7 DEF InStep, Dirty
<1>9. \A n \in Bindables : saw'[n] = host[bound[n]]
  BY <1>2, <1>6, Kinds
<1> QED
  BY <1>4, <1>8, <1>9

\* The disciplined client binds no misfitting set.
LEMMA StaysFit == Disciplined /\ InvD /\ [Next]_vars => Fit'
<1> SUFFICES ASSUME Disciplined, InvD, [Next]_vars PROVE Fit'
  OBVIOUS
<1>1. ASSUME NEW n \in Bindables, NEW o \in Objs, Bind(n, o) PROVE Fit'
  <2>1. \A m \in Bindables : bound'[m] = IF m = n THEN o ELSE bound[m]
    BY <1>1 DEF Bind, InvD, Inv, TypeOK
  <2> QED
    BY <1>1, <2>1 DEF Bind, InvD, Fit
<1>2. CASE bound' = bound
  BY <1>2 DEF InvD, Fit
<1>3. (\E n \in Bindables, o \in Objs : Bind(n, o)) \/ bound' = bound
  BY DEF Next, vars, HostWrite, BindThrows, CallInit, InitThrows,
         UnmapArgs, Run, MapArgs, RunSafe
<1> QED
  BY <1>1, <1>2, <1>3

\* Every call of the disciplined client keeps its invariant.
LEMMA NextInvD == Disciplined /\ InvD /\ [Next]_vars => InvD'
<1> SUFFICES ASSUME Disciplined, InvD, [Next]_vars PROVE NoClash' /\ InStep'
  BY NextInv, StaysFit DEF InvD
<1>1. ASSUME NEW o \in Objs, HostWrite(o) PROVE NoClash' /\ InStep'
  BY <1>1, HostWriteInvD
<1>2. ASSUME NEW n \in Bindables, NEW o \in Objs, Bind(n, o)
      PROVE  NoClash' /\ InStep'
  BY <1>2, BindInvD
<1>3. CASE CallInit
  BY <1>3, CallInitInvD
<1>4. ASSUME NEW updated \in BOOLEAN, UnmapArgs(updated)
      PROVE  NoClash' /\ InStep'
  BY <1>4, UnmapArgsInvD
<1>5. ASSUME NEW W \in SUBSET (Writable \cup Temps), Run(W)
      PROVE  NoClash' /\ InStep'
  BY <1>5, RunInvD
<1>6. CASE MapArgs
  BY <1>6, MapArgsInvD
<1>7. ASSUME NEW W \in SUBSET (Writable \cup Temps), RunSafe(W)
      PROVE  NoClash' /\ InStep'
  BY <1>7, RunSafeInvD
<1>8. ~InitThrows /\ \A n \in Bindables, o \in Objs : ~BindThrows(n, o)
  BY DEF InvD, InitThrows, BindThrows
<1>9. CASE UNCHANGED vars
  BY <1>9 DEF vars, InvD, NoClash, Clashes, InStep, Dirty
<1> QED
  BY <1>1, <1>2, <1>3, <1>4, <1>5, <1>6, <1>7, <1>8, <1>9 DEF Next

\* A launch by the disciplined client reads and writes the one memory.
LEMMA RunSimulates ==
  ASSUME InvD, Disciplined, NEW W \in SUBSET (Writable \cup Temps), Run(W),
         InvD'
  PROVE  InPlace!Run(W \cap Writable)
<1>1. /\ onDevice /\ initialized /\ unpushed = {} /\ handle # None
      /\ initialized' /\ bound' = bound /\ host' = host
      /\ clock' = clock + 1
  BY DEF Run, InvD, InStep
<1>2. /\ Good(handle)
      /\ \A n \in Bindables : bound[n] # None /\ bound[n] \in Objs
      /\ \A n \in Hosted : handle[n].hostBuffer = bound[n]
  BY <1>1 DEF InvD, Inv, TypeOK, HandlesGood, HandlesBound, AllBound
<1>3. clock' \in Stamps
  BY MaxClockAssumption DEF Run, InvD, Inv, TypeOK, Stamps
<1>4. /\ Dirty(handle') = Writable
      /\ \A n \in Handled : handle'[n].data = IF n \in W THEN clock' ELSE handle[n].data
  BY <1>2, <1>3, LaunchedIs DEF Run
<1>5. Dirty(handle) \subseteq Writable
  BY <1>2 DEF Good
<1>6. \A o \in Objs :
        /\ (\A n \in Dirty(handle) : bound[n] # o) => View[o] = host[o]
        /\ \A n \in Dirty(handle) : bound[n] = o => View[o] = handle[n].data
  BY <1>1, ViewOnDevice DEF InvD, ViewFollowsDirty
<1>7. \A o \in Objs :
        /\ (\A n \in Writable : bound[n] # o) => View'[o] = host[o]
        /\ \A n \in Writable : bound[n] = o => View'[o] = handle'[n].data
  <2>1. (Inv /\ NoClash /\ Fit /\ initialized)' => ViewFollowsDirty'
    BY ViewOnDevice, PTL
  <2>2. ViewFollowsDirty'
    BY <1>1, <2>1 DEF InvD
  <2>3. Dirty(handle)' = Writable
    BY <1>4 DEF Dirty
  <2> QED
    BY <1>1, <2>2, <2>3 DEF ViewFollowsDirty
<1>8. \A n \in Hosted : n \notin Dirty(handle) => handle[n].data = host[bound[n]]
  BY <1>1, <1>2, Kinds DEF InvD, Inv, CopiesAgree, Dirty
<1>9. ASSUME NEW n \in Bindables
      PROVE  saw'[n] = View[bound[n]]
  <2>1. CASE n \in ByValue
    <3>1. saw'[n] = host[bound[n]]
      BY <1>1, <2>1, <1>9 DEF Run, Read, InvD, InStep
    <3>2. \A m \in Dirty(handle) : bound[m] # bound[n]
      BY <1>2, <1>5, <2>1, OneWriter, Kinds DEF InvD
    <3> QED
      BY <1>2, <1>6, <3>1, <3>2
  <2>2. CASE n \in Dirty(handle)
    <3>1. saw'[n] = handle[n].data
      BY <1>5, <2>2, <1>9, Kinds DEF Run, Read
    <3> QED
      BY <1>2, <1>6, <2>2, <3>1
  <2>3. CASE n \notin ByValue /\ n \notin Dirty(handle)
    <3>1. n \in Hosted /\ saw'[n] = handle[n].data
      BY <2>3, <1>9, Kinds DEF Run, Read
    <3>2. \A m \in Dirty(handle) : bound[m] # bound[n]
      BY <1>2, <1>5, <2>3, OneWriter, Kinds DEF InvD
    <3> QED
      BY <1>2, <1>6, <1>8, <2>3, <3>1, <3>2
  <2> QED
    BY <2>1, <2>2, <2>3
<1>10. saw' = [n \in Bindables |-> View[bound[n]]]
  <2>1. saw' = [n \in Bindables |-> IF n \in ByValue THEN scalar[n] ELSE handle[n].data]
    BY DEF Run, Read
  <2> QED
    BY <1>9, <2>1
<1>11. ASSUME NEW o \in Objs
       PROVE  View'[o] = IF \E n \in W \cap Writable : bound[n] = o THEN clock'
                         ELSE View[o]
  <2>1. CASE \A n \in Writable : bound[n] # o
    <3>1. View[o] = host[o] /\ View'[o] = host[o]
      BY <1>5, <1>6, <1>7, <2>1
    <3> QED
      BY <2>1, <3>1
  <2>2. ASSUME NEW n \in Writable, bound[n] = o
        PROVE  View'[o] = IF \E m \in W \cap Writable : bound[m] = o THEN clock'
                          ELSE View[o]
    <3>1. \A m \in Writable : bound[m] = o => m = n
      BY <1>2, <2>2, OneWriter, Kinds DEF InvD
    <3>2. View'[o] = IF n \in W THEN clock' ELSE handle[n].data
      BY <1>4, <1>7, <2>2, Kinds
    <3>3. View[o] = handle[n].data
      <4>1. CASE n \in Dirty(handle)
        BY <4>1, <1>6, <2>2
      <4>2. CASE n \notin Dirty(handle)
        <5>1. \A m \in Dirty(handle) : bound[m] # o
          BY <4>2, <3>1, <1>5
        <5>2. handle[n].data = host[o]
          BY <4>2, <1>8, <2>2, Kinds
        <5> QED
          BY <5>1, <5>2, <1>6
      <4> QED
        BY <4>1, <4>2
    <3> QED
      BY <3>1, <3>2, <3>3, <2>2
  <2> QED
    BY <2>1, <2>2
<1>12. View' = [o \in Objs |-> IF \E n \in W \cap Writable : bound[n] = o
                               THEN clock' ELSE View[o]]
  <2>1. View' = [o \in Objs |-> View'[o]]
    BY DEF View
  <2> QED
    BY <1>11, <2>1
<1> QED
  BY <1>1, <1>2, <1>10, <1>12 DEF InPlace!Run

\* mapArgs moves the memory back to the host and changes nothing in it.
LEMMA MapArgsStutters ==
  ASSUME InvD, Disciplined, MapArgs, InvD'
  PROVE  UNCHANGED InPlace!vars
<1>1. /\ initialized /\ Good(handle) /\ host \in [Objs -> Datum]
      /\ UNCHANGED <<bound, saw, clock>> /\ ~onDevice'
  BY DEF MapArgs, InvD, InStep, Inv, HandlesGood, TypeOK
<1>2. \A n \in Dirty(handle) : handle[n].hostBuffer = bound[n]
  BY <1>1, Kinds DEF InvD, Inv, HandlesBound, Good
<1>3. host' = MappedHost(handle, host) /\ host' \in [Objs -> Datum]
  BY <1>1, MappedHostIs DEF MapArgs
<1>4. ASSUME NEW o \in Objs
      PROVE  host'[o] = View[o]
  <2>1. /\ (\A n \in Dirty(handle) : bound[n] # o) => View[o] = host[o]
        /\ \A n \in Dirty(handle) : bound[n] = o => View[o] = handle[n].data
    BY <1>1, ViewOnDevice DEF InvD, ViewFollowsDirty
  <2>2. \/ /\ \A n \in Dirty(handle) : handle[n].hostBuffer # o
           /\ host'[o] = host[o]
        \/ \E n \in Dirty(handle) : /\ handle[n].hostBuffer = o
                                    /\ host'[o] = handle[n].data
    BY <1>1, <1>3, MappedHostIs
  <2> QED
    BY <1>2, <2>1, <2>2
<1>5. View = [o \in Objs |-> View[o]]
  BY DEF View
<1>6. host' = View
  BY <1>3, <1>4, <1>5
<1>7. View' = host'
  <2>1. TypeOK' /\ (handle # None => Dirty(handle) = {})'
    BY <1>1 DEF InvD, Inv, InStep
  <2>2. (TypeOK /\ (handle # None => Dirty(handle) = {}) => View = host)'
    BY ViewClean, PTL
  <2> QED
    BY <2>1, <2>2
<1> QED
  BY <1>1, <1>6, <1>7 DEF InPlace!vars

\* runSafe by the disciplined client is one run on the one memory.
LEMMA RunSafeSimulates ==
  ASSUME InvD, Disciplined, NEW W \in SUBSET (Writable \cup Temps), RunSafe(W),
         InvD'
  PROVE  InPlace!Run(W \cap Writable)
<1>1. /\ ~onDevice /\ ~onDevice' /\ TypeOK /\ TypeOK'
      /\ clock' = clock + 1 /\ bound' = bound
      /\ \A n \in Bindables : bound[n] # None /\ bound[n] \in Objs
  BY DEF RunSafe, InvD, Inv, TypeOK, AllBound
<1>2. View = host /\ View' = host'
  <2>1. View = host
    BY <1>1, ViewClean DEF InvD, InStep
  <2>2. (TypeOK /\ (handle # None => Dirty(handle) = {}) => View = host)'
    BY ViewClean, PTL
  <2>3. (handle # None => Dirty(handle) = {})'
    BY <1>1 DEF InvD, InStep
  <2> QED
    BY <1>1, <2>1, <2>2, <2>3
<1>3. \A n \in Bindables : saw'[n] = host[bound[n]]
  BY RunSafeInvD
<1>4. saw' = [n \in Bindables |-> View[bound[n]]]
  <2>1. saw' = [n \in Bindables |-> saw'[n]]
    BY DEF RunSafe, Read
  <2> QED
    BY <1>2, <1>3, <2>1
<1>5. /\ \A n \in Writable : ~Clashes(n, bound[n]) =>
           host'[bound[n]] = IF n \in W THEN clock' ELSE host[bound[n]]
      /\ \A o \in Objs : host'[o] # host[o] =>
           \E n \in W \cap Writable : bound[n] = o
  BY RunSafeMakesRoundTrip DEF RoundTrip, InvD
<1>6. \A n \in W \cap Writable : host'[bound[n]] = clock'
  BY <1>1, <1>5, Kinds DEF InvD, NoClash
<1>7. host' = [o \in Objs |-> IF \E n \in W \cap Writable : bound[n] = o
                             THEN clock' ELSE host[o]]
  <2>1. host' = [o \in Objs |-> host'[o]]
    BY <1>1 DEF TypeOK
  <2> QED
    BY <1>5, <1>6, <2>1
<1> QED
  BY <1>1, <1>2, <1>4, <1>7 DEF InPlace!Run

\* Every step of the disciplined client's program is a step on the one memory
\* or leaves it alone.
LEMMA StepSimulates ==
  ASSUME Disciplined, InvD, InvD', [Next]_vars
  PROVE  [InPlace!Next]_(InPlace!vars)
<1> DEFINE Clean == handle # None => Dirty(handle) = {}
<1>1. TypeOK /\ TypeOK' /\ (~onDevice => Clean) /\ (~onDevice' => Clean')
  BY DEF InvD, Inv, InStep
<1>2. /\ ~onDevice => View = host
      /\ ~onDevice' => View' = host'
  <2>1. ~onDevice => View = host
    BY <1>1, ViewClean
  <2>2. (TypeOK /\ (handle # None => Dirty(handle) = {}) => View = host)'
    BY ViewClean, PTL
  <2> QED
    BY <1>1, <2>1, <2>2
<1>3. ASSUME NEW o \in Objs, HostWrite(o) PROVE InPlace!Next
  <2>1. View = host /\ View' = host'
    BY <1>2, <1>3 DEF HostWrite
  <2>2. InPlace!Write(o)
    BY <1>3, <2>1 DEF HostWrite, InPlace!Write
  <2> QED
    BY <2>2 DEF InPlace!Next
<1>4. ASSUME NEW n \in Bindables, NEW o \in Objs, Bind(n, o)
      PROVE  InPlace!Next
  <2>1. View = host /\ View' = host'
    BY <1>2, <1>4 DEF Bind
  <2>2. InPlace!Bind(n, o)
    BY <1>4, <2>1 DEF Bind, InPlace!Bind
  <2> QED
    BY <2>2 DEF InPlace!Next
<1>5. CASE CallInit
  <2>1. View = host /\ View' = host'
    BY <1>2, <1>5 DEF CallInit
  <2> QED
    BY <1>5, <2>1 DEF CallInit, InPlace!vars
<1>6. ASSUME NEW updated \in BOOLEAN, UnmapArgs(updated)
      PROVE  UNCHANGED InPlace!vars
  <2>1. /\ ~onDevice /\ handle # None /\ View = host
        /\ UNCHANGED <<host, bound, saw, clock>>
    BY <1>2, <1>6 DEF UnmapArgs
  <2>2. Dirty(handle) = {} /\ Good(handle) /\ host \in [Objs -> Datum]
    BY <1>1, <2>1 DEF InvD, Inv, HandlesGood, TypeOK
  <2>3. Dirty(handle)' = {}
    <3>1. CASE ~updated
      BY <3>1, <1>6, <2>2 DEF UnmapArgs, Dirty
    <3>2. CASE updated
      <4>1. \A n \in Handled : handle'[n].devDirty = handle[n].devDirty
        BY <3>2, <1>6, <2>2, UnmappedIs DEF UnmapArgs
      <4> QED
        BY <4>1, <2>2 DEF Dirty
    <3> QED
      BY <3>1, <3>2
  <2>4. (TypeOK /\ (handle # None => Dirty(handle) = {}) => View = host)'
    BY ViewClean, PTL
  <2>5. View' = host'
    BY <1>1, <2>3, <2>4
  <2> QED
    BY <2>1, <2>5 DEF InPlace!vars
<1>7. ASSUME NEW W \in SUBSET (Writable \cup Temps), Run(W)
      PROVE  InPlace!Next
  <2>1. InPlace!Run(W \cap Writable)
    BY <1>7, RunSimulates
  <2> QED
    BY <2>1 DEF InPlace!Next
<1>8. CASE MapArgs
  BY <1>8, MapArgsStutters
<1>9. ASSUME NEW W \in SUBSET (Writable \cup Temps), RunSafe(W)
      PROVE  InPlace!Next
  <2>1. InPlace!Run(W \cap Writable)
    BY <1>9, RunSafeSimulates
  <2> QED
    BY <2>1 DEF InPlace!Next
<1>10. ~InitThrows /\ \A n \in Bindables, o \in Objs : ~BindThrows(n, o)
  BY DEF InvD, InitThrows, BindThrows
<1>11. CASE UNCHANGED vars
  BY <1>11 DEF vars, InPlace!vars, View, Dirty
<1> QED
  BY <1>3, <1>4, <1>5, <1>6, <1>7, <1>8, <1>9, <1>10, <1>11 DEF Next

\* Under the order of calls the applications use, GPUFunction works in place
\* on the client's buffers as FunctionSpec says a backend must.
THEOREM WorksInPlace == Disciplined => (Spec => ImplementsFunctionSpec)
<1> SUFFICES ASSUME Disciplined PROVE Spec => ImplementsFunctionSpec
  OBVIOUS
<1>1. Init => InvD /\ InPlace!Init
  <2> SUFFICES ASSUME Init PROVE InvD /\ InPlace!Init
    OBVIOUS
  <2>1. InvD
    BY InitInv, InitInvD DEF InvD
  <2>2. View = host
    BY <2>1, ViewClean DEF Init, InvD, Inv
  <2> QED
    BY <2>1, <2>2 DEF Init, InPlace!Init
<1>2. InvD /\ [Next]_vars => InvD'
  BY NextInvD
<1>3. InvD /\ InvD' /\ [Next]_vars => [InPlace!Next]_(InPlace!vars)
  BY StepSimulates
<1> QED
  BY <1>1, <1>2, <1>3, PTL DEF Spec, ImplementsFunctionSpec, InPlace!Spec

=============================================================================
