------------------------------ MODULE SimitSet ------------------------------
(***************************************************************************)
(* The in-memory sets of src/src/graph.h: element counts, the endpoints    *)
(* array of an edge set, and one component buffer per field.  Buffers are  *)
(* total functions over a bounded index range; how much of them is really  *)
(* allocated is kept in epCap and dataCap, so a write past an allocation   *)
(* is visible as such.  simit_uassert throws (error.cpp), so a rejected    *)
(* add is a step that leaves whatever it had already changed.              *)
(***************************************************************************)
EXTENDS Integers, Sequences, FiniteSets

CONSTANTS
  Sets,               \* the Set objects of the client program
  Fields,             \* the FieldData objects it may create
  Declared,           \* [Sets -> SUBSET Fields]: those it adds to each set
  Values,             \* component values; 0 is what calloc and memset write
  EndpointSets,       \* [Sets -> Seq(Sets)]: the sets an edge set links
  Width,              \* [Fields -> 1..]: components of a field's tensor
  CapacityIncrement,  \* Set::capacityIncrement (1024 in the source)
  MaxCapacity,        \* bound on the capacity a set grows to
  MaxElements,        \* [Sets -> Nat]: bound on the elements of each set
  Removable,          \* the sets the client calls remove on
  BadRefs,            \* idents a client passes that name no element it got
                      \* from add; -1 is the ident of a default ElementRef
  Junk                \* content of memory nobody has written

ASSUME ValuesAssumption == 0 \in Values /\ Junk \notin Values
ASSUME EndpointAssumption ==
  /\ EndpointSets \in [Sets -> Seq(Sets)]
  /\ Declared \in [Sets -> SUBSET Fields]
  /\ Removable \subseteq Sets
  /\ BadRefs \subseteq Int
ASSUME WidthAssumption == Width \in [Fields -> Nat \ {0}]
ASSUME CapacityAssumption ==
  /\ CapacityIncrement \in Nat \ {0}
  /\ MaxCapacity \in Nat
  /\ CapacityIncrement <= MaxCapacity
ASSUME ElementsAssumption == MaxElements \in [Sets -> Nat]

VARIABLES
  numElements,  \* [Sets -> Nat]
  capacity,     \* [Sets -> Nat]
  epCap,        \* element slots the endpoints array has room for
  endpoints,    \* [Sets -> [Idents -> [1..Card -> ident]]]
  fields,       \* the FieldData objects of each set
  dataCap,      \* components a field's buffer has room for
  data,         \* [Sets -> [Fields -> [Cells -> Values or Junk]]]
  highWater     \* history: the largest numElements a set has had

vars == <<numElements, capacity, epCap, endpoints, fields, dataCap, data,
          highWater>>

Card(s) == Len(EndpointSets[s])
Positions(s) == 1..Card(s)
Idents == 0..(MaxCapacity - 1)
Cells(f) == 0..(MaxCapacity * Width[f] - 1)

\* The component cells of element i in the buffer of field f.
ElementCells(i, f) == (i * Width[f])..(i * Width[f] + Width[f] - 1)

\* What a client can pass as an endpoint: handles add gave it, or a bad one.
Handles == Idents \cup BadRefs

\* Everything a slot of an endpoints array, or a field's buffer, may hold.
EndpointTuples == UNION {[Positions(s) -> Handles \cup {Junk}] : s \in Sets}
Buffers == UNION {[Cells(f) -> Values \cup {Junk}] : f \in Fields}

-----------------------------------------------------------------------------

\* Set::Set: capacity is one increment, the endpoints array is zeroed.
Init ==
  /\ numElements = [s \in Sets |-> 0]
  /\ capacity = [s \in Sets |-> CapacityIncrement]
  /\ epCap = [s \in Sets |-> CapacityIncrement]
  /\ endpoints = [s \in Sets |-> [i \in Idents |-> [p \in Positions(s) |->
                    IF i < CapacityIncrement THEN 0 ELSE Junk]]]
  /\ fields = [s \in Sets |-> {}]
  /\ dataCap = [s \in Sets |-> [f \in Fields |-> 0]]
  /\ data = [s \in Sets |-> [f \in Fields |-> [c \in Cells(f) |-> Junk]]]
  /\ highWater = [s \in Sets |-> 0]

\* Set::addField: calloc of capacity elements, then push_back.
AddField(s, f) ==
  /\ f \in Declared[s]
  /\ \A t \in Sets : f \notin fields[t]
  /\ fields' = [fields EXCEPT ![s] = @ \cup {f}]
  /\ dataCap' = [dataCap EXCEPT ![s][f] = capacity[s] * Width[f]]
  /\ data' = [data EXCEPT ![s][f] = [c \in Cells(f) |->
                IF c < capacity[s] * Width[f] THEN 0 ELSE Junk]]
  /\ UNCHANGED <<numElements, capacity, epCap, endpoints, highWater>>

\* Slip: `numElements > capacity`, one element too late.
FullTooLate(s) == numElements[s] > capacity[s]

\* The set has no free slot for the element about to be added.
Full(s) == numElements[s] > capacity[s] - 1

\* Slip: the endpoint check lets the first free ident pass.
EndpointOkOffByOne(s, eps, p) == numElements[EndpointSets[s][p]] >= eps[p]

\* addEndpoints checks each endpoint before it writes it.
EndpointOk(s, eps, p) == numElements[EndpointSets[s][p]] > eps[p]

\* Slip: grow from the size the array has, so each rejected add grows it more.
EpCapCompounding(s) ==
  IF Full(s) THEN epCap[s] + CapacityIncrement ELSE epCap[s]

\* Set::increaseEdgeCapacity: realloc, the new slots are not cleared.
EpCapAfter(s) ==
  IF Full(s) THEN capacity[s] + CapacityIncrement ELSE epCap[s]

\* addEndpoints writes the endpoints up to, excluding, the first bad one.
EndpointsAfter(s, eps) ==
  [endpoints[s] EXCEPT ![numElements[s]] = [p \in Positions(s) |->
     IF \A q \in 1..p : EndpointOk(s, eps, q) THEN eps[p] ELSE @[p]]]

\* Slip: the element size is left out of the realloc.
DataCapUnscaled(s) ==
  [f \in Fields |-> IF Full(s) /\ f \in fields[s]
     THEN capacity[s] + CapacityIncrement ELSE dataCap[s][f]]

\* Set::increaseCapacity: every field is reallocated and its tail cleared.
DataCapAfter(s) ==
  [f \in Fields |-> IF Full(s) /\ f \in fields[s]
     THEN (capacity[s] + CapacityIncrement) * Width[f] ELSE dataCap[s][f]]

\* Slip: realloc without the memset.
DataNotCleared(s) == data[s]

DataAfter(s) ==
  [f \in Fields |-> [c \in Cells(f) |->
     IF /\ Full(s) /\ f \in fields[s]
        /\ c \in (capacity[s] * Width[f])..
                   ((capacity[s] + CapacityIncrement) * Width[f] - 1)
     THEN 0 ELSE data[s][f][c]]]

\* Bound: the modelled sets stop growing at MaxElements and MaxCapacity.
RoomToGrow(s) ==
  /\ numElements[s] < MaxElements[s]
  /\ Full(s) => capacity[s] + CapacityIncrement <= MaxCapacity

\* Set::add when every endpoint passes its check.
Add(s, eps) ==
  /\ RoomToGrow(s)
  /\ \A p \in Positions(s) : EndpointOk(s, eps, p)
  /\ epCap' = [epCap EXCEPT ![s] = EpCapAfter(s)]
  /\ endpoints' = [endpoints EXCEPT ![s] = EndpointsAfter(s, eps)]
  /\ dataCap' = [dataCap EXCEPT ![s] = DataCapAfter(s)]
  /\ data' = [data EXCEPT ![s] = DataAfter(s)]
  /\ capacity' = [capacity EXCEPT ![s] =
                    IF Full(s) THEN @ + CapacityIncrement ELSE @]
  /\ numElements' = [numElements EXCEPT ![s] = @ + 1]
  /\ highWater' = [highWater EXCEPT ![s] =
                     IF numElements[s] + 1 > @ THEN numElements[s] + 1 ELSE @]
  /\ UNCHANGED fields

\* Set::add when an endpoint is rejected: the exception leaves the endpoints
\* array already grown and partly written, everything else untouched.
AddThrows(s, eps) ==
  /\ RoomToGrow(s)
  /\ \E p \in Positions(s) : ~EndpointOk(s, eps, p)
  /\ epCap' = [epCap EXCEPT ![s] = EpCapAfter(s)]
  /\ endpoints' = [endpoints EXCEPT ![s] = EndpointsAfter(s, eps)]
  /\ UNCHANGED <<numElements, capacity, fields, dataCap, data, highWater>>

\* Slip: the moved value is read from the slot after the last element.
RemovedDataPastEnd(s, i) ==
  [f \in Fields |-> IF f \in fields[s]
     THEN [data[s][f] EXCEPT ![i] = IF numElements[s] \in Cells(f)
             THEN data[s][f][numElements[s]] ELSE Junk]
     ELSE data[s][f]]

\* Set::remove: in every field, component `element.ident` is overwritten with
\* component `numElements-1`, whatever the width of the field's tensor.
RemovedData(s, i) ==
  [f \in Fields |-> IF f \in fields[s]
     THEN [data[s][f] EXCEPT ![i] = data[s][f][numElements[s] - 1]]
     ELSE data[s][f]]

Remove(s, i) ==
  /\ s \in Removable
  /\ i < numElements[s]
  /\ data' = [data EXCEPT ![s] = RemovedData(s, i)]
  /\ numElements' = [numElements EXCEPT ![s] = @ - 1]
  /\ UNCHANGED <<capacity, epCap, endpoints, fields, dataCap, highWater>>

\* FieldRef::set and TensorRef assignment: every component of one element.
SetField(s, f, i, v) ==
  /\ f \in fields[s]
  /\ i < numElements[s]
  /\ data' = [data EXCEPT ![s][f] = [c \in Cells(f) |->
                IF c \in ElementCells(i, f) THEN v ELSE @[c]]]
  /\ UNCHANGED <<numElements, capacity, epCap, endpoints, fields, dataCap,
                 highWater>>

Next ==
  \E s \in Sets :
    \/ \E f \in Fields : AddField(s, f)
    \/ \E eps \in [Positions(s) -> Handles] : Add(s, eps)
    \/ \E eps \in [Positions(s) -> Handles] : AddThrows(s, eps)
    \/ \E i \in Idents : Remove(s, i)
    \/ \E f \in Fields, i \in Idents, v \in Values : SetField(s, f, i, v)

Spec == Init /\ [][Next]_vars

-----------------------------------------------------------------------------

\* The counters stay within the bound, every buffer holds values or memory
\* nobody has written, every endpoint slot a handle or such memory.
TypeOK ==
  /\ numElements \in [Sets -> 0..MaxCapacity]
  /\ capacity \in [Sets -> 0..MaxCapacity]
  /\ epCap \in [Sets -> 0..MaxCapacity]
  /\ highWater \in [Sets -> 0..MaxCapacity]
  /\ fields \in [Sets -> SUBSET Fields]
  /\ dataCap \in [Sets -> [Fields -> Nat]]
  /\ endpoints \in [Sets -> [Idents -> EndpointTuples]]
  /\ \A s \in Sets : \A i \in Idents :
       endpoints[s][i] \in [Positions(s) -> Handles \cup {Junk}]
  /\ data \in [Sets -> [Fields -> Buffers]]
  /\ \A s \in Sets : \A f \in Fields :
       data[s][f] \in [Cells(f) -> Values \cup {Junk}]

\* Every slot a set can use is allocated in the endpoints array and in every
\* field's buffer, although the two are reallocated by different calls and a
\* rejected add reallocates only one of them.
AllocationCovers ==
  \A s \in Sets :
    /\ numElements[s] <= highWater[s] /\ highWater[s] <= capacity[s]
    /\ epCap[s] \in {capacity[s], capacity[s] + CapacityIncrement}
    /\ \A f \in fields[s] : dataCap[s][f] = capacity[s] * Width[f]

\* add and the field writes store only inside what is allocated by the time
\* they store, also when add throws half way.
WritesInBounds ==
  [][\A s \in Sets :
       /\ \A i \in Idents : endpoints'[s][i] # endpoints[s][i] => i < epCap'[s]
       /\ \A f \in fields[s] : \A c \in Cells(f) :
            data'[s][f][c] # data[s][f][c] => c < dataCap'[s][f]]_vars

\* A slot no element has ever used reads as zero in every field, whether the
\* memory came from addField's calloc or increaseCapacity's realloc+memset.
FreshSlotsAreZero ==
  \A s \in Sets : \A f \in fields[s] :
    \A i \in highWater[s]..(capacity[s] - 1) :
      \A c \in ElementCells(i, f) : data[s][f][c] = 0

\* Every endpoint of every edge is an element of its endpoint set: what
\* addEndpoints asserts once, when the edge is added.
EdgesStayInside ==
  \A s \in Sets : \A i \in 0..(numElements[s] - 1) : \A p \in Positions(s) :
    endpoints[s][i][p] \in 0..(numElements[EndpointSets[s][p]] - 1)

\* The list of elements a client sees through its handles and field refs.
ElemsView ==
  [s \in Sets |-> [k \in 1..numElements[s] |->
     [tensors |-> [f \in Fields |-> [c \in 0..(Width[f] - 1) |->
        IF f \in fields[s] THEN data[s][f][(k - 1) * Width[f] + c] ELSE Junk]],
      eps |-> endpoints[s][k - 1]]]]

Abstract == INSTANCE SetSpec WITH elems <- ElemsView, hasFields <- fields

\* The buffers implement the list of elements of SetSpec: growing a set moves
\* nothing a handle can see, and remove moves exactly one whole element.
ImplementsSetSpec == Abstract!SetSpecification
=============================================================================
