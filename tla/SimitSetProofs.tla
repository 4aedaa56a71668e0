--------------------------- MODULE SimitSetProofs ---------------------------
(***************************************************************************)
(* Proofs about SimitSet for every number of sets and fields, every tensor *)
(* width and every capacity increment.                                     *)
(***************************************************************************)
EXTENDS SimitSet, SequenceTheorems, TLAPS

\* The bound of the model keeps numElements inside the index range only
\* because numElements never passes capacity, so the two are proved together.
Inv == TypeOK /\ AllocationCovers

USE ValuesAssumption, EndpointAssumption, WidthAssumption, CapacityAssumption

\* A product of naturals is a natural: the solver does not know it of
\* non-linear terms.
LEMMA TimesNat == \A a, b \in Nat : a * b \in Nat
  OBVIOUS

\* A product with a positive factor is not smaller.
LEMMA TimesGrows == \A m, w \in Nat : w # 0 => m <= m * w
  OBVIOUS

\* Set::Set allocates one increment of everything it counts.
LEMMA InitInv == Init => Inv
<1> SUFFICES ASSUME Init PROVE Inv
  OBVIOUS
<1>1. \A s \in Sets : \A i \in Idents :
        endpoints[s][i] \in [Positions(s) -> Handles \cup {Junk}]
  BY DEF Init, Idents, Handles
<1>2. endpoints \in [Sets -> [Idents -> EndpointTuples]]
  BY DEF Init, Idents, Handles, EndpointTuples
<1>3. /\ data \in [Sets -> [Fields -> Buffers]]
      /\ \A s \in Sets : \A f \in Fields :
           data[s][f] \in [Cells(f) -> Values \cup {Junk}]
  BY DEF Init, Buffers
<1>4. /\ numElements \in [Sets -> 0..MaxCapacity]
      /\ capacity \in [Sets -> 0..MaxCapacity]
      /\ epCap \in [Sets -> 0..MaxCapacity]
      /\ highWater \in [Sets -> 0..MaxCapacity]
      /\ dataCap \in [Sets -> [Fields -> Nat]]
  BY DEF Init
<1>5. fields \in [Sets -> SUBSET Fields]
  BY DEF Init
<1>6. TypeOK
  BY <1>1, <1>2, <1>3, <1>4, <1>5 DEF TypeOK
<1>7. AllocationCovers
  BY DEF Init, AllocationCovers
<1> QED
  BY <1>6, <1>7 DEF Inv

-----------------------------------------------------------------------------

\* What the two kinds of add need of the state before them: an index to write
\* and room for the grown arrays.
LEMMA GrowthFits ==
  ASSUME Inv, NEW s \in Sets, RoomToGrow(s)
  PROVE  /\ numElements[s] \in Idents
         /\ numElements[s] + 1 \in 0..MaxCapacity
         /\ Full(s) => /\ numElements[s] = capacity[s]
                       /\ capacity[s] + CapacityIncrement \in 0..MaxCapacity
         /\ EpCapAfter(s) \in 0..MaxCapacity
<1>1. /\ numElements[s] \in 0..MaxCapacity /\ capacity[s] \in 0..MaxCapacity
      /\ epCap[s] \in 0..MaxCapacity
      /\ numElements[s] <= capacity[s]
  BY DEF Inv, TypeOK, AllocationCovers
<1> QED
  BY SMTT(60), <1>1 DEF RoomToGrow, Full, EpCapAfter, Idents

\* addEndpoints leaves an array of handles, whichever endpoint it stopped at.
LEMMA EndpointsTyped ==
  ASSUME Inv, NEW s \in Sets, RoomToGrow(s),
         NEW eps \in [Positions(s) -> Handles],
         endpoints' = [endpoints EXCEPT ![s] = EndpointsAfter(s, eps)]
  PROVE  /\ endpoints' \in [Sets -> [Idents -> EndpointTuples]]
         /\ \A t \in Sets : \A i \in Idents :
              endpoints'[t][i] \in [Positions(t) -> Handles \cup {Junk}]
<1>1. numElements[s] \in Idents
  BY GrowthFits
<1>2. /\ endpoints \in [Sets -> [Idents -> EndpointTuples]]
      /\ \A t \in Sets : \A i \in Idents :
           endpoints[t][i] \in [Positions(t) -> Handles \cup {Junk}]
  BY DEF Inv, TypeOK
<1> DEFINE row == [p \in Positions(s) |->
             IF \A q \in 1..p : EndpointOk(s, eps, q) THEN eps[p]
             ELSE endpoints[s][numElements[s]][p]]
<1>3. row \in [Positions(s) -> Handles \cup {Junk}]
  BY <1>1, <1>2
<1>4. EndpointsAfter(s, eps) = [endpoints[s] EXCEPT ![numElements[s]] = row]
  BY <1>1, <1>2 DEF EndpointsAfter
<1> HIDE DEF row
<1>5. row \in EndpointTuples
  BY <1>3 DEF EndpointTuples
<1>6. endpoints[s] \in [Idents -> EndpointTuples]
  BY <1>2
<1>7. EndpointsAfter(s, eps) \in [Idents -> EndpointTuples]
  BY <1>4, <1>5, <1>6
<1>8. \A i \in Idents : EndpointsAfter(s, eps)[i]
                          \in [Positions(s) -> Handles \cup {Junk}]
  BY <1>1, <1>2, <1>3, <1>4
<1> QED
  BY <1>2, <1>7, <1>8

\* increaseCapacity keeps every buffer a buffer.
LEMMA DataTyped ==
  ASSUME Inv, NEW s \in Sets
  PROVE  /\ \A f \in Fields :
              DataAfter(s)[f] \in [Cells(f) -> Values \cup {Junk}]
         /\ DataAfter(s) \in [Fields -> Buffers]
         /\ DataCapAfter(s) \in [Fields -> Nat]
<1>1. \A f \in Fields : DataAfter(s)[f] \in [Cells(f) -> Values \cup {Junk}]
  BY DEF Inv, TypeOK, DataAfter
<1>2. DataAfter(s) \in [Fields -> Buffers]
  BY <1>1 DEF DataAfter, Buffers
<1>3. \A f \in Fields : (capacity[s] + CapacityIncrement) * Width[f] \in Nat
  BY TimesNat DEF Inv, TypeOK
<1>4. DataCapAfter(s) \in [Fields -> Nat]
  BY <1>3 DEF DataCapAfter, Inv, TypeOK
<1> QED
  BY <1>1, <1>2, <1>4

\* Replacing one set's buffers by typed ones keeps the whole array typed.
LEMMA DataUpdate ==
  ASSUME Inv, NEW s \in Sets, NEW d,
         \A f \in Fields : d[f] \in [Cells(f) -> Values \cup {Junk}],
         d \in [Fields -> Buffers],
         data' = [data EXCEPT ![s] = d]
  PROVE  /\ data' \in [Sets -> [Fields -> Buffers]]
         /\ \A t \in Sets : \A f \in Fields :
              data'[t][f] \in [Cells(f) -> Values \cup {Junk}]
  BY DEF Inv, TypeOK

\* addField allocates for the whole capacity.
LEMMA AddFieldInv ==
  ASSUME Inv, NEW s \in Sets, NEW f \in Fields, AddField(s, f)
  PROVE  Inv'
<1> DEFINE fresh == [c \in Cells(f) |->
             IF c < capacity[s] * Width[f] THEN 0 ELSE Junk]
           d == [data[s] EXCEPT ![f] = fresh]
<1>1. data' = [data EXCEPT ![s] = d] /\ data[s] \in [Fields -> Buffers]
  BY DEF AddField, Inv, TypeOK
<1>2. fresh \in [Cells(f) -> Values \cup {Junk}]
  OBVIOUS
<1> HIDE DEF fresh
<1>3. fresh \in Buffers
  BY <1>2 DEF Buffers
<1>4. /\ \A g \in Fields : d[g] \in [Cells(g) -> Values \cup {Junk}]
      /\ d \in [Fields -> Buffers]
  BY <1>1, <1>2, <1>3 DEF Inv, TypeOK
<1> HIDE DEF d
<1>5. /\ data' \in [Sets -> [Fields -> Buffers]]
      /\ \A t \in Sets : \A g \in Fields :
           data'[t][g] \in [Cells(g) -> Values \cup {Junk}]
  BY <1>1, <1>4, DataUpdate
<1>6. capacity[s] * Width[f] \in Nat
  BY TimesNat DEF Inv, TypeOK
<1>7. /\ dataCap' \in [Sets -> [Fields -> Nat]]
      /\ fields' \in [Sets -> SUBSET Fields]
  BY <1>6 DEF AddField, Inv, TypeOK
<1>8. TypeOK'
  BY <1>5, <1>7 DEF AddField, Inv, TypeOK
<1>9. AllocationCovers'
  BY SMTT(60) DEF AddField, Inv, TypeOK, AllocationCovers
<1> QED
  BY <1>8, <1>9 DEF Inv

\* add writes the slot it has just made sure of.
LEMMA AddInv ==
  ASSUME Inv, NEW s \in Sets, NEW eps \in [Positions(s) -> Handles],
         Add(s, eps)
  PROVE  Inv'
<1>1. RoomToGrow(s)
  BY DEF Add
<1>2. /\ endpoints' \in [Sets -> [Idents -> EndpointTuples]]
      /\ \A t \in Sets : \A i \in Idents :
           endpoints'[t][i] \in [Positions(t) -> Handles \cup {Junk}]
  BY <1>1, EndpointsTyped DEF Add
<1>3. /\ data' \in [Sets -> [Fields -> Buffers]]
      /\ \A t \in Sets : \A g \in Fields :
           data'[t][g] \in [Cells(g) -> Values \cup {Junk}]
  BY DataTyped, DataUpdate DEF Add
<1>4. dataCap' \in [Sets -> [Fields -> Nat]]
  BY DataTyped DEF Add, Inv, TypeOK
<1>5. /\ numElements' \in [Sets -> 0..MaxCapacity]
      /\ capacity' \in [Sets -> 0..MaxCapacity]
      /\ epCap' \in [Sets -> 0..MaxCapacity]
      /\ highWater' \in [Sets -> 0..MaxCapacity]
  BY <1>1, GrowthFits DEF Add, Inv, TypeOK
<1>6. TypeOK'
  BY <1>2, <1>3, <1>4, <1>5 DEF Add, Inv, TypeOK
<1>7. ASSUME NEW t \in Sets
      PROVE  /\ numElements'[t] <= highWater'[t]
             /\ highWater'[t] <= capacity'[t]
             /\ epCap'[t] \in {capacity'[t], capacity'[t] + CapacityIncrement}
  BY SMTT(60) DEF Add, Inv, TypeOK, AllocationCovers, EpCapAfter, Full
<1>8. ASSUME NEW t \in Sets, NEW f \in fields'[t]
      PROVE  dataCap'[t][f] = capacity'[t] * Width[f]
  BY DEF Add, Inv, TypeOK, AllocationCovers, DataCapAfter
<1> QED
  BY <1>6, <1>7, <1>8 DEF Inv, AllocationCovers

\* An add that throws has grown the endpoints array and nothing else.
LEMMA AddThrowsInv ==
  ASSUME Inv, NEW s \in Sets, NEW eps \in [Positions(s) -> Handles],
         AddThrows(s, eps)
  PROVE  Inv'
<1>1. RoomToGrow(s)
  BY DEF AddThrows
<1>2. /\ endpoints' \in [Sets -> [Idents -> EndpointTuples]]
      /\ \A t \in Sets : \A i \in Idents :
           endpoints'[t][i] \in [Positions(t) -> Handles \cup {Junk}]
  BY <1>1, EndpointsTyped DEF AddThrows
<1>3. epCap' \in [Sets -> 0..MaxCapacity]
  BY <1>1, GrowthFits DEF AddThrows, Inv, TypeOK
<1>4. TypeOK'
  BY <1>2, <1>3 DEF AddThrows, Inv, TypeOK
<1>5. AllocationCovers'
  BY DEF AddThrows, Inv, TypeOK, AllocationCovers, EpCapAfter
<1> QED
  BY <1>4, <1>5 DEF Inv

\* remove writes into slots in use.
LEMMA RemoveInv ==
  ASSUME Inv, NEW s \in Sets, NEW i \in Idents, Remove(s, i)
  PROVE  Inv'
<1>1. \A f \in Fields : /\ i \in Cells(f)
                         /\ numElements[s] - 1 \in Cells(f)
  <2> SUFFICES ASSUME NEW f \in Fields
               PROVE  i \in Cells(f) /\ numElements[s] - 1 \in Cells(f)
    OBVIOUS
  <2>1. MaxCapacity <= MaxCapacity * Width[f]
    BY TimesGrows
  <2>2. MaxCapacity * Width[f] \in Nat
    BY TimesNat
  <2> QED
    BY SMTT(60), <2>1, <2>2 DEF Cells, Idents, Remove, Inv, TypeOK
<1>2. \A f \in Fields :
        RemovedData(s, i)[f] \in [Cells(f) -> Values \cup {Junk}]
  BY <1>1 DEF RemovedData, Inv, TypeOK
<1>3. RemovedData(s, i) \in [Fields -> Buffers]
  BY <1>2 DEF RemovedData, Buffers
<1>4. /\ data' \in [Sets -> [Fields -> Buffers]]
      /\ \A t \in Sets : \A g \in Fields :
           data'[t][g] \in [Cells(g) -> Values \cup {Junk}]
  BY <1>2, <1>3, DataUpdate DEF Remove
<1>5. numElements' \in [Sets -> 0..MaxCapacity]
  BY DEF Remove, Idents, Inv, TypeOK
<1>6. TypeOK'
  BY <1>4, <1>5 DEF Remove, Inv, TypeOK
<1>7. AllocationCovers'
  BY DEF Remove, Inv, TypeOK, AllocationCovers
<1> QED
  BY <1>6, <1>7 DEF Inv

\* FieldRef::set writes into a slot in use.
LEMMA SetFieldInv ==
  ASSUME Inv, NEW s \in Sets, NEW f \in Fields, NEW i \in Idents,
         NEW v \in Values, SetField(s, f, i, v)
  PROVE  Inv'
<1> DEFINE buf == [c \in Cells(f) |->
             IF c \in ElementCells(i, f) THEN v ELSE data[s][f][c]]
           d == [data[s] EXCEPT ![f] = buf]
<1>1. data' = [data EXCEPT ![s] = d] /\ data[s] \in [Fields -> Buffers]
  BY DEF SetField, Inv, TypeOK
<1>2. buf \in [Cells(f) -> Values \cup {Junk}]
  BY DEF Inv, TypeOK
<1> HIDE DEF buf
<1>3. buf \in Buffers
  BY <1>2 DEF Buffers
<1>4. /\ \A g \in Fields : d[g] \in [Cells(g) -> Values \cup {Junk}]
      /\ d \in [Fields -> Buffers]
  BY <1>1, <1>2, <1>3 DEF Inv, TypeOK
<1> HIDE DEF d
<1>5. /\ data' \in [Sets -> [Fields -> Buffers]]
      /\ \A t \in Sets : \A g \in Fields :
           data'[t][g] \in [Cells(g) -> Values \cup {Junk}]
  BY <1>1, <1>4, DataUpdate
<1>6. TypeOK'
  BY <1>5 DEF SetField, Inv, TypeOK
<1>7. AllocationCovers'
  BY DEF SetField, Inv, TypeOK, AllocationCovers
<1> QED
  BY <1>6, <1>7 DEF Inv

\* One step of the program, or none, keeps the invariant.
LEMMA StepInv == Inv /\ [Next]_vars => Inv'
<1> SUFFICES ASSUME Inv, [Next]_vars PROVE Inv'
  OBVIOUS
<1>1. CASE UNCHANGED vars
  BY <1>1 DEF vars, Inv, TypeOK, AllocationCovers, Full
<1>2. ASSUME NEW s \in Sets, NEW f \in Fields, AddField(s, f) PROVE Inv'
  BY <1>2, AddFieldInv
<1>3. ASSUME NEW s \in Sets, NEW eps \in [Positions(s) -> Handles],
             Add(s, eps)
      PROVE  Inv'
  BY <1>3, AddInv
<1>4. ASSUME NEW s \in Sets, NEW eps \in [Positions(s) -> Handles],
             AddThrows(s, eps)
      PROVE  Inv'
  BY <1>4, AddThrowsInv
<1>5. ASSUME NEW s \in Sets, NEW i \in Idents, Remove(s, i) PROVE Inv'
  BY <1>5, RemoveInv
<1>6. ASSUME NEW s \in Sets, NEW f \in Fields, NEW i \in Idents,
             NEW v \in Values, SetField(s, f, i, v)
      PROVE  Inv'
  BY <1>6, SetFieldInv
<1> QED
  BY <1>1, <1>2, <1>3, <1>4, <1>5, <1>6 DEF Next

\* The invariant holds throughout, so each of its parts does.
THEOREM InvAlways == Spec => []Inv
  BY InitInv, StepInv, PTL DEF Spec

\* Every variable of the sets keeps its type: counters inside their bounds,
\* every buffer cell a value or memory nobody wrote.
THEOREM SetTypeCorrect == Spec => []TypeOK
<1>1. Inv => TypeOK
  BY DEF Inv
<1> QED
  BY <1>1, InvAlways, PTL

\* Set::add, also when addEndpoints throws half way, keeps every usable slot
\* allocated in the endpoints array and in every field buffer.
THEOREM SetAllocationCovers == Spec => []AllocationCovers
<1>1. Inv => AllocationCovers
  BY DEF Inv
<1> QED
  BY <1>1, InvAlways, PTL

-----------------------------------------------------------------------------

\* A product grows with its factor.
LEMMA TimesMonotone == \A a, b, w \in Nat : a <= b => a * w <= b * w
  OBVIOUS

\* The cells of element i lie between i and i + 1 times the tensor's width.
LEMMA CellsOfElement ==
  ASSUME NEW i \in Nat, NEW f \in Fields
  PROVE  /\ i * Width[f] \in Nat
         /\ (i + 1) * Width[f] \in Nat
         /\ \A c \in ElementCells(i, f) :
              c \in Nat /\ i * Width[f] <= c /\ c < (i + 1) * Width[f]
<1>1. (i + 1) * Width[f] = i * Width[f] + Width[f]
  OBVIOUS
<1>2. i * Width[f] \in Nat /\ (i + 1) * Width[f] \in Nat
  BY TimesNat
<1> QED
  BY <1>1, <1>2 DEF ElementCells

\* Elements below capacity own cells of the buffer.
LEMMA ElementCellsFit ==
  ASSUME Inv, NEW f \in Fields, NEW i \in Nat, i < MaxCapacity
  PROVE  ElementCells(i, f) \subseteq Cells(f)
<1>1. (i + 1) * Width[f] <= MaxCapacity * Width[f]
  <2>1. i + 1 \in Nat /\ MaxCapacity \in Nat /\ Width[f] \in Nat /\ i + 1 <= MaxCapacity
    OBVIOUS
  <2> HIDE ValuesAssumption, EndpointAssumption, WidthAssumption, CapacityAssumption
  <2> QED
    BY <2>1, TimesMonotone
<1>2. (i + 1) * Width[f] \in Nat /\ MaxCapacity * Width[f] \in Nat
  BY TimesNat
<1>3. \A c \in ElementCells(i, f) : c \in Nat /\ c < (i + 1) * Width[f]
  BY CellsOfElement
<1> QED
  BY <1>1, <1>2, <1>3 DEF Cells

\* addField's calloc and increaseCapacity's memset together clear every slot
\* before it is first used, and nothing writes a slot before that.
LEMMA StepFresh ==
  ASSUME Inv, Inv', FreshSlotsAreZero, [Next]_vars
  PROVE  FreshSlotsAreZero'
<1> SUFFICES ASSUME NEW t \in Sets, NEW g \in fields'[t],
                    NEW i \in highWater'[t]..(capacity'[t] - 1),
                    NEW c \in ElementCells(i, g)
             PROVE  data'[t][g][c] = 0
  BY DEF FreshSlotsAreZero
<1>1. /\ g \in Fields /\ i \in Nat /\ i < MaxCapacity
      /\ i >= highWater'[t] /\ i < capacity'[t]
      /\ highWater'[t] \in Nat /\ capacity'[t] \in Nat
      /\ highWater[t] \in Nat /\ capacity[t] \in Nat
      /\ numElements[t] \in Nat /\ numElements[t] <= highWater[t]
  BY SMTT(60) DEF Inv, TypeOK, AllocationCovers
<1>2. /\ c \in Cells(g) /\ c \in Nat
      /\ i * Width[g] <= c /\ c < (i + 1) * Width[g]
      /\ i * Width[g] \in Nat /\ (i + 1) * Width[g] \in Nat
      /\ Width[g] \in Nat /\ i + 1 \in Nat
  <2>1. c \in Cells(g)
    BY <1>1, ElementCellsFit
  <2>2. Width[g] \in Nat /\ i + 1 \in Nat
    BY <1>1
  <2>3. i * Width[g] \in Nat /\ (i + 1) * Width[g] \in Nat
    BY <1>1, <2>2, TimesNat
  <2>4. c \in Nat /\ i * Width[g] <= c /\ c < (i + 1) * Width[g]
    BY <1>1, CellsOfElement
  <2> QED
    BY <2>1, <2>2, <2>3, <2>4
<1>3. CASE UNCHANGED <<highWater, capacity, fields, data>>
  BY <1>1, <1>3 DEF FreshSlotsAreZero
<1>4. ASSUME NEW s \in Sets, NEW f \in Fields, AddField(s, f)
      PROVE  data'[t][g][c] = 0
  <2>1. CASE t = s /\ g = f
    <3>1. i + 1 <= capacity[s] /\ capacity[s] \in Nat
      BY <1>1, <1>4, <2>1 DEF AddField
    <3>2. /\ (i + 1) * Width[g] <= capacity[s] * Width[g]
          /\ capacity[s] * Width[g] \in Nat
      BY <1>2, <3>1, TimesMonotone, TimesNat
    <3>3. data'[s][f] = [k \in Cells(f) |->
                          IF k < capacity[s] * Width[f] THEN 0 ELSE Junk]
      BY <1>4 DEF AddField, Inv, TypeOK
    <3> QED
      BY <1>2, <2>1, <3>2, <3>3
  <2>2. CASE ~(t = s /\ g = f)
    <3>0. g \in fields[t]
      BY <1>1, <1>4, <2>2 DEF AddField, Inv, TypeOK
    <3>1. data'[t][g] = data[t][g]
      BY <1>1, <1>4, <2>2 DEF AddField, Inv, TypeOK
    <3> QED
      BY SMTT(60), <1>1, <1>4, <3>0, <3>1 DEF AddField, FreshSlotsAreZero
  <2> QED
    BY <2>1, <2>2
<1>5. ASSUME NEW s \in Sets, NEW eps \in [Positions(s) -> Handles],
             Add(s, eps)
      PROVE  data'[t][g][c] = 0
  <2>1. CASE t # s
    BY SMTT(60), <1>1, <1>5, <2>1 DEF Add, FreshSlotsAreZero, Inv, TypeOK
  <2>2. CASE t = s
    <3>1. /\ data'[s] = DataAfter(s) /\ g \in fields[s]
          /\ highWater'[s] >= highWater[s]
      BY <1>5, <2>2 DEF Add, Inv, TypeOK
    <3>2. CASE i < capacity[s]
      <4>1. i \in highWater[s]..(capacity[s] - 1)
        BY SMTT(60), <1>1, <2>2, <3>1, <3>2
      <4>2. data[s][g][c] = 0
        BY <2>2, <3>1, <4>1 DEF FreshSlotsAreZero
      <4> QED
        BY <1>1, <1>2, <2>2, <3>1, <4>2 DEF DataAfter
    <3>3. CASE i >= capacity[s]
      <4>1. Full(s) /\ i + 1 <= capacity[s] + CapacityIncrement
        BY SMTT(60), <1>1, <1>5, <2>2, <3>3 DEF Add, Inv, TypeOK
      <4>2. /\ capacity[s] * Width[g] <= i * Width[g]
            /\ (i + 1) * Width[g] <=
                 (capacity[s] + CapacityIncrement) * Width[g]
            /\ capacity[s] * Width[g] \in Nat
            /\ (capacity[s] + CapacityIncrement) * Width[g] \in Nat
        <5>1. /\ capacity[s] \in Nat /\ capacity[s] <= i
              /\ capacity[s] + CapacityIncrement \in Nat
          BY <1>1, <2>2, <3>3
        <5> QED
          BY <1>1, <1>2, <4>1, <5>1, TimesMonotone, TimesNat
      <4>3. c \in (capacity[s] * Width[g])..
                    ((capacity[s] + CapacityIncrement) * Width[g] - 1)
        BY SMTT(60), <1>2, <4>2
      <4> QED
        BY <1>1, <1>2, <2>2, <3>1, <4>1, <4>3 DEF DataAfter
    <3> QED
      BY <1>1, <2>2, <3>2, <3>3
  <2> QED
    BY <2>1, <2>2
<1>6. ASSUME NEW s \in Sets, NEW eps \in [Positions(s) -> Handles],
             AddThrows(s, eps)
      PROVE  data'[t][g][c] = 0
  BY <1>3, <1>6 DEF AddThrows
<1>7. ASSUME NEW s \in Sets, NEW j \in Idents, Remove(s, j)
      PROVE  data'[t][g][c] = 0
  <2>1. data[t][g][c] = 0
    BY <1>1, <1>7 DEF Remove, FreshSlotsAreZero
  <2>2. CASE t # s
    BY <1>7, <2>1, <2>2 DEF Remove, Inv, TypeOK
  <2>3. CASE t = s
    <3>1. j < i
      BY <1>1, <1>7, <2>3 DEF Remove, Idents, Inv, TypeOK
    <3>2. i <= i * Width[g]
      BY <1>1, TimesGrows
    <3>3. j # c
      BY <1>1, <1>2, <3>1, <3>2 DEF Idents
    <3>4. data'[s] = RemovedData(s, j)
      BY <1>7 DEF Remove, Inv, TypeOK
    <3> QED
      BY SMTT(60), <1>1, <1>2, <2>1, <2>3, <3>3, <3>4 DEF RemovedData, Inv, TypeOK
  <2> QED
    BY <2>2, <2>3
<1>8. ASSUME NEW s \in Sets, NEW f \in Fields, NEW j \in Idents,
             NEW v \in Values, SetField(s, f, j, v)
      PROVE  data'[t][g][c] = 0
  <2>1. data[t][g][c] = 0
    BY <1>1, <1>8 DEF SetField, FreshSlotsAreZero
  <2>2. CASE ~(t = s /\ g = f)
    BY <1>1, <1>8, <2>1, <2>2 DEF SetField, Inv, TypeOK
  <2>3. CASE t = s /\ g = f
    <3>1. j \in Nat /\ j + 1 <= i
      BY <1>1, <1>8, <2>3 DEF SetField, Idents, Inv, TypeOK
    <3>2. j + 1 \in Nat
      BY <3>1
    <3>3. (j + 1) * Width[g] <= i * Width[g] /\ (j + 1) * Width[g] \in Nat
      BY <1>1, <1>2, <3>1, <3>2, TimesMonotone, TimesNat
    <3>4. c \notin ElementCells(j, f)
      <4> SUFFICES ASSUME c \in ElementCells(j, f) PROVE FALSE
        OBVIOUS
      <4>1. c < (j + 1) * Width[g]
        BY <2>3, <3>1, CellsOfElement
      <4> QED
        BY <1>2, <3>3, <4>1
    <3>5. data'[s][f] = [k \in Cells(f) |->
                 IF k \in ElementCells(j, f) THEN v ELSE data[s][f][k]]
      BY <1>8 DEF SetField, Inv, TypeOK
    <3> QED
      BY <1>2, <2>1, <2>3, <3>4, <3>5
  <2> QED
    BY <2>2, <2>3
<1>9. CASE UNCHANGED vars
  BY <1>3, <1>9 DEF vars
<1> QED
  BY <1>4, <1>5, <1>6, <1>7, <1>8, <1>9 DEF Next

\* A slot that never held an element reads as zero in every field, however
\* many times Set::increaseCapacity has moved the buffers.
THEOREM SetFreshSlotsAreZero == Spec => []FreshSlotsAreZero
<1>1. Init => FreshSlotsAreZero
  BY DEF Init, FreshSlotsAreZero
<1>2. Inv /\ Inv' /\ FreshSlotsAreZero /\ [Next]_vars => FreshSlotsAreZero'
  BY StepFresh
<1> QED
  BY <1>1, <1>2, InvAlways, PTL DEF Spec

-----------------------------------------------------------------------------

\* The row of the endpoints array that addEndpoints writes is the one of the
\* element about to exist; all the other rows stay as they are.
LEMMA OtherRowsKept ==
  ASSUME Inv, NEW s \in Sets, RoomToGrow(s),
         NEW eps \in [Positions(s) -> Handles],
         endpoints' = [endpoints EXCEPT ![s] = EndpointsAfter(s, eps)]
  PROVE  \A t \in Sets, i \in Idents :
           ~(t = s /\ i = numElements[s]) =>
             endpoints'[t][i] = endpoints[t][i]
<1>1. numElements[s] \in Idents
  BY GrowthFits
<1> QED
  BY <1>1 DEF EndpointsAfter, Inv, TypeOK

\* While no element is removed, the check addEndpoints makes once is enough.
LEMMA StepEdges ==
  ASSUME Inv, Inv', EdgesStayInside, [Next]_vars,
         Removable = {}, BadRefs \subseteq Nat
  PROVE  EdgesStayInside'
<1> SUFFICES ASSUME NEW t \in Sets, NEW i \in 0..(numElements'[t] - 1),
                    NEW p \in Positions(t)
             PROVE  endpoints'[t][i][p]
                      \in 0..(numElements'[EndpointSets[t][p]] - 1)
  BY DEF EdgesStayInside
<1> DEFINE u == EndpointSets[t][p]
<1>1. /\ u \in Sets /\ i \in Idents /\ i \in Nat /\ i < numElements'[t]
      /\ numElements \in [Sets -> Nat] /\ numElements' \in [Sets -> Nat]
  <2>1. u \in Sets
    BY DEF Positions, Card
  <2>2. /\ numElements \in [Sets -> 0..MaxCapacity]
        /\ numElements' \in [Sets -> 0..MaxCapacity]
    BY DEF Inv, TypeOK
  <2> QED
    BY SMTT(60), <2>1, <2>2 DEF Idents
<1> HIDE DEF u
<1>2. ASSUME endpoints'[t][i] = endpoints[t][i], i < numElements[t],
             numElements'[u] >= numElements[u]
      PROVE  endpoints'[t][i][p] \in 0..(numElements'[u] - 1)
  <2>0. i \in 0..(numElements[t] - 1)
    BY <1>1, <1>2
  <2>1. endpoints[t][i][p] \in 0..(numElements[u] - 1)
    BY <2>0 DEF EdgesStayInside, u
  <2> QED
    BY <1>1, <1>2, <2>1
<1>3. CASE UNCHANGED <<numElements, endpoints>>
  BY <1>1, <1>2, <1>3 DEF u
<1>4. ASSUME NEW s \in Sets, NEW eps \in [Positions(s) -> Handles],
             Add(s, eps)
      PROVE  endpoints'[t][i][p] \in 0..(numElements'[u] - 1)
  <2>0. numElements' = [numElements EXCEPT ![s] = @ + 1]
    BY <1>4 DEF Add
  <2>1. numElements'[u] >= numElements[u]
    BY <1>1, <2>0
  <2>2. CASE t = s /\ i = numElements[s]
    <3>1. endpoints'[t][i][p] = eps[p]
      BY <1>1, <1>4, <2>2
      DEF Add, EndpointsAfter, Inv, TypeOK, Positions, Card
    <3>2. eps[p] \in Nat
      <4>1. Handles \subseteq Nat
        BY DEF Handles, Idents
      <4>2. eps[p] \in Handles
        BY <2>2
      <4> QED
        BY <4>1, <4>2
    <3>3. numElements[u] > eps[p]
      BY <1>4, <2>2 DEF Add, EndpointOk, u
    <3> QED
      BY <1>1, <2>1, <3>1, <3>2, <3>3
  <2>3. CASE ~(t = s /\ i = numElements[s])
    <3>1. endpoints'[t][i] = endpoints[t][i]
      <4>1. RoomToGrow(s) /\
            endpoints' = [endpoints EXCEPT ![s] = EndpointsAfter(s, eps)]
        BY <1>4 DEF Add
      <4>2. \A q \in Sets, j \in Idents :
              ~(q = s /\ j = numElements[s]) =>
                endpoints'[q][j] = endpoints[q][j]
        BY <4>1, OtherRowsKept
      <4> QED
        BY <1>1, <2>3, <4>2
    <3>2. i < numElements[t]
      BY <1>1, <2>0, <2>3
    <3> QED
      BY <1>2, <2>1, <3>1, <3>2
  <2> QED
    BY <2>2, <2>3
<1>5. ASSUME NEW s \in Sets, NEW eps \in [Positions(s) -> Handles],
             AddThrows(s, eps)
      PROVE  endpoints'[t][i][p] \in 0..(numElements'[u] - 1)
  <2>1. /\ i < numElements[t] /\ ~(t = s /\ i = numElements[s])
        /\ numElements'[u] >= numElements[u]
    BY <1>1, <1>5 DEF AddThrows
  <2>2. endpoints'[t][i] = endpoints[t][i]
    <3>1. RoomToGrow(s) /\
          endpoints' = [endpoints EXCEPT ![s] = EndpointsAfter(s, eps)]
      BY <1>5 DEF AddThrows
    <3>2. \A q \in Sets, j \in Idents :
            ~(q = s /\ j = numElements[s]) =>
              endpoints'[q][j] = endpoints[q][j]
      BY <3>1, OtherRowsKept
    <3> QED
      BY <1>1, <2>1, <3>2
  <2> QED
    BY <1>2, <2>1, <2>2
<1>6. CASE UNCHANGED vars
  BY <1>3, <1>6 DEF vars
<1>7. ASSUME NEW s \in Sets, NEW f \in Fields, AddField(s, f)
      PROVE  UNCHANGED <<numElements, endpoints>>
  BY <1>7 DEF AddField
<1>8. ASSUME NEW s \in Sets, NEW f \in Fields, NEW j \in Idents,
             NEW v \in Values, SetField(s, f, j, v)
      PROVE  UNCHANGED <<numElements, endpoints>>
  BY <1>8 DEF SetField
<1>9. ASSUME NEW s \in Sets, NEW j \in Idents, Remove(s, j) PROVE FALSE
  BY <1>9 DEF Remove
<1> QED
  BY <1>3, <1>4, <1>5, <1>6, <1>7, <1>8, <1>9 DEF Next, u

\* In a program that passes only handles it got from add (no undefined
\* ElementRef, whose ident is -1) and removes nothing, every endpoint of every
\* edge names an element of its endpoint set: Set::addEndpoints' check.
THEOREM SetEdgesStayInside ==
  ASSUME Removable = {}, BadRefs \subseteq Nat
  PROVE  Spec => []EdgesStayInside
<1>1. Init => EdgesStayInside
  BY DEF Init, EdgesStayInside
<1>2. Inv /\ Inv' /\ EdgesStayInside /\ [Next]_vars => EdgesStayInside'
  BY StepEdges
<1> QED
  BY <1>1, <1>2, InvAlways, PTL DEF Spec

\* add, remove and the field writes store only into memory that is allocated
\* by the time they store, also when add throws half way.
THEOREM SetWritesInBounds == Spec => WritesInBounds
<1> DEFINE Step == \A s \in Sets :
       /\ \A i \in Idents : endpoints'[s][i] # endpoints[s][i] => i < epCap'[s]
       /\ \A f \in fields[s] : \A c \in Cells(f) :
            data'[s][f][c] # data[s][f][c] => c < dataCap'[s][f]
<1>1. Inv /\ Inv' /\ [Next]_vars => [Step]_vars
  <2> SUFFICES ASSUME Inv, Inv', Next, NEW s \in Sets
               PROVE  /\ \A i \in Idents :
                           endpoints'[s][i] # endpoints[s][i] => i < epCap'[s]
                      /\ \A f \in fields[s] : \A c \in Cells(f) :
                           data'[s][f][c] # data[s][f][c] => c < dataCap'[s][f]
    OBVIOUS
  <2>1. ASSUME NEW i \in Idents, endpoints'[s][i] # endpoints[s][i]
        PROVE  i < epCap'[s]
    <3>1. PICK t \in Sets : \E eps \in [Positions(t) -> Handles] :
                               Add(t, eps) \/ AddThrows(t, eps)
      BY <2>1 DEF Next, AddField, Remove, SetField
    <3>2. PICK eps \in [Positions(t) -> Handles] :
                 Add(t, eps) \/ AddThrows(t, eps)
      BY <3>1
    <3>3. RoomToGrow(t) /\
          endpoints' = [endpoints EXCEPT ![t] = EndpointsAfter(t, eps)]
      BY <3>2 DEF Add, AddThrows
    <3>4. s = t /\ i = numElements[t]
      <4>1. \A u \in Sets, j \in Idents : ~(u = t /\ j = numElements[t]) =>
              endpoints'[u][j] = endpoints[u][j]
        BY <3>3, OtherRowsKept
      <4> QED
        BY <2>1, <4>1, Zenon
    <3>5. epCap'[t] = EpCapAfter(t)
      BY <3>2 DEF Add, AddThrows, Inv, TypeOK
    <3>6. numElements[t] < EpCapAfter(t)
      <4>1. /\ numElements[t] \in Nat /\ capacity[t] \in Nat
            /\ numElements[t] <= capacity[t]
            /\ epCap[t] \in {capacity[t], capacity[t] + CapacityIncrement}
        BY SMTT(60) DEF Inv, TypeOK, AllocationCovers
      <4> QED
        BY <4>1 DEF EpCapAfter, Full
    <3> QED
      BY <3>4, <3>5, <3>6
  <2>2. ASSUME NEW f \in fields[s], NEW c \in Cells(f),
               data'[s][f][c] # data[s][f][c]
        PROVE  c < dataCap'[s][f]
    <3>1. /\ f \in Fields /\ f \in fields'[s]
          /\ capacity'[s] \in Nat /\ Width[f] \in Nat /\ c \in Nat
          /\ numElements[s] \in Nat /\ capacity[s] \in Nat
          /\ numElements[s] <= capacity[s]
      <4>1. f \in Fields
        BY DEF Inv, TypeOK
      <4>2. fields[s] \subseteq fields'[s]
        <5>1. \/ fields' = fields
              \/ \E t \in Sets, g \in Fields :
                   fields' = [fields EXCEPT ![t] = @ \cup {g}]
          BY DEF Next, AddField, Add, AddThrows, Remove, SetField
        <5>2. fields \in [Sets -> SUBSET Fields]
          BY DEF Inv, TypeOK
        <5> QED
          BY <5>1, <5>2
      <4>3. MaxCapacity * Width[f] \in Nat
        BY <4>1, TimesNat
      <4> QED
        BY SMTT(60), <4>1, <4>2, <4>3 DEF Inv, TypeOK, AllocationCovers, Cells
    <3>2. dataCap'[s][f] = capacity'[s] * Width[f]
      BY <3>1 DEF Inv, AllocationCovers
    <3>3. ASSUME NEW i \in Nat, i < capacity'[s], c \in ElementCells(i, f)
          PROVE  c < dataCap'[s][f]
      <4>1. i + 1 \in Nat /\ i + 1 <= capacity'[s]
        BY <3>1, <3>3
      <4>2. /\ (i + 1) * Width[f] <= capacity'[s] * Width[f]
            /\ (i + 1) * Width[f] \in Nat /\ capacity'[s] * Width[f] \in Nat
        BY <3>1, <4>1, TimesMonotone, TimesNat
      <4>3. c < (i + 1) * Width[f]
        BY <3>1, <3>3, CellsOfElement
      <4> QED
        BY <3>1, <3>2, <4>2, <4>3
    <3>4. ASSUME NEW t \in Sets, NEW g \in Fields, AddField(t, g)
          PROVE  c < dataCap'[s][f]
      BY <2>2, <3>1, <3>4 DEF AddField, Inv, TypeOK
    <3>5. ASSUME NEW t \in Sets, NEW eps \in [Positions(t) -> Handles],
                 Add(t, eps)
          PROVE  c < dataCap'[s][f]
      <4>1. t = s
        BY <2>2, <3>5 DEF Add, Inv, TypeOK
      <4>2. data'[s] = DataAfter(s)
        BY <3>5, <4>1 DEF Add, Inv, TypeOK
      <4>3. c \in (capacity[s] * Width[f])..
                   ((capacity[s] + CapacityIncrement) * Width[f] - 1) /\ Full(s)
        BY <2>2, <3>1, <4>2 DEF DataAfter
      <4>4. capacity'[s] = capacity[s] + CapacityIncrement
        BY <3>5, <4>1, <4>3 DEF Add, Inv, TypeOK
      <4>5. /\ (capacity[s] + CapacityIncrement) * Width[f] \in Nat
            /\ capacity[s] * Width[f] \in Nat
        BY SMTT(60), <3>1, TimesNat
      <4> QED
        BY <3>2, <4>3, <4>4, <4>5
    <3>6. ASSUME NEW t \in Sets, NEW j \in Idents, Remove(t, j)
          PROVE  c < dataCap'[s][f]
      <4>1. t = s /\ data'[s] = RemovedData(s, j)
        BY <2>2, <3>6 DEF Remove, Inv, TypeOK
      <4>2. c = j
        BY <2>2, <3>1, <4>1 DEF RemovedData, Inv, TypeOK
      <4>3. c < capacity'[s]
        BY <3>1, <3>6, <4>1, <4>2 DEF Remove, Idents
      <4>5. capacity'[s] <= capacity'[s] * Width[f]
            /\ capacity'[s] * Width[f] \in Nat
        BY <3>1, TimesGrows, TimesNat
      <4> QED
        BY <3>1, <3>2, <4>3, <4>5
    <3>7. ASSUME NEW t \in Sets, NEW g \in Fields, NEW j \in Idents,
                 NEW v \in Values, SetField(t, g, j, v)
          PROVE  c < dataCap'[s][f]
      <4>1. t = s /\ g = f
        BY <2>2, <3>1, <3>7 DEF SetField, Inv, TypeOK
      <4>2. c \in ElementCells(j, f)
        BY <2>2, <3>1, <3>7, <4>1 DEF SetField, Inv, TypeOK
      <4>3. j \in Nat /\ j < capacity'[s]
        BY <3>1, <3>7, <4>1 DEF SetField, Idents
      <4> QED
        BY <3>3, <4>2, <4>3
    <3>8. ASSUME NEW t \in Sets, NEW eps \in [Positions(t) -> Handles],
                 AddThrows(t, eps)
          PROVE  c < dataCap'[s][f]
      BY <2>2, <3>8 DEF AddThrows
    <3> QED
      BY <3>4, <3>5, <3>6, <3>7, <3>8 DEF Next
  <2> QED
    BY <2>1, <2>2
<1> QED
  BY <1>1, InvAlways, PTL DEF Spec, WritesInBounds

-----------------------------------------------------------------------------

\* A handle's element as the buffers hold it.
ViewElem(s, k) ==
  [tensors |-> [f \in Fields |-> [c \in 0..(Width[f] - 1) |->
     IF f \in fields[s] THEN data[s][f][(k - 1) * Width[f] + c] ELSE Junk]],
   eps |-> endpoints[s][k - 1]]

\* ElemsView lists the elements of every set, each as its buffers hold it.
LEMMA ViewIs ==
  Inv => /\ ElemsView = [s \in Sets |-> ElemsView[s]]
         /\ \A s \in Sets :
              /\ ElemsView[s] = [k \in 1..numElements[s] |-> ViewElem(s, k)]
              /\ numElements[s] \in Nat
              /\ Len(ElemsView[s]) = numElements[s]
<1> SUFFICES ASSUME Inv
             PROVE  /\ ElemsView = [s \in Sets |-> ElemsView[s]]
                    /\ \A s \in Sets :
                         /\ ElemsView[s] = [k \in 1..numElements[s] |-> ViewElem(s, k)]
                         /\ numElements[s] \in Nat
                         /\ Len(ElemsView[s]) = numElements[s]
  OBVIOUS
<1>1. ElemsView = [s \in Sets |-> ElemsView[s]]
  BY DEF ElemsView
<1>2. ASSUME NEW s \in Sets
      PROVE ElemsView[s] = [k \in 1..numElements[s] |-> ViewElem(s, k)]
  BY DEF ElemsView, ViewElem
<1>3. \A s \in Sets : numElements[s] \in Nat
  BY DEF Inv, TypeOK
<1>4. ASSUME NEW n \in Nat, NEW q, q = [k \in 1..n |-> q[k]]
      PROVE Len(q) = n
  BY <1>4
<1>5. ASSUME NEW s \in Sets
      PROVE  Len(ElemsView[s]) = numElements[s]
  <2>1. ElemsView[s] = [k \in 1..numElements[s] |-> ElemsView[s][k]]
    BY <1>2
  <2> QED
    BY <2>1, <1>3, <1>4, Zenon
<1> QED
  BY <1>1, <1>2, <1>3, <1>5

\* The same of the state after a step.
LEMMA ViewIsNext ==
  ASSUME Inv'
  PROVE  /\ ElemsView' = [s \in Sets |-> ElemsView'[s]]
         /\ \A s \in Sets :
              /\ ElemsView'[s] = [k \in 1..numElements'[s] |-> ViewElem(s, k)']
              /\ numElements'[s] \in Nat
              /\ Len(ElemsView'[s]) = numElements'[s]
<1>1. (/\ ElemsView = [s \in Sets |-> ElemsView[s]]
       /\ \A s \in Sets :
            /\ ElemsView[s] = [k \in 1..numElements[s] |-> ViewElem(s, k)]
            /\ numElements[s] \in Nat
            /\ Len(ElemsView[s]) = numElements[s])'
  BY ViewIs, PTL
<1> QED
  BY <1>1

\* A step that leaves an element's buffers alone leaves the element alone.
LEMMA ElemKept ==
  ASSUME NEW t \in Sets, NEW k, fields'[t] = fields[t],
         \A f \in Fields : data'[t][f] = data[t][f],
         endpoints'[t][k - 1] = endpoints[t][k - 1]
  PROVE  ViewElem(t, k)' = ViewElem(t, k)
  BY DEF ViewElem

\* A list whose elements are kept is kept.
LEMMA ViewKept ==
  ASSUME Inv, Inv', NEW t \in Sets, numElements'[t] = numElements[t],
         \A k \in 1..numElements[t] : ViewElem(t, k)' = ViewElem(t, k)
  PROVE  ElemsView'[t] = ElemsView[t]
<1>1. ElemsView[t] = [k \in 1..numElements[t] |-> ViewElem(t, k)]
  BY ViewIs
<1>2. ElemsView'[t] = [k \in 1..numElements'[t] |-> ViewElem(t, k)']
  BY ViewIsNext
<1> QED
  BY <1>1, <1>2

\* A step that concerns set s leaves the lists of the others alone.
LEMMA OthersKept ==
  ASSUME Inv, Inv', NEW s \in Sets,
         \A t \in Sets \ {s} :
           /\ numElements'[t] = numElements[t]
           /\ fields'[t] = fields[t]
           /\ data'[t] = data[t]
           /\ endpoints'[t] = endpoints[t]
  PROVE  ElemsView' = [ElemsView EXCEPT ![s] = ElemsView'[s]]
<1>1. ASSUME NEW t \in Sets \ {s}
      PROVE  ElemsView'[t] = ElemsView[t]
  <2>1. \A k \in 1..numElements[t] : ViewElem(t, k)' = ViewElem(t, k)
    BY ElemKept
  <2> QED
    BY <2>1, ViewKept
<1>2. ElemsView = [t \in Sets |-> ElemsView[t]]
  BY ViewIs
<1>3. ElemsView' = [t \in Sets |-> ElemsView'[t]]
  BY ViewIsNext
<1> QED
  BY <1>1, <1>2, <1>3

\* The components that n elements take up in a field's buffer.
LEMMA SlotCells ==
  ASSUME NEW n \in Nat, NEW f \in Fields
  PROVE  /\ Width[f] \in Nat /\ n * Width[f] \in Nat /\ n <= n * Width[f]
         /\ \A m \in Nat : m <= n => m * Width[f] <= n * Width[f]
<1>1. Width[f] \in Nat /\ Width[f] # 0
  OBVIOUS
<1> HIDE ValuesAssumption, EndpointAssumption, WidthAssumption, CapacityAssumption
<1> QED
  BY <1>1, TimesNat, TimesGrows, TimesMonotone

\* Component c of the tensor of the element with ident i.
LEMMA CellOf ==
  ASSUME NEW f \in Fields, NEW i \in Nat, NEW c \in 0..(Width[f] - 1)
  PROVE  /\ i * Width[f] + c \in ElementCells(i, f)
         /\ i * Width[f] + c \in Nat
         /\ \A n \in Nat : i < n => i * Width[f] + c < n * Width[f]
         /\ \A j \in Nat : j # i => i * Width[f] + c \notin ElementCells(j, f)
<1>1. i * Width[f] \in Nat /\ Width[f] \in Nat
  BY SlotCells
<1>2. i * Width[f] + c \in ElementCells(i, f) /\ i * Width[f] + c \in Nat
  BY <1>1 DEF ElementCells
<1>3. (i + 1) * Width[f] \in Nat /\ i * Width[f] + c < (i + 1) * Width[f]
      /\ i * Width[f] <= i * Width[f] + c
  BY <1>2, CellsOfElement
<1>4. ASSUME NEW n \in Nat, i < n
      PROVE  i * Width[f] + c < n * Width[f]
  <2>1. (i + 1) * Width[f] <= n * Width[f] /\ n * Width[f] \in Nat
    <3>1. i + 1 \in Nat /\ i + 1 <= n
      BY <1>4
    <3> QED
      BY <1>1, <3>1, TimesMonotone, TimesNat
  <2> QED
    BY <1>2, <1>3, <2>1
<1>5. ASSUME NEW j \in Nat, j # i, i * Width[f] + c \in ElementCells(j, f)
      PROVE  FALSE
  <2>1. /\ j * Width[f] <= i * Width[f] + c /\ i * Width[f] + c < (j + 1) * Width[f]
        /\ j * Width[f] \in Nat /\ (j + 1) * Width[f] \in Nat
    BY <1>5, CellsOfElement
  <2>2. CASE j < i
    <3>1. j + 1 \in Nat /\ j + 1 <= i
      BY <2>2
    <3>2. (j + 1) * Width[f] <= i * Width[f]
      BY <1>1, <3>1, TimesMonotone
    <3> QED
      BY SMTT(60), <1>1, <1>2, <1>3, <2>1, <3>2
  <2>3. CASE i < j
    <3>1. i + 1 \in Nat /\ i + 1 <= j
      BY <2>3
    <3>2. (i + 1) * Width[f] <= j * Width[f]
      BY <1>1, <3>1, TimesMonotone
    <3> QED
      BY SMTT(60), <1>1, <1>2, <1>3, <2>1, <3>2
  <2> QED
    BY <1>5, <2>2, <2>3
<1> QED
  BY <1>2, <1>4, <1>5

\* Every cell of an allocated element is a cell of the buffer.
LEMMA CellInBuffer ==
  ASSUME NEW f \in Fields, NEW c \in Nat, NEW n \in 0..MaxCapacity,
         c < n * Width[f]
  PROVE  c \in Cells(f)
<1>1. n \in Nat /\ MaxCapacity \in Nat /\ n <= MaxCapacity
  OBVIOUS
<1>2. n * Width[f] <= MaxCapacity * Width[f] /\ n * Width[f] \in Nat
      /\ MaxCapacity * Width[f] \in Nat
  BY <1>1, SlotCells
<1> QED
  BY <1>2 DEF Cells

\* What is allocated holds values, and a set has only fields declared for it.
Stored ==
  \A s \in Sets : \A f \in fields[s] :
    /\ f \in Declared[s]
    /\ \A c \in Cells(f) : c < capacity[s] * Width[f] => data[s][f][c] \in Values

\* addField's calloc and increaseCapacity's memset cover all they allocate.
LEMMA StepStored ==
  ASSUME Inv, Inv', Stored, [Next]_vars
  PROVE  Stored'
<1> SUFFICES ASSUME NEW t \in Sets, NEW g \in fields'[t]
             PROVE  /\ g \in Declared[t]
                    /\ \A c \in Cells(g) : c < capacity'[t] * Width[g] =>
                         data'[t][g][c] \in Values
  BY DEF Stored
<1>0. 0 \in Values /\ \A s \in Sets : capacity[s] \in Nat
  BY DEF Inv, TypeOK
<1>1. g \in Fields
  BY DEF Inv, TypeOK
<1>2. CASE UNCHANGED <<fields, capacity, data>>
  BY <1>2 DEF Stored
<1>3. ASSUME NEW s \in Sets, NEW f \in Fields, AddField(s, f)
      PROVE  /\ g \in Declared[t]
             /\ \A c \in Cells(g) : c < capacity'[t] * Width[g] =>
                  data'[t][g][c] \in Values
  <2>1. CASE t = s /\ g = f
    <3>1. data'[s][f] = [k \in Cells(f) |->
                          IF k < capacity[s] * Width[f] THEN 0 ELSE Junk]
      BY <1>3 DEF AddField, Inv, TypeOK
    <3>2. g \in Declared[t] /\ capacity' = capacity
      BY <1>3, <2>1 DEF AddField
    <3>3. ASSUME NEW c \in Cells(g), c < capacity'[t] * Width[g]
          PROVE  data'[t][g][c] \in Values
      <4>1. data'[t][g][c] = 0
        BY <2>1, <3>1, <3>2, <3>3
      <4> QED
        BY <1>0, <4>1, Zenon
    <3> QED
      BY <3>2, <3>3
  <2>2. CASE ~(t = s /\ g = f)
    <3>1. g \in fields[t] /\ data'[t][g] = data[t][g] /\ capacity' = capacity
      BY SMTT(60), <1>1, <1>3, <2>2 DEF AddField, Inv, TypeOK
    <3> QED
      BY <3>1 DEF Stored
  <2> QED
    BY <2>1, <2>2
<1>4. ASSUME NEW s \in Sets, NEW eps \in [Positions(s) -> Handles],
             Add(s, eps)
      PROVE  /\ g \in Declared[t]
             /\ \A c \in Cells(g) : c < capacity'[t] * Width[g] =>
                  data'[t][g][c] \in Values
  <2>0. g \in fields[t]
    BY <1>4 DEF Add
  <2>1. CASE t # s
    <3>1. data'[t] = data[t] /\ capacity'[t] = capacity[t]
      BY <1>4, <2>1 DEF Add, Inv, TypeOK
    <3> QED
      BY <2>0, <3>1 DEF Stored
  <2>2. CASE t = s
    <3>1. data'[s] = DataAfter(s)
      BY <1>4 DEF Add, Inv, TypeOK
    <3>2. capacity'[s] = IF Full(s) THEN capacity[s] + CapacityIncrement ELSE capacity[s]
      BY <1>4 DEF Add, Inv, TypeOK
    <3>3. ASSUME NEW c \in Cells(g), c < capacity'[s] * Width[g]
          PROVE  data'[s][g][c] \in Values
      <4>1. c \in Nat /\ capacity[s] * Width[g] \in Nat
        <5>1. MaxCapacity * Width[g] \in Nat
          BY <1>1, SlotCells
        <5>2. capacity[s] * Width[g] \in Nat
          BY <1>0, <1>1, SlotCells
        <5> QED
          BY <5>1, <5>2 DEF Cells
      <4>2. CASE c < capacity[s] * Width[g]
        <5>1. data[s][g][c] \in Values
          BY <2>0, <2>2, <4>2 DEF Stored
        <5> QED
          BY <1>0, <1>1, <3>1, <5>1 DEF DataAfter
      <4>3. CASE ~(c < capacity[s] * Width[g])
        <5>1. Full(s)
          BY <3>2, <3>3, <4>3
        <5>2. c < (capacity[s] + CapacityIncrement) * Width[g]
          BY <3>2, <3>3, <5>1
        <5>3. (capacity[s] + CapacityIncrement) * Width[g] \in Nat
          <6>1. capacity[s] + CapacityIncrement \in Nat
            BY <1>0
          <6> QED
            BY <1>1, <6>1, SlotCells
        <5>4. c \in (capacity[s] * Width[g])..((capacity[s] + CapacityIncrement) * Width[g] - 1)
          BY <4>1, <4>3, <5>2, <5>3
        <5>5. data'[s][g][c] = 0
          BY <1>1, <2>0, <2>2, <3>1, <5>1, <5>4 DEF DataAfter
        <5> QED
          BY <1>0, <5>5, Zenon
      <4> QED
        BY <4>2, <4>3
    <3> QED
      BY <2>0, <2>2, <3>3 DEF Stored
  <2> QED
    BY <2>1, <2>2
<1>5. ASSUME NEW s \in Sets, NEW eps \in [Positions(s) -> Handles],
             AddThrows(s, eps)
      PROVE  UNCHANGED <<fields, capacity, data>>
  BY <1>5 DEF AddThrows
<1>6. ASSUME NEW s \in Sets, NEW j \in Idents, Remove(s, j)
      PROVE  /\ g \in Declared[t]
             /\ \A c \in Cells(g) : c < capacity'[t] * Width[g] =>
                  data'[t][g][c] \in Values
  <2>0. g \in fields[t] /\ capacity' = capacity
    BY <1>6 DEF Remove
  <2>1. CASE t # s
    <3>1. data'[t] = data[t]
      BY <1>6, <2>1 DEF Remove, Inv, TypeOK
    <3> QED
      BY <2>0, <3>1 DEF Stored
  <2>2. CASE t = s
    <3>1. data'[s] = RemovedData(s, j)
      BY <1>6 DEF Remove, Inv, TypeOK
    <3>2. data[s][g][numElements[s] - 1] \in Values
      <4>1. /\ numElements[s] - 1 \in Nat /\ capacity[s] \in 0..MaxCapacity
            /\ numElements[s] - 1 < capacity[s]
        BY <1>6 DEF Remove, Idents, Inv, TypeOK, AllocationCovers
      <4>2. capacity[s] <= capacity[s] * Width[g] /\ capacity[s] * Width[g] \in Nat
        BY <1>0, <1>1, SlotCells
      <4>3. numElements[s] - 1 < capacity[s] * Width[g]
        BY <4>1, <4>2
      <4>4. numElements[s] - 1 \in Cells(g)
        BY <1>1, <4>1, <4>3, CellInBuffer
      <4> QED
        BY <2>0, <2>2, <4>3, <4>4 DEF Stored
    <3>3. ASSUME NEW c \in Cells(g), c < capacity[s] * Width[g]
          PROVE  data'[s][g][c] \in Values
      <4>1. data[s][g][c] \in Values
        BY <2>0, <2>2, <3>3 DEF Stored
      <4>2. data'[s][g] = [data[s][g] EXCEPT ![j] = data[s][g][numElements[s] - 1]]
        BY <1>1, <2>0, <2>2, <3>1 DEF RemovedData
      <4>3. data[s][g] \in [Cells(g) -> Values \cup {Junk}]
        BY <1>1 DEF Inv, TypeOK
      <4> QED
        BY <3>2, <4>1, <4>2, <4>3
    <3> QED
      BY <2>0, <2>2, <3>3 DEF Stored
  <2> QED
    BY <2>1, <2>2
<1>7. ASSUME NEW s \in Sets, NEW f \in Fields, NEW j \in Idents,
             NEW v \in Values, SetField(s, f, j, v)
      PROVE  /\ g \in Declared[t]
             /\ \A c \in Cells(g) : c < capacity'[t] * Width[g] =>
                  data'[t][g][c] \in Values
  <2>0. g \in fields[t] /\ capacity' = capacity
    BY <1>7 DEF SetField
  <2>1. CASE ~(t = s /\ g = f)
    <3>1. data'[t][g] = data[t][g]
      BY <1>1, <1>7, <2>1 DEF SetField, Inv, TypeOK
    <3> QED
      BY <2>0, <3>1 DEF Stored
  <2>2. CASE t = s /\ g = f
    <3>1. data'[s][f] = [k \in Cells(f) |->
                 IF k \in ElementCells(j, f) THEN v ELSE data[s][f][k]]
      BY <1>7 DEF SetField, Inv, TypeOK
    <3> QED
      BY <2>0, <2>2, <3>1 DEF Stored
  <2> QED
    BY <2>1, <2>2
<1>8. CASE UNCHANGED vars
  BY <1>2, <1>8 DEF vars
<1> QED
  BY <1>2, <1>3, <1>4, <1>5, <1>6, <1>7, <1>8 DEF Next

\* The cells of the elements a set has are allocated.
LEMMA ElemCells ==
  ASSUME Inv, NEW s \in Sets, NEW k \in 1..numElements[s], NEW f \in Fields,
         NEW c \in 0..(Width[f] - 1)
  PROVE  /\ k - 1 \in Nat /\ k - 1 \in Idents
         /\ (k - 1) * Width[f] + c \in Cells(f)
         /\ (k - 1) * Width[f] + c < capacity[s] * Width[f]
         /\ (k - 1) * Width[f] + c \in ElementCells(k - 1, f)
         /\ \A j \in Nat : j # k - 1 =>
              (k - 1) * Width[f] + c \notin ElementCells(j, f)
<1>1. /\ numElements[s] \in Nat /\ capacity[s] \in 0..MaxCapacity
      /\ numElements[s] <= capacity[s] /\ capacity[s] \in Nat
  BY DEF Inv, TypeOK, AllocationCovers
<1>2. k - 1 \in Nat /\ k - 1 < capacity[s] /\ k - 1 \in Idents
  BY <1>1 DEF Idents
<1>3. /\ (k - 1) * Width[f] + c \in ElementCells(k - 1, f)
      /\ (k - 1) * Width[f] + c \in Nat
      /\ (k - 1) * Width[f] + c < capacity[s] * Width[f]
      /\ \A j \in Nat : j # k - 1 =>
           (k - 1) * Width[f] + c \notin ElementCells(j, f)
  <2> DEFINE i == k - 1
  <2>1. i \in Nat /\ i < capacity[s]
    BY <1>2
  <2> HIDE DEF i
  <2>2. /\ i * Width[f] + c \in ElementCells(i, f)
        /\ i * Width[f] + c \in Nat
        /\ i * Width[f] + c < capacity[s] * Width[f]
        /\ \A j \in Nat : j # i => i * Width[f] + c \notin ElementCells(j, f)
    BY <1>1, <2>1, CellOf
  <2> QED
    BY <2>2 DEF i
<1>4. (k - 1) * Width[f] + c \in Cells(f)
  BY <1>1, <1>3, CellInBuffer
<1> QED
  BY <1>2, <1>3, <1>4

\* The same of every element of every set at once.
CellsAllocated ==
  \A s \in Sets : \A k \in 1..numElements[s], f \in Fields :
    \A c \in 0..(Width[f] - 1) :
      /\ (k - 1) * Width[f] + c \in Cells(f)
      /\ (k - 1) * Width[f] + c < capacity[s] * Width[f]

\* It follows from the inductive invariant.
LEMMA AllElemCells == Inv => CellsAllocated
<1> SUFFICES ASSUME Inv PROVE CellsAllocated
  OBVIOUS
<1> QED
  BY ElemCells DEF CellsAllocated

\* An element with one of its tensors replaced.
LEMMA ElemWith ==
  ASSUME NEW s \in Sets, NEW k, NEW f \in Fields, NEW t
  PROVE  Abstract!WithTensor(ViewElem(s, k), f, t) =
           [tensors |-> [g \in Fields |->
              IF g = f THEN t ELSE ViewElem(s, k).tensors[g]],
            eps |-> endpoints[s][k - 1]]
<1> DEFINE old == ViewElem(s, k).tensors
<1>1. ViewElem(s, k).eps = endpoints[s][k - 1] /\ old = [g \in Fields |-> old[g]]
  BY DEF ViewElem
<1> HIDE DEF old
<1>2. [old EXCEPT ![f] = t] = [g \in Fields |-> IF g = f THEN t ELSE old[g]]
  BY <1>1
<1> QED
  BY <1>1, <1>2 DEF old, Abstract!WithTensor

\* addField gives every element a tensor of zeros and changes nothing else.
LEMMA AddFieldSimulates ==
  ASSUME Inv, Inv', NEW s \in Sets, NEW f \in Fields, AddField(s, f)
  PROVE  Abstract!SpecAddField(s, f)
<1>1. ElemsView' = [ElemsView EXCEPT ![s] = ElemsView'[s]]
  <2>1. \A t \in Sets \ {s} : /\ numElements'[t] = numElements[t]
                              /\ fields'[t] = fields[t]
                              /\ data'[t] = data[t]
                              /\ endpoints'[t] = endpoints[t]
    BY DEF AddField, Inv, TypeOK
  <2> QED
    BY <2>1, OthersKept
<1>2. /\ numElements' = numElements /\ endpoints' = endpoints
      /\ fields'[s] = fields[s] \cup {f}
      /\ \A g \in Fields \ {f} : data'[s][g] = data[s][g]
      /\ data'[s][f] = [c \in Cells(f) |->
           IF c < capacity[s] * Width[f] THEN 0 ELSE Junk]
  BY DEF AddField, Inv, TypeOK
<1> DEFINE zero == [c \in 0..(Width[f] - 1) |-> 0]
<1>3. ASSUME NEW k \in 1..numElements[s]
      PROVE  ViewElem(s, k)' = Abstract!WithTensor(ViewElem(s, k), f, zero)
  <2>1. ASSUME NEW c \in 0..(Width[f] - 1)
        PROVE  data'[s][f][(k - 1) * Width[f] + c] = 0
    BY <1>2, ElemCells
  <2>2. ASSUME NEW g \in Fields
        PROVE  ViewElem(s, k).tensors[g] = [c \in 0..(Width[g] - 1) |->
                 IF g \in fields[s] THEN data[s][g][(k - 1) * Width[g] + c] ELSE Junk]
    BY DEF ViewElem
  <2>3. ASSUME NEW g \in Fields
        PROVE  [c \in 0..(Width[g] - 1) |->
                  IF g \in fields'[s] THEN data'[s][g][(k - 1) * Width[g] + c] ELSE Junk]
               = IF g = f THEN zero ELSE ViewElem(s, k).tensors[g]
    BY ZenonT(60), <1>2, <2>1, <2>2
  <2>4. ViewElem(s, k)' =
          [tensors |-> [g \in Fields |->
             IF g = f THEN zero ELSE ViewElem(s, k).tensors[g]],
           eps |-> endpoints[s][k - 1]]
    BY ZenonT(60), <1>2, <2>3 DEF ViewElem
  <2> HIDE DEF zero
  <2>5. Abstract!WithTensor(ViewElem(s, k), f, zero) =
          [tensors |-> [g \in Fields |->
             IF g = f THEN zero ELSE ViewElem(s, k).tensors[g]],
           eps |-> endpoints[s][k - 1]]
    BY ElemWith
  <2> QED
    BY <2>4, <2>5
<1>4. /\ ElemsView[s] = [k \in 1..numElements[s] |-> ViewElem(s, k)]
      /\ Len(ElemsView[s]) = numElements[s]
      /\ ElemsView'[s] = [k \in 1..numElements[s] |-> ViewElem(s, k)']
  BY ViewIs, ViewIsNext, <1>2
<1>5. ElemsView'[s] = [k \in 1..Len(ElemsView[s]) |->
        Abstract!WithTensor(ElemsView[s][k], f, zero)]
  <2> HIDE DEF zero
  <2>1. \A k \in 1..numElements[s] : ElemsView[s][k] = ViewElem(s, k)
    BY <1>4
  <2>2. \A k \in 1..numElements[s] :
          ViewElem(s, k)' = Abstract!WithTensor(ElemsView[s][k], f, zero)
    BY <1>3, <2>1
  <2> QED
    BY <1>4, <2>2
<1>6. fields' = [fields EXCEPT ![s] = @ \cup {f}]
  BY DEF AddField
<1>7. s \in DOMAIN ElemsView
  BY DEF ElemsView
<1> QED
  BY <1>1, <1>5, <1>6, <1>7 DEF Abstract!SpecAddField

\* A rejected add leaves every list as it was.
LEMMA AddThrowsStutters ==
  ASSUME Inv, Inv', NEW s \in Sets, NEW eps \in [Positions(s) -> Handles],
         AddThrows(s, eps)
  PROVE  UNCHANGED Abstract!specVars
<1>1. UNCHANGED <<numElements, fields, data>>
  BY DEF AddThrows
<1>2. \A t \in Sets, i \in Idents :
        ~(t = s /\ i = numElements[s]) => endpoints'[t][i] = endpoints[t][i]
  <2>1. RoomToGrow(s) /\
        endpoints' = [endpoints EXCEPT ![s] = EndpointsAfter(s, eps)]
    BY DEF AddThrows
  <2> QED
    BY <2>1, OtherRowsKept
<1>3. ASSUME NEW t \in Sets, NEW k \in 1..numElements[t]
      PROVE  ViewElem(t, k)' = ViewElem(t, k)
  <2>1. k - 1 \in Idents /\ k - 1 # numElements[t]
    <3>1. numElements[t] \in 0..MaxCapacity
      BY DEF Inv, TypeOK
    <3> QED
      BY <3>1 DEF Idents
  <2>2. endpoints'[t][k - 1] = endpoints[t][k - 1]
    BY <1>2, <2>1
  <2> QED
    BY <1>1, <2>2, ElemKept
<1>4. \A t \in Sets : ElemsView'[t] = ElemsView[t]
  BY <1>1, <1>3, ViewKept
<1>5. ElemsView' = ElemsView
  BY <1>4, ViewIs, ViewIsNext
<1> QED
  BY <1>1, <1>5 DEF Abstract!specVars

\* add appends one element of values and moves nothing a handle can see.
LEMMA AddSimulates ==
  ASSUME Inv, Inv', Stored', NEW s \in Sets,
         NEW eps \in [Positions(s) -> Handles], Add(s, eps)
  PROVE  Abstract!SpecAdd(s)
<1> DEFINE n == numElements[s]
           new == ElemsView'[s][n + 1]
<1>1. ElemsView' = [ElemsView EXCEPT ![s] = ElemsView'[s]]
  <2>1. \A t \in Sets \ {s} : /\ numElements'[t] = numElements[t]
                              /\ fields'[t] = fields[t]
                              /\ data'[t] = data[t]
                              /\ endpoints'[t] = endpoints[t]
    BY DEF Add, Inv, TypeOK
  <2> QED
    BY <2>1, OthersKept
<1>2. /\ n \in Nat /\ numElements'[s] = n + 1 /\ fields' = fields
      /\ data'[s] = DataAfter(s)
  BY DEF Add, Inv, TypeOK
<1>3. \A i \in Idents : i # n => endpoints'[s][i] = endpoints[s][i]
  <2>1. RoomToGrow(s) /\
        endpoints' = [endpoints EXCEPT ![s] = EndpointsAfter(s, eps)]
    BY DEF Add
  <2> QED
    BY <2>1, OtherRowsKept
<1>4. ASSUME NEW k \in 1..n
      PROVE  ViewElem(s, k)' = ViewElem(s, k)
  <2>1. ASSUME NEW f \in Fields, NEW c \in 0..(Width[f] - 1)
        PROVE  data'[s][f][(k - 1) * Width[f] + c] =
                 data[s][f][(k - 1) * Width[f] + c]
    <3>1. /\ (k - 1) * Width[f] + c \in Cells(f)
          /\ (k - 1) * Width[f] + c < capacity[s] * Width[f]
      BY ElemCells
    <3>2. capacity[s] * Width[f] \in Nat /\ (k - 1) * Width[f] + c \in Nat
      <4>1. capacity[s] \in Nat
        BY DEF Inv, TypeOK
      <4>2. MaxCapacity * Width[f] \in Nat /\ capacity[s] * Width[f] \in Nat
        BY <4>1, SlotCells
      <4> QED
        BY <3>1, <4>2 DEF Cells
    <3> DEFINE cell == (k - 1) * Width[f] + c
               low == capacity[s] * Width[f]
    <3>3. cell \in Cells(f) /\ cell \in Nat /\ low \in Nat /\ cell < low
      BY <3>1, <3>2
    <3> HIDE DEF cell, low
    <3>4. DataAfter(s)[f][cell] = data[s][f][cell]
      <4>1. DataAfter(s)[f] = [x \in Cells(f) |->
              IF /\ Full(s) /\ f \in fields[s]
                 /\ x \in low..((capacity[s] + CapacityIncrement) * Width[f] - 1)
              THEN 0 ELSE data[s][f][x]]
        BY DEF DataAfter, low
      <4>2. \A h : cell \notin low..h
        BY <3>3
      <4> QED
        BY <3>3, <4>1, <4>2
    <3> QED
      BY <1>2, <3>4 DEF cell
  <2>2. k - 1 \in Idents /\ k - 1 # n
    BY <1>2 DEF Inv, TypeOK, Idents
  <2>3. endpoints'[s][k - 1] = endpoints[s][k - 1]
    BY <1>3, <2>2
  <2> QED
    BY ZenonT(60), <1>2, <2>1, <2>3 DEF ViewElem
<1>5. /\ ElemsView[s] = [k \in 1..n |-> ViewElem(s, k)]
      /\ Len(ElemsView[s]) = n
      /\ ElemsView'[s] = [k \in 1..(n + 1) |-> ViewElem(s, k)']
      /\ Len(ElemsView'[s]) = n + 1
  BY ViewIs, ViewIsNext, <1>2
<1>6. ElemsView'[s] = Append(ElemsView[s], new)
  <2> HIDE DEF n
  <2> DEFINE S == {ViewElem(s, k) : k \in 1..n} \cup {new}
             q == ElemsView[s]
  <2>1. q \in Seq(S) /\ new \in S
    BY SMTT(60), <1>2, <1>5
  <2>2. /\ Append(q, new) \in Seq(S) /\ Len(Append(q, new)) = n + 1
        /\ \A k \in 1..n : Append(q, new)[k] = q[k]
        /\ Append(q, new)[n + 1] = new
    BY <1>2, <1>5, <2>1, AppendProperties
  <2>3. \A k \in 1..n : ElemsView'[s][k] = q[k]
    BY <1>2, <1>4, <1>5
  <2> HIDE DEF S, q
  <2>4. Append(q, new) = [k \in 1..(n + 1) |-> Append(q, new)[k]]
    BY <2>2
  <2>5. \A k \in 1..(n + 1) : ElemsView'[s][k] = Append(q, new)[k]
    BY <1>2, <2>2, <2>3
  <2>6. ElemsView'[s] = [k \in 1..(n + 1) |-> ElemsView'[s][k]]
    BY <1>5
  <2> QED
    BY <2>4, <2>5, <2>6 DEF q
<1>7. ASSUME NEW f \in fields[s]
      PROVE  new.tensors[f] \in [0..(Width[f] - 1) -> Values]
  <2>1. f \in Fields /\ f \in fields'[s]
    BY <1>2 DEF Inv, TypeOK
  <2>2. PICK m \in Nat : m = n + 1
    BY <1>2
  <2>3. new = ViewElem(s, m)'
    <3> HIDE DEF n
    <3> QED
      BY <1>2, <1>5, <2>2
  <2>4. new.tensors[f] = [c \in 0..(Width[f] - 1) |-> data'[s][f][(m - 1) * Width[f] + c]]
    BY <2>1, <2>3 DEF ViewElem
  <2>5. ASSUME NEW c \in 0..(Width[f] - 1)
        PROVE  data'[s][f][(m - 1) * Width[f] + c] \in Values
    <3>1. m \in 1..numElements'[s]
      BY <1>2, <2>2
    <3>2. CellsAllocated'
      BY AllElemCells, PTL
    <3>3. /\ (m - 1) * Width[f] + c \in Cells(f)
          /\ (m - 1) * Width[f] + c < capacity'[s] * Width[f]
      BY <2>1, <3>1, <3>2 DEF CellsAllocated
    <3> QED
      BY <2>1, <3>3 DEF Stored
  <2> QED
    BY <2>4, <2>5
<1> QED
  <2>1. s \in DOMAIN ElemsView
    BY DEF ElemsView
  <2>2. /\ Len(ElemsView'[s]) = n + 1 /\ Len(ElemsView[s]) = n
        /\ Len(ElemsView'[s]) > Len(ElemsView[s])
    BY <1>2, <1>5
  <2>3. new = ElemsView'[s][Len(ElemsView'[s])]
    BY <2>2
  <2>4. ElemsView' = [ElemsView EXCEPT ![s] = Append(ElemsView[s], new)]
    BY <1>1, <1>6, <2>1
  <2> HIDE DEF new
  <2> QED
    BY <1>2, <1>7, <2>2, <2>3, <2>4 DEF Abstract!SpecAdd, Abstract!Tensor

\* The sets remove is right for: without endpoints, every field one component.
Movable(s) ==
  /\ EndpointSets[s] = <<>>
  /\ \A f \in Declared[s] : Width[f] = 1

\* remove moves exactly the last element to the place of the removed one.
LEMMA RemoveSimulates ==
  ASSUME Inv, Inv', Stored, NEW s \in Sets, NEW i \in Idents, Movable(s),
         Remove(s, i)
  PROVE  \E k \in 1..Len(ElemsView[s]) : Abstract!SpecRemove(s, k)
<1> DEFINE n == numElements[s]
<1>1. ElemsView' = [ElemsView EXCEPT ![s] = ElemsView'[s]]
  <2>1. \A t \in Sets \ {s} : /\ numElements'[t] = numElements[t]
                              /\ fields'[t] = fields[t]
                              /\ data'[t] = data[t]
                              /\ endpoints'[t] = endpoints[t]
    BY DEF Remove, Inv, TypeOK
  <2> QED
    BY <2>1, OthersKept
<1>2. /\ n \in Nat /\ i \in Nat /\ i + 1 \in 1..n /\ numElements'[s] = n - 1
      /\ fields' = fields /\ endpoints' = endpoints
      /\ data'[s] = RemovedData(s, i)
      /\ n \in 0..MaxCapacity
  BY DEF Remove, Inv, TypeOK, Idents
<1>3. \A f \in fields[s] : f \in Fields /\ Width[f] = 1
  BY DEF Movable, Stored, Inv, TypeOK
<1>4. ASSUME NEW j \in Idents
      PROVE  endpoints[s][j] = [p \in {} |-> Junk]
  <2>1. Positions(s) = {}
    BY DEF Positions, Card, Movable
  <2>2. endpoints[s][j] \in [Positions(s) -> Handles \cup {Junk}]
    BY DEF Inv, TypeOK
  <2> QED
    BY <2>1, <2>2
<1>5. ASSUME NEW j \in 1..(n - 1)
      PROVE  ViewElem(s, j)' = IF j = i + 1 THEN ViewElem(s, n) ELSE ViewElem(s, j)
  <2> DEFINE src == IF j = i + 1 THEN n ELSE j
  <2>1. src \in 1..n /\ j \in 1..n /\ j - 1 \in Idents /\ src - 1 \in Idents
    BY <1>2 DEF Idents
  <2>2. endpoints'[s][j - 1] = endpoints[s][src - 1]
    BY <1>2, <1>4, <2>1
  <2>3. ASSUME NEW f \in fields[s], NEW c \in 0..(Width[f] - 1)
        PROVE  data'[s][f][(j - 1) * Width[f] + c] = data[s][f][(src - 1) * Width[f] + c]
    <3>1. /\ (j - 1) * Width[f] + c = j - 1 /\ (src - 1) * Width[f] + c = src - 1
          /\ f \in Fields
      BY SMTT(60), <1>2, <1>3, <2>1
    <3>2. j - 1 \in Cells(f) /\ i \in Cells(f)
      BY SMTT(60), <1>2, <1>3 DEF Cells
    <3>3. data[s][f] \in [Cells(f) -> Values \cup {Junk}]
      BY <3>1 DEF Inv, TypeOK
    <3>4. data'[s][f] = [data[s][f] EXCEPT ![i] = data[s][f][n - 1]]
      BY <1>2, <3>1 DEF RemovedData
    <3>5. data'[s][f][j - 1] = data[s][f][src - 1]
      <4>1. CASE j = i + 1
        BY <1>2, <3>2, <3>3, <3>4, <4>1
      <4>2. CASE j # i + 1
        BY <1>2, <3>2, <3>3, <3>4, <4>2
      <4> QED
        BY <4>1, <4>2
    <3> HIDE DEF src
    <3> QED
      BY <3>1, <3>5
  <2>4. ViewElem(s, j)' = ViewElem(s, src)
    <3> HIDE DEF src
    <3> QED
      BY <1>2, <2>2, <2>3 DEF ViewElem
  <2> QED
    BY <2>4
<1>6. /\ ElemsView[s] = [k \in 1..n |-> ViewElem(s, k)]
      /\ Len(ElemsView[s]) = n
      /\ ElemsView'[s] = [k \in 1..(n - 1) |-> ViewElem(s, k)']
  BY ViewIs, ViewIsNext, <1>2
<1>7. ElemsView'[s] = [j \in 1..(Len(ElemsView[s]) - 1) |->
        IF j = i + 1 THEN ElemsView[s][Len(ElemsView[s])] ELSE ElemsView[s][j]]
  BY <1>2, <1>5, <1>6
<1>8. s \in DOMAIN ElemsView
  BY DEF ElemsView
<1>9. Abstract!SpecRemove(s, i + 1)
  BY <1>1, <1>2, <1>7, <1>8 DEF Abstract!SpecRemove
<1> QED
  BY <1>2, <1>6, <1>9

\* A field write changes one tensor of one element.
LEMMA SetFieldSimulates ==
  ASSUME Inv, Inv', NEW s \in Sets, NEW f \in Fields, NEW i \in Idents,
         NEW v \in Values, SetField(s, f, i, v)
  PROVE  \E k \in 1..Len(ElemsView[s]) : Abstract!SpecSet(s, f, k, v)
<1> DEFINE n == numElements[s]
           flat == [c \in 0..(Width[f] - 1) |-> v]
<1>0. PICK k \in Nat : k = i + 1
  BY DEF Idents
<1>1. ElemsView' = [ElemsView EXCEPT ![s] = ElemsView'[s]]
  <2>1. \A t \in Sets \ {s} : /\ numElements'[t] = numElements[t]
                              /\ fields'[t] = fields[t]
                              /\ data'[t] = data[t]
                              /\ endpoints'[t] = endpoints[t]
    BY DEF SetField, Inv, TypeOK
  <2> QED
    BY <2>1, OthersKept
<1>2. /\ n \in Nat /\ i \in Nat /\ k \in 1..n /\ numElements' = numElements
      /\ fields' = fields /\ endpoints' = endpoints /\ f \in fields[s]
      /\ \A g \in Fields \ {f} : data'[s][g] = data[s][g]
      /\ data'[s][f] = [c \in Cells(f) |->
           IF c \in ElementCells(i, f) THEN v ELSE data[s][f][c]]
  BY <1>0 DEF SetField, Inv, TypeOK, Idents
<1>3. ASSUME NEW j \in 1..n, NEW c \in 0..(Width[f] - 1)
      PROVE  data'[s][f][(j - 1) * Width[f] + c] =
               IF j = k THEN v ELSE data[s][f][(j - 1) * Width[f] + c]
  <2>1. /\ (j - 1) * Width[f] + c \in Cells(f)
        /\ j = k => (j - 1) * Width[f] + c \in ElementCells(i, f)
        /\ j # k => (j - 1) * Width[f] + c \notin ElementCells(i, f)
    <3>1. /\ (j - 1) * Width[f] + c \in Cells(f)
          /\ (j - 1) * Width[f] + c \in ElementCells(j - 1, f)
          /\ i # j - 1 => (j - 1) * Width[f] + c \notin ElementCells(i, f)
      BY <1>2, ElemCells
    <3>2. j = k => j - 1 = i
      BY <1>0, <1>2
    <3>3. j # k => i # j - 1
      BY <1>0, <1>2
    <3> QED
      BY <3>1, <3>2, <3>3
  <2> QED
    BY <1>2, <2>1
<1>4. ASSUME NEW j \in 1..n, j # k
      PROVE  ViewElem(s, j)' = ViewElem(s, j)
  <2>1. ASSUME NEW g \in Fields
        PROVE  [c \in 0..(Width[g] - 1) |->
                  IF g \in fields'[s] THEN data'[s][g][(j - 1) * Width[g] + c] ELSE Junk]
             = [c \in 0..(Width[g] - 1) |->
                  IF g \in fields[s] THEN data[s][g][(j - 1) * Width[g] + c] ELSE Junk]
    BY ZenonT(60), <1>2, <1>3, <1>4
  <2> QED
    BY ZenonT(60), <1>2, <2>1 DEF ViewElem
<1>5. ViewElem(s, k)' = Abstract!WithTensor(ViewElem(s, k), f, flat)
  <2>1. ASSUME NEW g \in Fields
        PROVE  [c \in 0..(Width[g] - 1) |->
                  IF g \in fields'[s] THEN data'[s][g][(k - 1) * Width[g] + c] ELSE Junk]
             = IF g = f THEN flat ELSE ViewElem(s, k).tensors[g]
    <3>1. ViewElem(s, k).tensors[g] = [c \in 0..(Width[g] - 1) |->
            IF g \in fields[s] THEN data[s][g][(k - 1) * Width[g] + c] ELSE Junk]
      BY DEF ViewElem
    <3> QED
      BY ZenonT(60), <1>2, <1>3, <3>1
  <2>2. ViewElem(s, k)' = [tensors |-> [g \in Fields |->
          IF g = f THEN flat ELSE ViewElem(s, k).tensors[g]], eps |-> endpoints[s][k - 1]]
    BY ZenonT(60), <1>2, <2>1 DEF ViewElem
  <2> HIDE DEF flat
  <2>3. Abstract!WithTensor(ViewElem(s, k), f, flat) =
          [tensors |-> [g \in Fields |->
             IF g = f THEN flat ELSE ViewElem(s, k).tensors[g]],
           eps |-> endpoints[s][k - 1]]
    BY ElemWith
  <2> QED
    BY <2>2, <2>3
<1>6. /\ ElemsView[s] = [j \in 1..n |-> ViewElem(s, j)]
      /\ Len(ElemsView[s]) = n
      /\ ElemsView'[s] = [j \in 1..n |-> ViewElem(s, j)']
  BY ViewIs, ViewIsNext, <1>2
<1>7. ElemsView'[s] = [ElemsView[s] EXCEPT ![k] = Abstract!WithTensor(ElemsView[s][k], f, flat)]
  <2> HIDE DEF flat, n
  <2>1. ElemsView[s][k] = ViewElem(s, k)
    BY <1>2, <1>6
  <2>2. ElemsView'[s] = [ElemsView[s] EXCEPT ![k] = Abstract!WithTensor(ViewElem(s, k), f, flat)]
    <3> DEFINE e == Abstract!WithTensor(ViewElem(s, k), f, flat)
    <3>1. \A j \in 1..n : ViewElem(s, j)' = IF j = k THEN e ELSE ViewElem(s, j)
      BY <1>4, <1>5
    <3> HIDE DEF e
    <3>2. ElemsView'[s] = [j \in 1..n |-> IF j = k THEN e ELSE ElemsView[s][j]]
      BY <1>6, <3>1
    <3>3. ElemsView'[s] = [ElemsView[s] EXCEPT ![k] = e]
      BY <1>6, <3>2
    <3> QED
      BY <3>3 DEF e
  <2> QED
    BY <2>1, <2>2
<1>8. s \in DOMAIN ElemsView
  BY DEF ElemsView
<1>9. ElemsView' = [ElemsView EXCEPT ![s][k] = Abstract!WithTensor(ElemsView[s][k], f, flat)]
  BY <1>1, <1>7, <1>8
<1>10. Abstract!SpecSet(s, f, k, v)
  <2>1. fields' = fields
    BY <1>2
  <2> QED
    BY <1>2, <1>9, <2>1 DEF Abstract!SpecSet
<1> QED
  BY <1>2, <1>6, <1>10

\* Every step of the buffers is a step of the list, or none.
LEMMA StepSimulates ==
  ASSUME Inv, Inv', Stored, Stored', [Next]_vars,
         \A s \in Removable : Movable(s)
  PROVE  [Abstract!SpecNext]_(Abstract!specVars)
<1>1. ASSUME NEW s \in Sets, NEW f \in Fields, AddField(s, f)
      PROVE  Abstract!SpecNext
  BY <1>1, AddFieldSimulates DEF Abstract!SpecNext
<1>2. ASSUME NEW s \in Sets, NEW eps \in [Positions(s) -> Handles], Add(s, eps)
      PROVE  Abstract!SpecNext
  BY <1>2, AddSimulates DEF Abstract!SpecNext
<1>3. ASSUME NEW s \in Sets, NEW eps \in [Positions(s) -> Handles],
             AddThrows(s, eps)
      PROVE  UNCHANGED Abstract!specVars
  BY <1>3, AddThrowsStutters
<1>4. ASSUME NEW s \in Sets, NEW i \in Idents, Remove(s, i)
      PROVE  Abstract!SpecNext
  <2>1. Movable(s)
    BY <1>4 DEF Remove
  <2> QED
    BY <1>4, <2>1, RemoveSimulates DEF Abstract!SpecNext
<1>5. ASSUME NEW s \in Sets, NEW f \in Fields, NEW i \in Idents,
             NEW v \in Values, SetField(s, f, i, v)
      PROVE  Abstract!SpecNext
  BY <1>5, SetFieldSimulates DEF Abstract!SpecNext
<1>6. CASE UNCHANGED vars
  BY <1>6 DEF vars, Abstract!specVars, ElemsView
<1> QED
  BY <1>1, <1>2, <1>3, <1>4, <1>5, <1>6, Zenon DEF Next

\* The buffers of Set implement the list of elements of SetSpec for every
\* number of sets, fields and widths, provided remove is called only on sets
\* without endpoints whose fields have one component each.
THEOREM SetImplementsSpec ==
  ASSUME \A s \in Removable : Movable(s)
  PROVE  Spec => ImplementsSetSpec
<1>1. Init => Abstract!SpecInit /\ Stored
  <2> SUFFICES ASSUME Init PROVE Abstract!SpecInit /\ Stored
    OBVIOUS
  <2>1. Stored
    BY DEF Init, Stored
  <2>2. fields = [s \in Sets |-> {}]
    BY DEF Init
  <2>3. ElemsView = [s \in Sets |-> <<>>]
    <3>1. Inv
      BY InitInv
    <3>2. ASSUME NEW s \in Sets
          PROVE  ElemsView[s] = <<>>
      <4>1. ElemsView[s] = [k \in 1..0 |-> ViewElem(s, k)]
        BY <3>1, ViewIs DEF Init
      <4> QED
        BY <4>1
    <3> QED
      BY <3>1, <3>2, ViewIs
  <2> QED
    BY <2>1, <2>2, <2>3 DEF Abstract!SpecInit
<1>2. Inv /\ Inv' /\ Stored /\ [Next]_vars =>
        Stored' /\ [Abstract!SpecNext]_(Abstract!specVars)
  BY StepStored, StepSimulates
<1> QED
  BY <1>1, <1>2, InvAlways, PTL DEF Spec, ImplementsSetSpec,
     Abstract!SetSpecification
=============================================================================
