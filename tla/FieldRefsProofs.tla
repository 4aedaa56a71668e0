--------------------------- MODULE FieldRefsProofs ---------------------------
(***************************************************************************)
(* The registration of field references, for any number of fields, sets    *)
(* and references and any number of reallocations.                         *)
(***************************************************************************)
EXTENDS FieldRefs, TLAPS

\* Exact registration is what makes a pointer current after the next realloc,
\* so the two are one induction.
Inv == TypeOK /\ UntouchedRegisteredExactly /\ UntouchedRefsCurrent

USE SetOfAssumption, MaxGrowthsAssumption, WildAssumption

\* There are no references at first.
LEMMA InitInv == Init => Inv
<1> SUFFICES ASSUME Init PROVE Inv
  OBVIOUS
<1>1. /\ created \subseteq Fields /\ live \subseteq Refs
      /\ touched \subseteq Refs
      /\ gen \in [Fields -> 0..MaxGrowths]
  BY DEF Init
<1>2. /\ registered \in [Fields -> SUBSET Refs]
      /\ refField \in [Refs -> Fields \cup {Wild}]
      /\ refData \in [Refs -> Buffers \cup {Wild}]
  BY DEF Init
<1>3. UntouchedRegisteredExactly /\ UntouchedRefsCurrent
  BY DEF Init, UntouchedRegisteredExactly, UntouchedRefsCurrent
<1>4. wildAccess \in BOOLEAN
  BY DEF Init
<1> QED
  BY <1>1, <1>2, <1>3, <1>4 DEF Inv, TypeOK

\* addField and getField construct a reference to a field that exists.
LEMMA ConstructInv ==
  ASSUME Inv, NEW r \in Refs, NEW f \in Fields, Construct(r, f),
         created' = created \cup {f}
  PROVE  Inv'
<1>1. Current(f) \in Buffers
  BY DEF Current, Buffers, Inv, TypeOK
<1>2. TypeOK'
  BY <1>1 DEF Construct, Inv, TypeOK
<1>3. UntouchedRegisteredExactly'
  BY DEF Construct, Inv, TypeOK, UntouchedRegisteredExactly
<1>4. UntouchedRefsCurrent'
  BY DEF Construct, Inv, TypeOK, UntouchedRefsCurrent, Current
<1> QED
  BY <1>2, <1>3, <1>4 DEF Inv

\* A copy registers itself with the field of its source.
LEMMA CopyConstructInv ==
  ASSUME Inv, NEW r \in Refs, NEW o \in Refs, CopyConstruct(r, o)
  PROVE  Inv'
<1>1. refField[o] \in Fields
  BY DEF CopyConstruct, Inv, TypeOK
<1>2. TypeOK'
  BY <1>1 DEF CopyConstruct, Inv, TypeOK
<1>3. UntouchedRegisteredExactly'
  BY <1>1 DEF CopyConstruct, Inv, TypeOK, UntouchedRegisteredExactly
<1>4. UntouchedRefsCurrent'
  BY <1>1 DEF CopyConstruct, Inv, TypeOK, UntouchedRefsCurrent, Current
<1> QED
  BY <1>2, <1>3, <1>4 DEF Inv

\* Only the moved-from reference is disturbed.
LEMMA MoveConstructInv ==
  ASSUME Inv, NEW r \in Refs, NEW o \in Refs, MoveConstruct(r, o)
  PROVE  Inv'
<1>1. refField[o] \in Fields /\ r # o
  BY DEF MoveConstruct, Inv, TypeOK
<1>2. TypeOK'
  BY <1>1 DEF MoveConstruct, Inv, TypeOK
<1>3. UntouchedRegisteredExactly'
  BY <1>1 DEF MoveConstruct, Inv, TypeOK, UntouchedRegisteredExactly
<1>4. UntouchedRefsCurrent'
  BY <1>1 DEF MoveConstruct, Inv, TypeOK, UntouchedRefsCurrent, Current
<1> QED
  BY <1>2, <1>3, <1>4 DEF Inv

\* Copy assignment touches its target only.
LEMMA CopyAssignInv ==
  ASSUME Inv, NEW r \in Refs, NEW o \in Refs, CopyAssign(r, o)
  PROVE  Inv'
<1>1. refField[o] \in Fields
  BY DEF CopyAssign, Inv, TypeOK
<1>2. TypeOK'
  BY <1>1 DEF CopyAssign, Inv, TypeOK
<1>3. UntouchedRegisteredExactly'
  BY <1>1 DEF CopyAssign, Inv, TypeOK, UntouchedRegisteredExactly
<1>4. UntouchedRefsCurrent'
  BY <1>1 DEF CopyAssign, Inv, TypeOK, UntouchedRefsCurrent, Current
<1> QED
  BY <1>2, <1>3, <1>4 DEF Inv

\* Move assignment touches both references.
LEMMA MoveAssignInv ==
  ASSUME Inv, NEW r \in Refs, NEW o \in Refs, MoveAssign(r, o)
  PROVE  Inv'
<1>1. refField[o] \in Fields
  BY DEF MoveAssign, Inv, TypeOK
<1>2. TypeOK'
  BY <1>1 DEF MoveAssign, Inv, TypeOK
<1>3. UntouchedRegisteredExactly'
  BY <1>1 DEF MoveAssign, Inv, TypeOK, UntouchedRegisteredExactly
<1>4. UntouchedRefsCurrent'
  BY <1>1 DEF MoveAssign, Inv, TypeOK, UntouchedRefsCurrent, Current
<1> QED
  BY <1>2, <1>3, <1>4 DEF Inv

\* A destructor takes its reference out of its field.
LEMMA DestroyInv ==
  ASSUME Inv, NEW r \in Refs, Destroy(r)
  PROVE  Inv'
<1>1. refField[r] \in Fields
  BY DEF Destroy, Inv, TypeOK
<1>2. TypeOK'
  BY <1>1 DEF Destroy, Inv, TypeOK
<1>3. UntouchedRegisteredExactly'
  BY <1>1 DEF Destroy, Inv, TypeOK, UntouchedRegisteredExactly
<1>4. UntouchedRefsCurrent'
  BY <1>1 DEF Destroy, Inv, TypeOK, UntouchedRefsCurrent, Current
<1> QED
  BY <1>2, <1>3, <1>4 DEF Inv

\* Following indeterminate members is the end of what is modelled.
LEMMA WildStepInv == ASSUME Inv, WildStep PROVE Inv'
  BY DEF WildStep, Inv, TypeOK, UntouchedRegisteredExactly,
         UntouchedRefsCurrent, Current

\* An untouched reference is registered in its own field alone, so that field
\* is the last, and only, one to write its pointer.
LEMMA GrowInv ==
  ASSUME Inv, NEW s \in Sets, Grow(s)
  PROVE  Inv'
<1> DEFINE writers(r) == {f \in created : SetOf[f] = s /\ r \in registered[f]}
<1>1. PICK last \in [Refs -> Fields] :
        /\ \A r \in Refs : writers(r) # {} => last[r] \in writers(r)
        /\ refData' = [r \in Refs |-> IF writers(r) = {} THEN refData[r]
                                      ELSE <<last[r], gen[last[r]] + 1>>]
  BY DEF Grow
<1>2. \A f \in Fields : gen'[f] = IF f \in created /\ SetOf[f] = s
                                  THEN gen[f] + 1 ELSE gen[f]
  BY DEF Grow
<1>3. \A f \in created : SetOf[f] = s => gen[f] + 1 \in 0..MaxGrowths
  BY DEF Grow, Inv, TypeOK
<1>4. gen' \in [Fields -> 0..MaxGrowths]
  BY <1>3 DEF Grow, Inv, TypeOK
<1>5. \A r \in Refs : refData'[r] \in Buffers \cup {Wild}
  BY <1>1, <1>3 DEF Buffers, Inv, TypeOK
<1>6. refData' \in [Refs -> Buffers \cup {Wild}]
  BY <1>1, <1>5
<1>7. TypeOK'
  BY <1>4, <1>6 DEF Grow, Inv, TypeOK
<1>8. UntouchedRegisteredExactly'
  BY DEF Grow, Inv, UntouchedRegisteredExactly
<1>9. ASSUME NEW r \in live \ touched
      PROVE  refField[r] \in created /\ refData'[r] = <<refField[r],
                                                       gen'[refField[r]]>>
  <2> DEFINE f == refField[r]
  <2>1. /\ r \in Refs /\ f \in created /\ f \in Fields
        /\ refData[r] = <<f, gen[f]>>
    BY DEF Inv, TypeOK, UntouchedRefsCurrent, Current
  <2>2. \A g \in Fields : r \in registered[g] <=> g = f
    BY <2>1 DEF Inv, TypeOK, UntouchedRegisteredExactly
  <2>3. CASE SetOf[f] = s
    <3>1. writers(r) = {f}
      BY <2>1, <2>2, <2>3 DEF Inv, TypeOK
    <3>2. last[r] = f
      BY <1>1, <2>1, <3>1
    <3>3. refData'[r] = <<f, gen[f] + 1>>
      BY <1>1, <2>1, <3>1, <3>2
    <3> QED
      BY <1>2, <2>1, <2>3, <3>3
  <2>4. CASE SetOf[f] # s
    <3>1. writers(r) = {}
      BY <2>1, <2>2, <2>4 DEF Inv, TypeOK
    <3>2. refData'[r] = refData[r]
      BY <1>1, <2>1, <3>1
    <3> QED
      BY <1>2, <2>1, <2>4, <3>2
  <2> QED
    BY <2>3, <2>4
<1>10. UntouchedRefsCurrent'
  BY <1>9 DEF Grow, UntouchedRefsCurrent, Current
<1> QED
  BY <1>7, <1>8, <1>10 DEF Inv

\* Every special member and every growth keeps the invariant.
LEMMA StepInv == Inv /\ [Next]_vars => Inv'
<1> SUFFICES ASSUME Inv, [Next]_vars PROVE Inv'
  OBVIOUS
<1>1. CASE UNCHANGED vars
  BY <1>1 DEF vars, Inv, TypeOK, UntouchedRegisteredExactly,
              UntouchedRefsCurrent, Current
<1>2. ASSUME NEW r \in Refs, NEW f \in Fields, AddField(r, f) PROVE Inv'
  BY <1>2, ConstructInv DEF AddField
<1>3. ASSUME NEW r \in Refs, NEW f \in Fields, GetField(r, f) PROVE Inv'
  <2>1. created' = created \cup {f} /\ Construct(r, f)
    BY <1>3 DEF GetField
  <2> QED
    BY <2>1, ConstructInv
<1>4. ASSUME NEW r \in Refs, NEW o \in Refs,
             \/ CopyConstruct(r, o) \/ MoveConstruct(r, o)
             \/ CopyAssign(r, o) \/ MoveAssign(r, o) \/ UseWild(r, o)
      PROVE  Inv'
  BY <1>4, CopyConstructInv, MoveConstructInv, CopyAssignInv, MoveAssignInv,
     WildStepInv DEF UseWild
<1>5. ASSUME NEW r \in Refs, Destroy(r) \/ DestroyWild(r) PROVE Inv'
  BY <1>5, DestroyInv, WildStepInv DEF DestroyWild
<1>6. ASSUME NEW s \in Sets, Grow(s) PROVE Inv'
  BY <1>6, GrowInv
<1> QED
  BY <1>1, <1>2, <1>3, <1>4, <1>5, <1>6 DEF Next

\* Untouched references are registered and current in every reachable state.
THEOREM InvAlways == Spec => []Inv
  BY InitInv, StepInv, PTL DEF Spec

\* A reference that was only constructed, copied from or moved into reads its
\* own field's current buffer after any number of Set::increaseCapacity calls,
\* whatever the client does to other references.
THEOREM RefsUntouchedCurrent == Spec => []UntouchedRefsCurrent
<1>1. Inv => UntouchedRefsCurrent
  BY DEF Inv
<1> QED
  BY <1>1, InvAlways, PTL

\* fieldReferences lists such a reference in its own field while it lives and
\* nowhere afterwards, so realloc never writes through a destroyed one.
THEOREM RefsUntouchedRegistered == Spec => []UntouchedRegisteredExactly
<1>1. Inv => UntouchedRegisteredExactly
  BY DEF Inv
<1> QED
  BY <1>1, InvAlways, PTL
=============================================================================
