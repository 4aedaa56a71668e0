------------------------------ MODULE FieldRefs ------------------------------
(***************************************************************************)
(* FieldRefBase (src/src/graph.h) caches its field's data pointer, and     *)
(* Set::increaseCapacity rewrites the cached pointer of every reference    *)
(* registered in FieldData::fieldReferences after it has reallocated the   *)
(* field.  The rule-of-five members keep that registration.                *)
(*                                                                         *)
(* A reference is a place in the client's memory; what is stored there     *)
(* survives the destructor, which is what an uninitialised member reads.   *)
(* A buffer is a pair <<field, generation>>: each realloc makes a new one. *)
(***************************************************************************)
EXTENDS Naturals, FiniteSets

CONSTANTS
  Fields,      \* FieldData objects
  Sets,        \* the sets they belong to
  SetOf,       \* [Fields -> Sets]
  Refs,        \* places that can hold a FieldRef
  Uses,        \* which of the rule-of-five members the client exercises
  MaxGrowths,  \* bound on the reallocations of a field
  Wild         \* an indeterminate pointer

ASSUME SetOfAssumption == SetOf \in [Fields -> Sets]
ASSUME UsesAssumption ==
  Uses \subseteq {"copyConstruct", "moveConstruct", "copyAssign", "moveAssign"}
ASSUME MaxGrowthsAssumption == MaxGrowths \in Nat
ASSUME WildAssumption == Wild \notin Fields /\ Wild \notin Fields \X Nat

VARIABLES
  created,     \* fields addField has made
  gen,         \* [Fields -> Nat]: the generation of the field's buffer
  registered,  \* [Fields -> SUBSET Refs]: FieldData::fieldReferences
  live,        \* places that hold a constructed, undestroyed FieldRef
  refField,    \* FieldRefBase::fieldData
  refData,     \* FieldRefBase::data
  touched,     \* history: places whose registration a client has disturbed
               \* by assigning over a reference or by moving from one
  wildAccess   \* the program has dereferenced an indeterminate pointer

vars == <<created, gen, registered, live, refField, refData, touched,
          wildAccess>>

Buffers == Fields \X (0..MaxGrowths)
Current(f) == <<f, gen[f]>>

-----------------------------------------------------------------------------

Init ==
  /\ created = {}
  /\ gen = [f \in Fields |-> 0]
  /\ registered = [f \in Fields |-> {}]
  /\ live = {}
  /\ refField = [r \in Refs |-> Wild]
  /\ refData = [r \in Refs |-> Wild]
  /\ touched = {}
  /\ wildAccess = FALSE

\* FieldRefBase(void *fieldData)
Construct(r, f) ==
  /\ r \notin live
  /\ live' = live \cup {r}
  /\ refField' = [refField EXCEPT ![r] = f]
  /\ refData' = [refData EXCEPT ![r] = Current(f)]
  /\ registered' = [registered EXCEPT ![f] = @ \cup {r}]
  /\ UNCHANGED <<gen, touched, wildAccess>>

\* Set::addField returns a reference to the field it makes.
AddField(r, f) ==
  /\ ~wildAccess
  /\ f \notin created
  /\ created' = created \cup {f}
  /\ Construct(r, f)

\* Set::getField; the name was found in fieldNames.
GetField(r, f) ==
  /\ ~wildAccess
  /\ f \in created
  /\ Construct(r, f)
  /\ UNCHANGED created

\* Dereferencing an indeterminate fieldData: the program is lost.
WildStep ==
  /\ ~wildAccess
  /\ wildAccess' = TRUE
  /\ UNCHANGED <<created, gen, registered, live, refField, refData, touched>>

\* Slip: the copy is not entered in fieldReferences.
CopyConstructUnregistered(r, o) ==
  /\ ~wildAccess
  /\ "copyConstruct" \in Uses /\ r \notin live /\ o \in live
  /\ refField[o] # Wild
  /\ live' = live \cup {r}
  /\ refField' = [refField EXCEPT ![r] = refField[o]]
  /\ refData' = [refData EXCEPT ![r] = refData[o]]
  /\ touched' = IF o \in touched THEN touched \cup {r} ELSE touched
  /\ UNCHANGED <<created, gen, registered, wildAccess>>

\* FieldRefBase(const FieldRefBase&)
CopyConstruct(r, o) ==
  /\ ~wildAccess
  /\ "copyConstruct" \in Uses /\ r \notin live /\ o \in live
  /\ refField[o] # Wild
  /\ live' = live \cup {r}
  /\ refField' = [refField EXCEPT ![r] = refField[o]]
  /\ refData' = [refData EXCEPT ![r] = refData[o]]
  /\ registered' = [registered EXCEPT ![refField[o]] = @ \cup {r}]
  /\ touched' = IF o \in touched THEN touched \cup {r} ELSE touched
  /\ UNCHANGED <<created, gen, wildAccess>>

\* FieldRefBase(FieldRefBase&&): both pointers are swapped with members that
\* were never initialised, so `other` keeps whatever was stored at r.
MoveConstruct(r, o) ==
  /\ ~wildAccess
  /\ "moveConstruct" \in Uses /\ r \notin live /\ o \in live
  /\ refField[o] # Wild
  /\ live' = live \cup {r}
  /\ \E lost \in BOOLEAN :
       /\ refField' = [refField EXCEPT ![r] = refField[o],
                          ![o] = IF lost THEN Wild ELSE refField[r]]
       /\ refData' = [refData EXCEPT ![r] = refData[o],
                          ![o] = IF lost THEN Wild ELSE refData[r]]
  /\ registered' = [registered EXCEPT ![refField[o]] = (@ \ {o}) \cup {r}]
  /\ touched' = touched \cup {o} \cup (IF o \in touched THEN {r} ELSE {})
  /\ UNCHANGED <<created, gen, wildAccess>>

\* operator=(const FieldRefBase&): r is not erased from its old field.
CopyAssign(r, o) ==
  /\ ~wildAccess
  /\ "copyAssign" \in Uses /\ r \in live /\ o \in live
  /\ refField[o] # Wild
  /\ refField' = [refField EXCEPT ![r] = refField[o]]
  /\ refData' = [refData EXCEPT ![r] = refData[o]]
  /\ registered' = [registered EXCEPT ![refField[o]] = @ \cup {r}]
  /\ touched' = IF refField[r] = refField[o] /\ o \notin touched
                THEN touched ELSE touched \cup {r}
  /\ UNCHANGED <<created, gen, live, wildAccess>>

\* operator=(FieldRefBase&&): o takes r's old field but is registered nowhere,
\* and r stays registered in it.
MoveAssign(r, o) ==
  /\ ~wildAccess
  /\ "moveAssign" \in Uses /\ r \in live /\ o \in live /\ r # o
  /\ refField[o] # Wild
  /\ refField' = [refField EXCEPT ![r] = refField[o], ![o] = refField[r]]
  /\ refData' = [refData EXCEPT ![r] = refData[o], ![o] = refData[r]]
  /\ registered' = [registered EXCEPT ![refField[o]] = (@ \ {o}) \cup {r}]
  /\ touched' = touched \cup {r, o}
  /\ UNCHANGED <<created, gen, live, wildAccess>>

\* Any of the four copies or moves from a reference with a wild fieldData.
UseWild(r, o) ==
  /\ o \in live /\ refField[o] = Wild
  /\ IF r \in live THEN \/ "copyAssign" \in Uses
                        \/ "moveAssign" \in Uses /\ r # o
     ELSE {"copyConstruct", "moveConstruct"} \cap Uses # {}
  /\ WildStep

\* Slip: the destructor leaves the reference registered.
DestroyRegistered(r) ==
  /\ ~wildAccess
  /\ r \in live
  /\ refField[r] # Wild
  /\ live' = live \ {r}
  /\ UNCHANGED <<created, gen, registered, refField, refData, touched,
                 wildAccess>>

\* ~FieldRefBase
Destroy(r) ==
  /\ ~wildAccess
  /\ r \in live
  /\ refField[r] # Wild
  /\ live' = live \ {r}
  /\ registered' = [registered EXCEPT ![refField[r]] = @ \ {r}]
  /\ UNCHANGED <<created, gen, refField, refData, touched, wildAccess>>

DestroyWild(r) ==
  /\ r \in live
  /\ refField[r] = Wild
  /\ WildStep

\* Set::increaseCapacity: every field of the set is reallocated, and the data
\* pointer stored at every registered place is overwritten, field by field in
\* some order (a place registered twice ends with the last field's buffer).
Grow(s) ==
  /\ ~wildAccess
  /\ \A f \in created : SetOf[f] = s => gen[f] < MaxGrowths
  /\ gen' = [f \in Fields |-> IF f \in created /\ SetOf[f] = s
                              THEN gen[f] + 1 ELSE gen[f]]
  /\ LET writers(r) == {f \in created : SetOf[f] = s /\ r \in registered[f]}
     IN \E last \in [Refs -> Fields] :
          /\ \A r \in Refs : writers(r) # {} => last[r] \in writers(r)
          /\ refData' = [r \in Refs |-> IF writers(r) = {} THEN refData[r]
                                        ELSE <<last[r], gen[last[r]] + 1>>]
  /\ UNCHANGED <<created, registered, live, refField, touched, wildAccess>>

Next ==
  \/ \E r \in Refs, f \in Fields : AddField(r, f) \/ GetField(r, f)
  \/ \E r, o \in Refs : CopyConstruct(r, o)
  \/ \E r, o \in Refs : MoveConstruct(r, o)
  \/ \E r, o \in Refs : CopyAssign(r, o)
  \/ \E r, o \in Refs : MoveAssign(r, o)
  \/ \E r, o \in Refs : UseWild(r, o)
  \/ \E r \in Refs : Destroy(r) \/ DestroyWild(r)
  \/ \E s \in Sets : Grow(s)

Spec == Init /\ [][Next]_vars

-----------------------------------------------------------------------------

\* Every pointer is to a field or buffer that was made, or indeterminate.
TypeOK ==
  /\ created \subseteq Fields
  /\ gen \in [Fields -> 0..MaxGrowths]
  /\ registered \in [Fields -> SUBSET Refs]
  /\ live \subseteq Refs
  /\ refField \in [Refs -> Fields \cup {Wild}]
  /\ refData \in [Refs -> Buffers \cup {Wild}]
  /\ touched \subseteq Refs
  /\ wildAccess \in BOOLEAN

\* A place whose reference was never assigned over or moved from is in
\* fieldReferences of exactly the field it refers to, and of none once it is
\* destroyed: realloc never writes through a dead reference.
UntouchedRegisteredExactly ==
  \A r \in Refs \ touched : \A f \in Fields :
    r \in registered[f] <=> r \in live /\ refField[r] = f

\* Such a reference always reads its own field's current buffer, whatever the
\* client does with other references and however often the sets grow.
UntouchedRefsCurrent ==
  \A r \in live \ touched :
    refField[r] \in created /\ refData[r] = Current(refField[r])

=============================================================================
