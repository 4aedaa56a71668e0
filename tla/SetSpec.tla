------------------------------- MODULE SetSpec -------------------------------
(***************************************************************************)
(* What graph.h promises a client of its sets: a set is a list of          *)
(* elements, an element is a tensor per field plus one endpoint per        *)
(* endpoint set.  No buffer, capacity or reallocation is visible.  Element *)
(* k of the list is the one whose handle has ident k - 1.                  *)
(***************************************************************************)
EXTENDS Integers, Sequences

CONSTANTS Sets, Fields, Values, EndpointSets, Width

VARIABLES
  elems,     \* [Sets -> Seq([tensors, eps])]
  hasFields  \* [Sets -> SUBSET Fields]

specVars == <<elems, hasFields>>

Tensor(f) == [0..(Width[f] - 1) -> Values]

\* The element e with tensor t in field f.
WithTensor(e, f, t) == [tensors |-> [e.tensors EXCEPT ![f] = t], eps |-> e.eps]

SpecInit ==
  /\ elems = [s \in Sets |-> <<>>]
  /\ hasFields = [s \in Sets |-> {}]

\* Every element of the set gets a tensor of zeros for the new field.
SpecAddField(s, f) ==
  /\ hasFields' = [hasFields EXCEPT ![s] = @ \cup {f}]
  /\ elems' = [elems EXCEPT ![s] = [k \in 1..Len(elems[s]) |->
       WithTensor(elems[s][k], f, [c \in 0..(Width[f] - 1) |-> 0])]]

\* The new element comes last and no other element changes.  What its fields
\* hold is left open: a slot freed by remove is reused without being cleared.
SpecAdd(s) ==
  LET new == elems'[s][Len(elems'[s])] IN
    /\ Len(elems'[s]) > Len(elems[s])
    /\ elems' = [elems EXCEPT ![s] = Append(@, new)]
    /\ \A f \in hasFields[s] : new.tensors[f] \in Tensor(f)
    /\ UNCHANGED hasFields

\* The last element takes the handle of the removed one; the others keep
\* their handles, their tensors and their endpoints.
SpecRemove(s, k) ==
  /\ elems' = [elems EXCEPT ![s] = [j \in 1..(Len(elems[s]) - 1) |->
       IF j = k THEN elems[s][Len(elems[s])] ELSE elems[s][j]]]
  /\ UNCHANGED hasFields

\* One tensor of one element changes.
SpecSet(s, f, k, v) ==
  /\ f \in hasFields[s]
  /\ elems' = [elems EXCEPT ![s][k] =
       WithTensor(elems[s][k], f, [c \in 0..(Width[f] - 1) |-> v])]
  /\ UNCHANGED hasFields

SpecNext ==
  \E s \in Sets :
    \/ \E f \in Fields : SpecAddField(s, f)
    \/ SpecAdd(s)
    \/ \E k \in 1..Len(elems[s]) : SpecRemove(s, k)
    \/ \E f \in Fields, k \in 1..Len(elems[s]), v \in Values :
         SpecSet(s, f, k, v)

SetSpecification == SpecInit /\ [][SpecNext]_specVars
=============================================================================
