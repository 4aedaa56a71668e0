---------------------------- MODULE FunctionSpec ----------------------------
(***************************************************************************)
(* What a bound function promises, whatever the backend: it works in place *)
(* on the client's memory.  A run reads the objects last bound to its      *)
(* names, as the client or an earlier run left them, and what it writes is *)
(* in those objects afterwards.                                            *)
(*                                                                         *)
(* Values are stamps: every write, by the client or by a run, makes a new  *)
(* one, so that a value tells which write it comes from.                   *)
(***************************************************************************)
EXTENDS Naturals

CONSTANTS
  Bindables,  \* arguments and externs
  Writable,   \* those a run may write: results and externs
  Objs,       \* the client's objects
  None

VARIABLES mem, bound, saw, clock

vars == <<mem, bound, saw, clock>>

Init ==
  /\ mem = [o \in Objs |-> 0]
  /\ bound = [n \in Bindables |-> None]
  /\ saw = None
  /\ clock = 0

Write(o) ==
  /\ clock' = clock + 1
  /\ mem' = [mem EXCEPT ![o] = clock']
  /\ UNCHANGED <<bound, saw>>

Bind(n, o) ==
  /\ bound' = [bound EXCEPT ![n] = o]
  /\ UNCHANGED <<mem, saw, clock>>

Run(W) ==
  /\ \A n \in Bindables : bound[n] # None
  /\ saw' = [n \in Bindables |-> mem[bound[n]]]
  /\ clock' = clock + 1
  /\ mem' = [o \in Objs |-> IF \E n \in W : bound[n] = o THEN clock' ELSE mem[o]]
  /\ UNCHANGED bound

Next ==
  \/ \E o \in Objs : Write(o)
  \/ \E n \in Bindables, o \in Objs : Bind(n, o)
  \/ \E W \in SUBSET Writable : Run(W)

Spec == Init /\ [][Next]_vars
=============================================================================
