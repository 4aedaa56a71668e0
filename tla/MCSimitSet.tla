----------------------------- MODULE MCSimitSet -----------------------------
(***************************************************************************)
(* Points, the edges between them with a vector field, and a plain set     *)
(* with a scalar field, from which the client removes elements.            *)
(***************************************************************************)
EXTENDS SimitSet, TLC

CONSTANTS V, E, P, x, y

LinksTwoPoints == (V :> <<>> @@ E :> <<V, V>> @@ P :> <<>>)
VectorsAndScalars == (V :> {} @@ E :> {x} @@ P :> {y})
Widths == (x :> 2 @@ y :> 1)
Elements == (V :> 2 @@ E :> 3 @@ P :> 3)
=============================================================================
