------------------------------ MODULE MCGridSet ------------------------------
(* Grids of one to three dimensions and a stencil with reach two.           *)
EXTENDS GridSet

UpTo3 == UNION {[1..d -> 1..3] : d \in 1..3}

Along(d, a, n) == [x \in 1..d |-> IF x = a THEN n ELSE 0]

\* The centre and both ways along every axis, wrapping round small grids; no
\* offset is below minus a dimension that is greater than one.
Stars == [d \in 1..3 |-> <<Along(d, 1, 0)>> \o FlattenSeq([a \in 1..d |->
            <<Along(d, a, -1), Along(d, a, 1), Along(d, a, 2), Along(d, a, -2)>>])]
=============================================================================
