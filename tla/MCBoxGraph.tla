----------------------------- MODULE MCBoxGraph -----------------------------
(* Boxes of up to three cells along each axis.                              *)
EXTENDS BoxGraph

All == (1..3) \X (1..3) \X (1..3)
=============================================================================
