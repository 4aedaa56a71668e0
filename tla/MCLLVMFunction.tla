--------------------------- MODULE MCLLVMFunction ---------------------------
(* A function of two arguments and one extern, over two objects that fit   *)
(* and a grid set that does not.                                           *)
EXTENDS LLVMFunction, TLC

CONSTANTS edges, alpha, ext, o1, o2, grid

Maybe == {TRUE, FALSE}
FitSymmetry == Permutations({o1, o2})
=============================================================================
