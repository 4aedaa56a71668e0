--------------------------- MODULE MCGpuFunction ----------------------------
(* One name of each kind; pushedBufs holds the arguments, then temporaries, *)
(* then externs.                                                            *)
EXTENDS GpuFunction, TLC

CONSTANTS res, inp, scl, sext, text, tmp

PushOrder == [n \in Handled |->
  CASE n = res -> 1 [] n = inp -> 2 [] n = tmp -> 3 [] n = sext -> 4
    [] n = text -> 5]
ObjSymmetry == Permutations(Objs \ Misfits)
=============================================================================
