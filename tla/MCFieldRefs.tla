----------------------------- MODULE MCFieldRefs -----------------------------
(* Fields of one set or of two, and a few places for references.            *)
EXTENDS FieldRefs, TLC

CONSTANTS x, m, points, edges

OneEach == (x :> points @@ m :> edges)

AllUses == {"copyConstruct", "moveConstruct", "copyAssign", "moveAssign"}

RefSymmetry == Permutations(Refs)
=============================================================================
