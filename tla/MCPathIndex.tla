----------------------------- MODULE MCPathIndex -----------------------------
(* Expressions over vertices V and edge sets E and F.                       *)
EXTENDS PathIndex

CONSTANTS v, u, e, f

Ev(n) == [op |-> "ev", edges |-> n, verts |-> "V"]
Ve(n) == [op |-> "ve", edges |-> n, verts |-> "V"]
Op(o, l, lEp, r, rEp) == [op |-> o, quantified |-> FALSE, swapped |-> FALSE,
                          l |-> l, lEp |-> lEp, r |-> r, rEp |-> rEp,
                          sources |-> "V", sinks |-> "V"]
Exists(o, l, lEp, r, rEp) == [Op(o, l, lEp, r, rEp) EXCEPT !.quantified = TRUE]

\* vev and vfv, their intersection and products, and unions.  The two products
\* have one key: A(i,k) B(j,k) enters B at its second variable, and is like
\* A(i,k) B(k,j) because vfv is symmetric.  So does the union enter the
\* intersection.
Symmetric == <<Ev("E"), Ve("E"), Ev("F"), Ve("F"),
               Exists("and", 2, 0, 1, 0), Exists("and", 4, 0, 3, 0),
               Op("and", 5, 0, 6, 0),
               Exists("and", 5, 0, 6, 0), Exists("and", 5, 0, 6, 1),
               Op("or", 7, 1, 8, 0), Exists("or", 2, 0, 1, 0)>>
Roots == {2, 9, 10, 11} \X {0}

VSize == [s \in VertexSets |-> IF s = v THEN 2 ELSE 1]
Ends == [s \in EdgeSets |-> IF s = e THEN <<v, v>> ELSE <<v, u>>]
TwoAndOne == [s \in EdgeSets |-> IF s = e THEN 2 ELSE 1]
=============================================================================
