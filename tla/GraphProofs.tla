----------------------------- MODULE GraphProofs -----------------------------
(***************************************************************************)
(* Proofs about what is built over graphs: BoxGraph for every shape of box *)
(* and any elements the sets held before, GridSet for grids of any number  *)
(* of dimensions and any stencil, PathIndex for any graph and expressions. *)
(***************************************************************************)
EXTENDS BoxGraph, GridSet, PathIndex, DataLemmas, FunctionTheorems

(***************************************************************************)
(* Boxes.                                                                  *)
(***************************************************************************)

Dims == (Nat \ {0}) \X (Nat \ {0}) \X (Nat \ {0})

\* The parts of the model that depend on the shape only.
Box(lim) == (0..(lim[1] - 1)) \X (0..(lim[2] - 1)) \X (0..(lim[3] - 1))
NodeOf(s, c) == c[1] * s[2] * s[3] + c[2] * s[3] + c[3]
BoxSize(s) == s[1] * s[2] * s[3]
LimitsOf(s, a) == [x \in 1..3 |-> IF x = a THEN s[x] - 1 ELSE s[x]]

\* c comes before d in a loop nest.
Earlier(c, d) ==
  \/ c[1] < d[1]
  \/ c[1] = d[1] /\ c[2] < d[2]
  \/ c[1] = d[1] /\ c[2] = d[2] /\ c[3] < d[3]

\* The links of a box, and those added when the nest of axis a is at d.
BoxLinks(s) == {p \in Box(s) \X Box(s) : \E a \in 1..3 : p[2] = Step(p[1], a)}
Added(s, a, d) ==
  {p \in BoxLinks(s) : \E b \in 1..3 :
     p[2] = Step(p[1], b) /\ (b < a \/ (b = a /\ Earlier(p[1], d)))}

\* The ident of the vertex at c, and that the nests are where they can be.
Ident(c) == before["v"] + NodeOf(shape, c)

InNest ==
  /\ shape \in Dims /\ before \in [{"v", "e"} -> Nat] /\ axis \in 0..4
  /\ axis = 0 => at \in Box(shape)
  /\ axis \in 1..3 => shape[axis] > 1 /\ at \in Box(LimitsOf(shape, axis))
  /\ axis = 4 => at = Origin

\* createBox stores the vertices in the order it adds them.
RefsInOrder ==
  refs = [i \in 1..BoxSize(shape) |->
            IF axis # 0 \/ i <= NodeOf(shape, at) THEN before["v"] + i - 1 ELSE -1]

\* It has added one edge for each link it has passed, and keeps its ident.
EdgesForLinks ==
  LET done == Added(shape, axis, at) IN
    /\ edges \in Seq(Nat \X Nat)
    /\ IsFiniteSet(done) /\ Len(edges) = Cardinality(done)
    /\ \A p \in done : \E k \in 1..Len(edges) :
         /\ edges[k] = <<Ident(p[1]), Ident(p[2])>>
         /\ <<Ident(p[1]), Ident(p[2]), before["e"] + k - 1>> \in coords2edges

Inv == InNest /\ RefsInOrder /\ EdgesForLinks

-----------------------------------------------------------------------------

\* Facts about products that the solver does not know of non-linear terms.
LEMMA ProductNat == \A a, b \in Nat : a * b \in Nat
  OBVIOUS

\* A product grows with its factor.
LEMMA ProductMonotone == \A a, b, w \in Nat : a <= b => a * w <= b * w
  OBVIOUS

\* One row more is one width more.
LEMMA ProductNext == \A a, w \in Nat : (a + 1) * w = a * w + w
  OBVIOUS

\* Row r and column x of rows of width w: the place is inside and unique.
LEMMA RowMajor ==
  ASSUME NEW w \in Nat \ {0}, NEW h \in Nat, NEW r \in 0..(h - 1), NEW x \in 0..(w - 1)
  PROVE  /\ r * w + x \in 0..(h * w - 1)
         /\ \A q \in Nat, y \in 0..(w - 1) : r * w + x = q * w + y => r = q /\ x = y
<1>1. /\ w \in Nat /\ r \in Nat /\ r + 1 \in Nat /\ r + 1 <= h /\ x \in Nat
      /\ r * w \in Nat /\ h * w \in Nat
  BY ProductNat
<1>2. (r + 1) * w <= h * w
  BY <1>1, ProductMonotone
<1>3. (r + 1) * w = r * w + w
  BY <1>1, ProductNext
<1>4. r * w + x \in 0..(h * w - 1)
  BY <1>1, <1>2, <1>3
<1>5. ASSUME NEW q \in Nat, NEW y \in 0..(w - 1), r * w + x = q * w + y
      PROVE  r = q /\ x = y
  <2>1. q * w \in Nat /\ (q + 1) * w = q * w + w /\ q + 1 \in Nat
    BY <1>1, ProductNat, ProductNext
  <2>2. CASE r < q
    <3>1. r + 1 <= q
      BY <1>1, <2>2
    <3>2. (r + 1) * w <= q * w
      BY <1>1, <2>1, <3>1, ProductMonotone
    <3> QED
      BY <1>1, <1>3, <1>5, <2>1, <3>2
  <2>3. CASE q < r
    <3>1. q + 1 <= r
      BY <1>1, <2>3
    <3>2. (q + 1) * w <= r * w
      BY <1>1, <2>1, <3>1, ProductMonotone
    <3> QED
      BY <1>1, <1>5, <2>1, <3>2
  <2>4. CASE r = q
    BY <1>1, <1>5, <2>1, <2>4
  <2> QED
    BY <1>1, <2>2, <2>3, <2>4
<1> QED
  BY <1>4, <1>5

\* The place of a vertex in refs, as the row-major place of its row.
LEMMA NodeRows ==
  ASSUME NEW s \in Dims, NEW c \in Box(s)
  PROVE  /\ c[1] \in 0..(s[1] - 1) /\ c[2] \in 0..(s[2] - 1) /\ c[3] \in 0..(s[3] - 1)
         /\ c = <<c[1], c[2], c[3]>>
         /\ s[1] \in Nat \ {0} /\ s[2] \in Nat \ {0} /\ s[3] \in Nat \ {0}
         /\ s[1] * s[2] \in Nat
         /\ c[1] * s[2] + c[2] \in 0..(s[1] * s[2] - 1)
         /\ NodeOf(s, c) = (c[1] * s[2] + c[2]) * s[3] + c[3]
<1>1. /\ c[1] \in 0..(s[1] - 1) /\ c[2] \in 0..(s[2] - 1) /\ c[3] \in 0..(s[3] - 1)
      /\ c = <<c[1], c[2], c[3]>>
      /\ s[1] \in Nat \ {0} /\ s[2] \in Nat \ {0} /\ s[3] \in Nat \ {0}
  BY DEF Dims, Box
<1>2. s[1] * s[2] \in Nat
  BY <1>1, ProductNat
<1>3. c[1] * s[2] + c[2] \in 0..(s[1] * s[2] - 1)
  BY <1>1, RowMajor
<1>4. \A a, b, d, m, w \in Nat : a * b * w + d * w + m = (a * b + d) * w + m
  OBVIOUS
<1>5. NodeOf(s, c) = (c[1] * s[2] + c[2]) * s[3] + c[3]
  <2>1. c[1] \in Nat /\ c[2] \in Nat /\ c[3] \in Nat /\ s[2] \in Nat /\ s[3] \in Nat
    BY <1>1
  <2> QED
    BY <1>4, <2>1 DEF NodeOf
<1> QED
  BY <1>1, <1>2, <1>3, <1>5

\* createBox gives every place of the box a slot of refs, and its own.
LEMMA NodeUnique ==
  ASSUME NEW s \in Dims, NEW c \in Box(s)
  PROVE  /\ NodeOf(s, c) \in 0..(BoxSize(s) - 1)
         /\ \A d \in Box(s) : NodeOf(s, c) = NodeOf(s, d) => c = d
<1>1. NodeOf(s, c) \in 0..(BoxSize(s) - 1)
  <2> DEFINE h == s[1] * s[2]
             r == c[1] * s[2] + c[2]
  <2>1. h \in Nat /\ r \in 0..(h - 1) /\ NodeOf(s, c) = r * s[3] + c[3]
        /\ BoxSize(s) = h * s[3] /\ c[3] \in 0..(s[3] - 1) /\ s[3] \in Nat \ {0}
    BY NodeRows DEF BoxSize
  <2> HIDE DEF h, r
  <2> QED
    BY <2>1, RowMajor
<1>2. ASSUME NEW d \in Box(s), NodeOf(s, c) = NodeOf(s, d)
      PROVE  c = d
  <2> DEFINE h == s[1] * s[2]
             r == c[1] * s[2] + c[2]
             q == d[1] * s[2] + d[2]
  <2>1. /\ h \in Nat /\ r \in 0..(h - 1) /\ q \in 0..(h - 1)
        /\ r * s[3] + c[3] = q * s[3] + d[3]
        /\ c[3] \in 0..(s[3] - 1) /\ d[3] \in 0..(s[3] - 1) /\ s[3] \in Nat \ {0}
    BY <1>2, NodeRows
  <2>2. r = q /\ c[3] = d[3]
    <3> HIDE DEF h, r, q
    <3>1. q \in Nat
      BY <2>1
    <3> QED
      BY SMTT(60), <2>1, <3>1, RowMajor
  <2>3. c[1] = d[1] /\ c[2] = d[2]
    <3>1. /\ c[1] \in 0..(s[1] - 1) /\ c[2] \in 0..(s[2] - 1)
          /\ d[1] \in Nat /\ d[2] \in 0..(s[2] - 1)
          /\ s[1] \in Nat /\ s[2] \in Nat \ {0}
      BY NodeRows
    <3>2. c[1] * s[2] + c[2] = d[1] * s[2] + d[2]
      BY <2>2
    <3>3. \A w \in Nat \ {0} : \A m \in Nat : \A p \in 0..(m - 1) : \A x \in 0..(w - 1) :
            \A b \in Nat : \A y \in 0..(w - 1) : p * w + x = b * w + y => p = b /\ x = y
      BY RowMajor
    <3> DEFINE c1 == c[1]
               c2 == c[2]
               d1 == d[1]
               d2 == d[2]
               n == s[1]
               w == s[2]
    <3>4. /\ w \in Nat \ {0} /\ n \in Nat /\ c1 \in 0..(n - 1) /\ c2 \in 0..(w - 1)
          /\ d1 \in Nat /\ d2 \in 0..(w - 1) /\ c1 * w + c2 = d1 * w + d2
      BY <3>1, <3>2
    <3> HIDE DEF c1, c2, d1, d2, n, w
    <3>5. c1 = d1 /\ c2 = d2
      BY <3>3, <3>4
    <3> QED
      BY <3>5 DEF c1, c2, d1, d2
  <2> QED
    BY <2>2, <2>3, NodeRows
<1> QED
  BY <1>1, <1>2

-----------------------------------------------------------------------------

\* What a box's places are made of.
LEMMA Places ==
  ASSUME NEW lim, lim[1] \in Nat, lim[2] \in Nat, lim[3] \in Nat
  PROVE  /\ \A c \in Box(lim) :
              /\ c = <<c[1], c[2], c[3]>>
              /\ c[1] \in Nat /\ c[2] \in Nat /\ c[3] \in Nat
              /\ c[1] < lim[1] /\ c[2] < lim[2] /\ c[3] < lim[3]
         /\ \A x, y, z \in Nat :
              x < lim[1] /\ y < lim[2] /\ z < lim[3] => <<x, y, z>> \in Box(lim)
  BY DEF Box

\* A loop nest goes from one place to the one that follows it.
LEMMA AfterFollows ==
  ASSUME NEW lim, lim[1] \in Nat, lim[2] \in Nat, lim[3] \in Nat,
         NEW c \in Box(lim), After(c, lim) # <<>>
  PROVE  /\ After(c, lim) \in Box(lim)
         /\ \A b \in Box(lim) : Earlier(b, After(c, lim)) <=> Earlier(b, c) \/ b = c
<1>1. /\ c[1] \in Nat /\ c[2] \in Nat /\ c[3] \in Nat /\ c = <<c[1], c[2], c[3]>>
      /\ c[1] < lim[1] /\ c[2] < lim[2] /\ c[3] < lim[3]
  BY Places
<1>2. \A b \in Box(lim) :
        /\ b = <<b[1], b[2], b[3]>> /\ b[1] \in Nat /\ b[2] \in Nat /\ b[3] \in Nat
        /\ b[1] < lim[1] /\ b[2] < lim[2] /\ b[3] < lim[3]
  BY Places
<1>3. \A b \in Box(lim) : b = c <=> b[1] = c[1] /\ b[2] = c[2] /\ b[3] = c[3]
  BY <1>1, <1>2
<1>4. CASE c[3] + 1 < lim[3]
  <2>1. After(c, lim) = <<c[1], c[2], c[3] + 1>>
    BY <1>4 DEF After
  <2>2. After(c, lim) \in Box(lim)
    BY <1>1, <1>4, <2>1, Places
  <2> QED
    BY <1>1, <1>2, <1>3, <2>1, <2>2 DEF Earlier
<1>5. CASE ~(c[3] + 1 < lim[3]) /\ c[2] + 1 < lim[2]
  <2>1. After(c, lim) = <<c[1], c[2] + 1, 0>>
    BY <1>5 DEF After
  <2>2. After(c, lim) \in Box(lim)
    BY <1>1, <1>5, <2>1, Places
  <2> QED
    BY <1>1, <1>2, <1>3, <1>5, <2>1, <2>2 DEF Earlier
<1>6. CASE ~(c[3] + 1 < lim[3]) /\ ~(c[2] + 1 < lim[2]) /\ c[1] + 1 < lim[1]
  <2>1. After(c, lim) = <<c[1] + 1, 0, 0>>
    BY <1>6 DEF After
  <2>2. After(c, lim) \in Box(lim)
    BY <1>1, <1>6, <2>1, Places
  <2> QED
    BY <1>1, <1>2, <1>3, <1>6, <2>1, <2>2 DEF Earlier
<1>7. CASE ~(c[3] + 1 < lim[3]) /\ ~(c[2] + 1 < lim[2]) /\ ~(c[1] + 1 < lim[1])
  BY <1>7 DEF After
<1> QED
  BY <1>4, <1>5, <1>6, <1>7

\* It leaves the nest at the last place.
LEMMA AfterLast ==
  ASSUME NEW lim, lim[1] \in Nat, lim[2] \in Nat, lim[3] \in Nat,
         NEW c \in Box(lim), After(c, lim) = <<>>
  PROVE  /\ c[1] = lim[1] - 1 /\ c[2] = lim[2] - 1 /\ c[3] = lim[3] - 1
         /\ \A b \in Box(lim) : Earlier(b, c) \/ b = c
<1>1. /\ c[1] \in Nat /\ c[2] \in Nat /\ c[3] \in Nat /\ c = <<c[1], c[2], c[3]>>
      /\ c[1] < lim[1] /\ c[2] < lim[2] /\ c[3] < lim[3]
  BY Places
<1>2. ~(c[3] + 1 < lim[3]) /\ ~(c[2] + 1 < lim[2]) /\ ~(c[1] + 1 < lim[1])
  <2>1. /\ <<c[1], c[2], c[3] + 1>> # <<>> /\ <<c[1], c[2] + 1, 0>> # <<>>
        /\ <<c[1] + 1, 0, 0>> # <<>>
    OBVIOUS
  <2> QED
    BY <2>1 DEF After
<1>3. c[1] = lim[1] - 1 /\ c[2] = lim[2] - 1 /\ c[3] = lim[3] - 1
  BY SMTT(60), <1>1, <1>2
<1>4. ASSUME NEW b \in Box(lim)
      PROVE  Earlier(b, c) \/ b = c
  <2>1. /\ b = <<b[1], b[2], b[3]>> /\ b[1] \in Nat /\ b[2] \in Nat /\ b[3] \in Nat
        /\ b[1] < lim[1] /\ b[2] < lim[2] /\ b[3] < lim[3]
    BY Places
  <2>2. b[1] = c[1] /\ b[2] = c[2] /\ b[3] = c[3] => b = c
    BY <1>1, <2>1
  <2> QED
    BY SMTT(60), <1>1, <1>3, <2>1, <2>2 DEF Earlier
<1> QED
  BY <1>3, <1>4

\* Nothing comes before the first place, and no place before itself.
LEMMA NoneEarlier ==
  ASSUME NEW c, c[1] \in Nat, c[2] \in Nat, c[3] \in Nat
  PROVE  ~Earlier(c, Origin) /\ ~Earlier(c, c)
  BY DEF Earlier, Origin

\* The vertices are numbered in the order of their nest.
LEMMA NodeFollows ==
  ASSUME NEW s \in Dims, NEW c \in Box(s)
  PROVE  /\ After(c, s) # <<>> => NodeOf(s, After(c, s)) = NodeOf(s, c) + 1
         /\ After(c, s) = <<>> => NodeOf(s, c) + 1 = BoxSize(s)
<1> DEFINE X == s[1]
           Y == s[2]
           Z == s[3]
           x == c[1]
           y == c[2]
           z == c[3]
<1>1. /\ x \in Nat /\ y \in Nat /\ z \in Nat /\ X \in Nat /\ Y \in Nat /\ Z \in Nat
      /\ x < X /\ y < Y /\ z < Z
  BY DEF Dims, Box
<1>2. /\ \A p, q, r : NodeOf(s, <<p, q, r>>) = p * Y * Z + q * Z + r
      /\ NodeOf(s, c) = x * Y * Z + y * Z + z
      /\ BoxSize(s) = X * Y * Z
  BY DEF NodeOf, BoxSize
<1>3. After(c, s) = IF z + 1 < Z THEN <<x, y, z + 1>>
                    ELSE IF y + 1 < Y THEN <<x, y + 1, 0>>
                    ELSE IF x + 1 < X THEN <<x + 1, 0, 0>> ELSE <<>>
  BY DEF After
<1>4. /\ x * Y \in Nat /\ (x * Y) * Z \in Nat /\ y * Z \in Nat /\ Y * Z \in Nat
      /\ (x + 1) * Y = x * Y + Y /\ (y + 1) * Z = y * Z + Z
      /\ (x * Y + Y) * Z = (x * Y) * Z + Y * Z
  <2> HIDE DEF X, Y, Z, x, y, z
  <2>1. \A a, b, w \in Nat : (a + b) * w = a * w + b * w
    OBVIOUS
  <2>2. x * Y \in Nat /\ y * Z \in Nat /\ Y * Z \in Nat
    BY <1>1, ProductNat
  <2>3. (x * Y) * Z \in Nat
    BY <1>1, <2>2, ProductNat
  <2>4. (x + 1) * Y = x * Y + Y /\ (y + 1) * Z = y * Z + Z
    BY <1>1, ProductNext
  <2> QED
    BY <1>1, <2>1, <2>2, <2>3, <2>4
<1> HIDE DEF X, Y, Z, x, y, z
<1>5. CASE z + 1 < Z
  <2>1. After(c, s) = <<x, y, z + 1>>
    BY <1>3, <1>5
  <2>2. After(c, s) # <<>>
    BY <2>1
  <2>3. NodeOf(s, After(c, s)) = x * Y * Z + y * Z + (z + 1)
    BY <1>2, <2>1
  <2> QED
    BY <1>1, <1>2, <1>4, <2>2, <2>3
<1>6. CASE ~(z + 1 < Z) /\ y + 1 < Y
  <2>1. After(c, s) = <<x, y + 1, 0>>
    BY <1>3, <1>6
  <2>2. After(c, s) # <<>>
    BY <2>1
  <2>3. NodeOf(s, After(c, s)) = x * Y * Z + (y + 1) * Z + 0
    BY <1>2, <2>1
  <2> QED
    BY <1>1, <1>2, <1>4, <1>6, <2>2, <2>3
<1>7. CASE ~(z + 1 < Z) /\ ~(y + 1 < Y)
  <2>1. z + 1 = Z /\ y + 1 = Y
    BY <1>1, <1>7
  <2>2. NodeOf(s, c) + 1 = (x + 1) * Y * Z
    <3>1. Y * Z = y * Z + Z
      BY <1>4, <2>1
    <3>2. (x + 1) * Y * Z = (x * Y) * Z + Y * Z
      BY <1>4
    <3> QED
      BY <1>1, <1>2, <1>4, <2>1, <3>1, <3>2
  <2>3. CASE x + 1 < X
    <3>1. After(c, s) = <<x + 1, 0, 0>>
      BY <1>3, <1>7, <2>3
    <3>2. After(c, s) # <<>>
      BY <3>1
    <3>3. NodeOf(s, After(c, s)) = (x + 1) * Y * Z + 0 * Z + 0
      BY <1>2, <3>1
    <3>4. (x + 1) * Y * Z \in Nat
      BY <1>4
    <3> QED
      BY <1>1, <2>2, <3>2, <3>3, <3>4
  <2>4. CASE ~(x + 1 < X)
    <3>1. After(c, s) = <<>> /\ x + 1 = X
      BY <1>1, <1>3, <1>7, <2>4
    <3> QED
      BY <1>2, <2>2, <3>1
  <2> QED
    BY <2>3, <2>4
<1> QED
  BY <1>5, <1>6, <1>7

-----------------------------------------------------------------------------

\* One step along an axis.
LEMMA StepIs ==
  ASSUME NEW c, NEW x \in Nat, NEW y \in Nat, NEW z \in Nat, c = <<x, y, z>>
  PROVE  /\ Step(c, 1) = <<x + 1, y, z>>
         /\ Step(c, 2) = <<x, y + 1, z>>
         /\ Step(c, 3) = <<x, y, z + 1>>
  BY DEF Step

\* Two axes lead to two places.
LEMMA StepUnique ==
  ASSUME NEW c, c[1] \in Nat, c[2] \in Nat, c[3] \in Nat, c = <<c[1], c[2], c[3]>>,
         NEW a \in 1..3, NEW b \in 1..3, Step(c, a) = Step(c, b)
  PROVE  a = b
<1> DEFINE x == c[1]
           y == c[2]
           z == c[3]
<1>1. x \in Nat /\ y \in Nat /\ z \in Nat /\ c = <<x, y, z>>
  OBVIOUS
<1> HIDE DEF x, y, z
<1>2. /\ Step(c, 1) = <<x + 1, y, z>> /\ Step(c, 2) = <<x, y + 1, z>>
      /\ Step(c, 3) = <<x, y, z + 1>>
  BY <1>1, StepIs
<1>3. /\ <<x + 1, y, z>> # <<x, y + 1, z>> /\ <<x + 1, y, z>> # <<x, y, z + 1>>
      /\ <<x, y + 1, z>> # <<x, y, z + 1>>
  BY <1>1
<1>4. a \in {1, 2, 3} /\ b \in {1, 2, 3}
  OBVIOUS
<1> QED
  BY <1>2, <1>3, <1>4

\* The places a nest visits are those that have a neighbour along its axis.
LEMMA LimitsAre ==
  ASSUME NEW s \in Dims, NEW a \in 1..3
  PROVE  /\ \A x \in 1..3 : LimitsOf(s, a)[x] = IF x = a THEN s[x] - 1 ELSE s[x]
         /\ \A x \in 1..3 : LimitsOf(s, a)[x] \in Nat
         /\ \A c \in Box(s) : Step(c, a) \in Box(s) <=> c \in Box(LimitsOf(s, a))
         /\ Box(LimitsOf(s, a)) \subseteq Box(s)
<1>1. \A x \in 1..3 : LimitsOf(s, a)[x] = IF x = a THEN s[x] - 1 ELSE s[x]
  BY DEF LimitsOf
<1>2. s[1] \in Nat \ {0} /\ s[2] \in Nat \ {0} /\ s[3] \in Nat \ {0}
  BY DEF Dims
<1>3. \A x \in 1..3 : LimitsOf(s, a)[x] \in Nat
  <2>1. \A x \in 1..3 : s[x] \in Nat \ {0}
    BY <1>2
  <2> QED
    BY <1>1, <2>1
<1> DEFINE L == LimitsOf(s, a)
<1>4. /\ L[1] \in Nat /\ L[2] \in Nat /\ L[3] \in Nat
      /\ L[1] = IF a = 1 THEN s[1] - 1 ELSE s[1]
      /\ L[2] = IF a = 2 THEN s[2] - 1 ELSE s[2]
      /\ L[3] = IF a = 3 THEN s[3] - 1 ELSE s[3]
  BY <1>1, <1>3
<1> HIDE DEF L
<1>5. ASSUME NEW c \in Box(s)
      PROVE  Step(c, a) \in Box(s) <=> c \in Box(L)
  <2> DEFINE x == c[1]
             y == c[2]
             z == c[3]
  <2>1. /\ c = <<x, y, z>> /\ x \in Nat /\ y \in Nat /\ z \in Nat
        /\ x < s[1] /\ y < s[2] /\ z < s[3]
    BY <1>2, Places
  <2> HIDE DEF x, y, z
  <2>2. /\ Step(c, 1) = <<x + 1, y, z>> /\ Step(c, 2) = <<x, y + 1, z>>
        /\ Step(c, 3) = <<x, y, z + 1>>
    BY <2>1, StepIs
  <2>3. c \in Box(L) <=> x < L[1] /\ y < L[2] /\ z < L[3]
    BY <1>4, <2>1 DEF Box
  <2>4. /\ <<x + 1, y, z>> \in Box(s) <=> x + 1 < s[1]
        /\ <<x, y + 1, z>> \in Box(s) <=> y + 1 < s[2]
        /\ <<x, y, z + 1>> \in Box(s) <=> z + 1 < s[3]
    BY <1>2, <2>1 DEF Box
  <2>5. CASE a = 1
    BY <1>2, <1>4, <2>1, <2>2, <2>3, <2>4, <2>5
  <2>6. CASE a = 2
    BY <1>2, <1>4, <2>1, <2>2, <2>3, <2>4, <2>6
  <2>7. CASE a = 3
    BY <1>2, <1>4, <2>1, <2>2, <2>3, <2>4, <2>7
  <2> QED
    BY <2>5, <2>6, <2>7
<1>6. ASSUME NEW c \in Box(L) PROVE c \in Box(s)
  <2>1. /\ c = <<c[1], c[2], c[3]>> /\ c[1] \in Nat /\ c[2] \in Nat /\ c[3] \in Nat
        /\ c[1] < L[1] /\ c[2] < L[2] /\ c[3] < L[3]
    BY <1>4, Places
  <2>2. c[1] < s[1] /\ c[2] < s[2] /\ c[3] < s[3]
    BY <1>2, <1>4, <2>1
  <2> QED
    BY <1>2, <2>1, <2>2, Places
<1> QED
  BY <1>1, <1>3, <1>5, <1>6 DEF L

\* The place a nest visits adds one link that was not there.
LEMMA Visits ==
  ASSUME NEW s \in Dims, NEW a \in 1..3, NEW c \in Box(LimitsOf(s, a))
  PROVE  /\ <<c, Step(c, a)>> \in BoxLinks(s)
         /\ <<c, Step(c, a)>> \notin Added(s, a, c)
         /\ After(c, LimitsOf(s, a)) # <<>> =>
              Added(s, a, After(c, LimitsOf(s, a))) = Added(s, a, c) \cup {<<c, Step(c, a)>>}
         /\ After(c, LimitsOf(s, a)) = <<>> =>
              Added(s, a + 1, Origin) = Added(s, a, c) \cup {<<c, Step(c, a)>>}
<1> DEFINE L == LimitsOf(s, a)
           q == <<c, Step(c, a)>>
<1>1. c \in Box(s) /\ Step(c, a) \in Box(s)
  BY LimitsAre
<1>2. /\ s[1] \in Nat /\ s[2] \in Nat /\ s[3] \in Nat
      /\ L[1] \in Nat /\ L[2] \in Nat /\ L[3] \in Nat
  BY LimitsAre DEF Dims
<1>3. \A b \in Box(s) : /\ b[1] \in Nat /\ b[2] \in Nat /\ b[3] \in Nat
                        /\ b = <<b[1], b[2], b[3]>>
  BY <1>2, Places
<1>4. q \in BoxLinks(s)
  BY <1>1 DEF BoxLinks
<1>5. q \notin Added(s, a, c)
  <2> SUFFICES ASSUME NEW b \in 1..3, Step(c, a) = Step(c, b),
                      b < a \/ (b = a /\ Earlier(c, c))
               PROVE  FALSE
    BY DEF Added
  <2>1. a = b
    BY <1>1, <1>3, StepUnique
  <2> QED
    BY <1>1, <1>3, <2>1, NoneEarlier
<1>6. ASSUME NEW p \in BoxLinks(s), NEW b \in 1..3, p[2] = Step(p[1], b)
      PROVE  /\ p[1] \in Box(s) /\ p[2] \in Box(s) /\ p = <<p[1], p[2]>>
             /\ p[1] \in Box(LimitsOf(s, b))
             /\ p = q <=> b = a /\ p[1] = c
  <2>1. p[1] \in Box(s) /\ p[2] \in Box(s) /\ p = <<p[1], p[2]>>
    BY DEF BoxLinks
  <2>2. p[1] \in Box(LimitsOf(s, b))
    BY <1>6, <2>1, LimitsAre
  <2>3. p = q => b = a /\ p[1] = c
    <3> SUFFICES ASSUME p = q PROVE b = a /\ p[1] = c
      OBVIOUS
    <3>1. p[1] = c /\ Step(c, b) = Step(c, a)
      BY <1>6
    <3> QED
      BY <1>1, <1>3, <3>1, StepUnique
  <2>4. b = a /\ p[1] = c => p = q
    BY <1>6, <2>1
  <2> QED
    BY <2>1, <2>2, <2>3, <2>4
<1>7. ASSUME NEW u \in Nat, NEW d,
             \A p \in BoxLinks(s), b \in 1..3 : p[2] = Step(p[1], b) =>
               ((b < u \/ (b = u /\ Earlier(p[1], d))) <=>
                (b < a \/ (b = a /\ (Earlier(p[1], c) \/ p[1] = c))))
      PROVE  Added(s, u, d) = Added(s, a, c) \cup {q}
  <2> HIDE DEF q
  <2>1. ASSUME NEW p \in Added(s, u, d) PROVE p \in Added(s, a, c) \cup {q}
    <3>1. PICK b \in 1..3 : /\ p[2] = Step(p[1], b)
                            /\ b < u \/ (b = u /\ Earlier(p[1], d))
      BY DEF Added
    <3>2. p \in BoxLinks(s)
      BY DEF Added
    <3>3. b < a \/ (b = a /\ (Earlier(p[1], c) \/ p[1] = c))
      BY <1>7, <3>1, <3>2
    <3>4. p = q <=> b = a /\ p[1] = c
      BY <1>6, <3>1, <3>2
    <3> QED
      BY <3>1, <3>2, <3>3, <3>4 DEF Added
  <2>2. ASSUME NEW p \in Added(s, a, c) PROVE p \in Added(s, u, d)
    <3>1. PICK b \in 1..3 : /\ p[2] = Step(p[1], b)
                            /\ b < a \/ (b = a /\ Earlier(p[1], c))
      BY DEF Added
    <3>2. p \in BoxLinks(s)
      BY DEF Added
    <3> QED
      BY <1>7, <3>1, <3>2 DEF Added
  <2>3. q \in Added(s, u, d)
    <3>1. q[2] = Step(q[1], a) /\ q[1] = c
      BY DEF q
    <3> QED
      BY <1>4, <1>7, <3>1 DEF Added
  <2> QED
    BY <2>1, <2>2, <2>3
<1>8. ASSUME After(c, L) # <<>>
      PROVE  Added(s, a, After(c, L)) = Added(s, a, c) \cup {q}
  <2>1. \A b \in Box(L) : Earlier(b, After(c, L)) <=> Earlier(b, c) \/ b = c
    BY <1>2, <1>8, AfterFollows
  <2>2. ASSUME NEW p \in BoxLinks(s), NEW b \in 1..3, p[2] = Step(p[1], b)
        PROVE  (b < a \/ (b = a /\ Earlier(p[1], After(c, L)))) <=>
               (b < a \/ (b = a /\ (Earlier(p[1], c) \/ p[1] = c)))
    <3>1. p[1] \in Box(LimitsOf(s, b))
      BY <1>6, <2>2
    <3> QED
      BY <2>1, <3>1
  <2> QED
    BY <1>7, <2>2
<1>9. ASSUME After(c, L) = <<>>
      PROVE  Added(s, a + 1, Origin) = Added(s, a, c) \cup {q}
  <2>1. \A b \in Box(L) : Earlier(b, c) \/ b = c
    BY <1>2, <1>9, AfterLast
  <2>2. ASSUME NEW p \in BoxLinks(s), NEW b \in 1..3, p[2] = Step(p[1], b)
        PROVE  (b < a + 1 \/ (b = a + 1 /\ Earlier(p[1], Origin))) <=>
               (b < a \/ (b = a /\ (Earlier(p[1], c) \/ p[1] = c)))
    <3>1. p[1] \in Box(LimitsOf(s, b)) /\ p[1] \in Box(s)
      BY <1>6, <2>2
    <3>2. ~Earlier(p[1], Origin)
      BY <1>3, <3>1, NoneEarlier
    <3>3. b = a => (Earlier(p[1], c) \/ p[1] = c)
      BY <2>1, <3>1
    <3> QED
      BY <3>2, <3>3
  <2> QED
    BY <1>7, <2>2
<1> QED
  BY <1>4, <1>5, <1>8, <1>9

\* The nests that are skipped, because the box is one place wide along their
\* axis, have no link to add.
LEMMA NestSkipped ==
  ASSUME shape \in Dims, NEW a \in 1..4
  PROVE  /\ FirstNest(a) \in a..4
         /\ FirstNest(a) # 4 => shape[FirstNest(a)] > 1
         /\ Added(shape, FirstNest(a), Origin) = Added(shape, a, Origin)
<1>1. shape[1] \in Nat \ {0} /\ shape[2] \in Nat \ {0} /\ shape[3] \in Nat \ {0}
  BY DEF Dims
<1>2. \A x \in 1..3 : shape[x] \in Nat \ {0}
  BY <1>1
<1>3. /\ FirstNest(a) \in a..4
      /\ FirstNest(a) # 4 => shape[FirstNest(a)] > 1
      /\ \A x \in a..(FirstNest(a) - 1) : shape[x] = 1
  <2>1. CASE \E b \in a..3 : shape[b] > 1
    <3>1. \E b \in a..3 : shape[b] > 1 /\ \A x \in a..(b - 1) : shape[x] = 1
      <4>1. a \in {1, 2, 3}
        BY <2>1
      <4>2. CASE shape[a] > 1
        BY <4>1, <4>2
      <4>3. CASE shape[a] = 1 /\ a + 1 \in 1..3 /\ shape[a + 1] > 1
        BY <4>1, <4>3
      <4>4. CASE shape[a] = 1 /\ a = 1 /\ shape[2] = 1
        BY <2>1, <4>4
      <4>5. CASE shape[a] = 1 /\ a = 2 /\ shape[3] = 1
        BY <2>1, <4>5
      <4>6. CASE shape[a] = 1 /\ a = 3
        BY <2>1, <4>6
      <4> QED
        BY <1>1, <4>1, <4>2, <4>3, <4>4, <4>5, <4>6
    <3> DEFINE P(b) == shape[b] > 1 /\ \A x \in a..(b - 1) : shape[x] = 1
    <3>2. FirstNest(a) = CHOOSE b \in a..3 : P(b)
      BY <2>1 DEF FirstNest
    <3>3. FirstNest(a) \in a..3 /\ P(FirstNest(a))
      <4>1. \E b \in a..3 : P(b)
        BY <3>1
      <4> HIDE DEF P
      <4> QED
        BY <3>2, <4>1
    <3> QED
      BY <3>3
  <2>2. CASE ~\E b \in a..3 : shape[b] > 1
    <3>1. FirstNest(a) = 4
      BY <2>2 DEF FirstNest
    <3>2. \A x \in a..3 : x \in 1..3
      OBVIOUS
    <3>3. \A x \in a..3 : shape[x] = 1
      BY <1>2, <2>2, <3>2
    <3> QED
      BY <3>1, <3>3
  <2> QED
    BY <2>1, <2>2
<1>4. ASSUME NEW p \in BoxLinks(shape), NEW b \in 1..3, p[2] = Step(p[1], b)
      PROVE  (b < FirstNest(a) \/ (b = FirstNest(a) /\ Earlier(p[1], Origin))) <=>
             (b < a \/ (b = a /\ Earlier(p[1], Origin)))
  <2>1. p[1] \in Box(shape) /\ p[2] \in Box(shape)
    BY DEF BoxLinks
  <2>2. /\ p[1][1] \in Nat /\ p[1][2] \in Nat /\ p[1][3] \in Nat
        /\ p[1] = <<p[1][1], p[1][2], p[1][3]>>
    BY <1>1, <2>1, Places
  <2>3. ~Earlier(p[1], Origin)
    BY <2>2, NoneEarlier
  <2>4. shape[b] # 1
    <3> SUFFICES ASSUME shape[b] = 1 PROVE FALSE
      OBVIOUS
    <3> DEFINE L == LimitsOf(shape, b)
    <3>1. p[1] \in Box(L) /\ L[b] = 0
      BY <1>4, <2>1, LimitsAre
    <3>2. L[1] \in Nat /\ L[2] \in Nat /\ L[3] \in Nat
      BY LimitsAre
    <3> HIDE DEF L
    <3>3. p[1][1] < L[1] /\ p[1][2] < L[2] /\ p[1][3] < L[3]
      BY <3>1, <3>2, Places
    <3>4. b \in {1, 2, 3}
      OBVIOUS
    <3> QED
      BY <2>2, <3>1, <3>3, <3>4
  <2>5. ~(b \in a..(FirstNest(a) - 1))
    BY <1>3, <2>4, Zenon
  <2>6. FirstNest(a) \in Nat /\ a <= FirstNest(a)
    BY <1>3
  <2> QED
    BY <2>3, <2>5, <2>6
<1>5. Added(shape, FirstNest(a), Origin) = Added(shape, a, Origin)
  <2> DEFINE n == FirstNest(a)
  <2>1. \A p \in BoxLinks(shape), b \in 1..3 : p[2] = Step(p[1], b) =>
          ((b < n \/ (b = n /\ Earlier(p[1], Origin))) <=>
           (b < a \/ (b = a /\ Earlier(p[1], Origin))))
    BY <1>4
  <2> HIDE DEF n
  <2>2. ASSUME NEW p \in BoxLinks(shape)
        PROVE  (\E b \in 1..3 : p[2] = Step(p[1], b) /\ (b < n \/ (b = n /\ Earlier(p[1], Origin))))
               <=> (\E b \in 1..3 : p[2] = Step(p[1], b) /\ (b < a \/ (b = a /\ Earlier(p[1], Origin))))
    BY <2>1, Zenon
  <2>3. Added(shape, n, Origin) = Added(shape, a, Origin)
    BY <2>2, Zenon DEF Added
  <2> QED
    BY <2>3 DEF n
<1> QED
  BY <1>3, <1>5

\* A nest starts at a place it visits, and before it nothing is added.
LEMMA BoxStarts ==
  ASSUME NEW s \in Dims
  PROVE  /\ Origin \in Box(s) /\ NodeOf(s, Origin) = 0
         /\ \A a \in 1..3 : s[a] > 1 => Origin \in Box(LimitsOf(s, a))
         /\ \A d : Added(s, 0, d) = {}
         /\ Added(s, 1, Origin) = {}
         /\ Added(s, 4, Origin) = BoxLinks(s)
<1>1. s[1] \in Nat \ {0} /\ s[2] \in Nat \ {0} /\ s[3] \in Nat \ {0}
  BY DEF Dims
<1>2. Origin \in Box(s)
  BY <1>1 DEF Box, Origin
<1>3. NodeOf(s, Origin) = 0
  <2>1. \A w \in Nat : 0 * w = 0
    OBVIOUS
  <2> QED
    BY <1>1, <2>1 DEF NodeOf, Origin
<1>4. ASSUME NEW a \in 1..3, s[a] > 1
      PROVE  Origin \in Box(LimitsOf(s, a))
  <2> DEFINE L == LimitsOf(s, a)
  <2>1. \A x \in 1..3 : s[x] \in Nat \ {0}
    BY <1>1
  <2>2. \A x \in 1..3 : L[x] \in Nat /\ L[x] = IF x = a THEN s[x] - 1 ELSE s[x]
    BY LimitsAre
  <2> HIDE DEF L
  <2>3. \A x \in 1..3 : L[x] \in Nat \ {0}
    BY <1>4, <2>1, <2>2
  <2>4. L[1] \in Nat \ {0} /\ L[2] \in Nat \ {0} /\ L[3] \in Nat \ {0}
    BY <2>3
  <2>5. Origin \in Box(L)
    BY <2>4 DEF Box, Origin
  <2> QED
    BY <2>5 DEF L
<1>5. \A d : Added(s, 0, d) = {}
  BY DEF Added
<1>6. ASSUME NEW p \in BoxLinks(s) PROVE ~Earlier(p[1], Origin)
  <2>1. p[1] \in Box(s)
    BY DEF BoxLinks
  <2>2. p[1][1] \in Nat /\ p[1][2] \in Nat /\ p[1][3] \in Nat
    BY <1>1, <2>1, Places
  <2> QED
    BY <2>2, NoneEarlier
<1>7. Added(s, 1, Origin) = {}
  BY <1>6 DEF Added
<1>8. Added(s, 4, Origin) = BoxLinks(s)
  <2>1. \A p \in BoxLinks(s) : \E a \in 1..3 : p[2] = Step(p[1], a)
    BY DEF BoxLinks
  <2>2. \A a \in 1..3 : a < 4
    OBVIOUS
  <2> QED
    BY <2>1, <2>2, Zenon DEF Added
<1> QED
  BY <1>2, <1>3, <1>4, <1>5, <1>7, <1>8

-----------------------------------------------------------------------------

\* createBox starts with empty maps and the first vertex ahead of it.
LEMMA InitInv == Init => Inv
<1> SUFFICES ASSUME Init PROVE Inv
  OBVIOUS
<1>1. shape \in Dims
  BY ShapesAssumption DEF Init, Dims
<1>2. InNest
  <2>1. before \in [{"v", "e"} -> Nat]
    BY MaxBeforeAssumption DEF Init
  <2> QED
    BY <1>1, <2>1, BoxStarts DEF Init, InNest
<1>3. RefsInOrder
  BY <1>1, BoxStarts DEF Init, RefsInOrder, BoxSize
<1>4. EdgesForLinks
  <2>1. Added(shape, axis, at) = {} /\ edges = <<>>
    BY <1>1, BoxStarts DEF Init
  <2>2. edges \in Seq(Nat \X Nat) /\ Len(edges) = 0
    BY <2>1
  <2> QED
    BY <2>1, <2>2, FS_EmptySet DEF EdgesForLinks
<1> QED
  BY <1>2, <1>3, <1>4 DEF Inv

\* Move stays in a nest, or enters the next one that has an iteration.
LEMMA MoveInNest ==
  ASSUME InNest, axis \in 0..3, UNCHANGED <<shape, before>>, NEW lim,
         lim = (IF axis = 0 THEN shape ELSE LimitsOf(shape, axis)), Move(lim)
  PROVE  /\ InNest'
         /\ at \in Box(lim)
         /\ After(at, lim) # <<>> => at' = After(at, lim) /\ axis' = axis
         /\ After(at, lim) = <<>> =>
              /\ at' = Origin /\ axis' = FirstNest(axis + 1) /\ axis' \in 1..4
              /\ Added(shape, axis', at') = Added(shape, axis + 1, Origin)
<1>1. /\ lim[1] \in Nat /\ lim[2] \in Nat /\ lim[3] \in Nat /\ at \in Box(lim)
      /\ shape \in Dims
  <2>1. CASE axis = 0
    BY <2>1 DEF InNest, Dims
  <2>2. CASE axis # 0
    <3>1. axis \in 1..3 /\ lim = LimitsOf(shape, axis) /\ shape \in Dims
      BY <2>2 DEF InNest
    <3>2. \A x \in 1..3 : lim[x] \in Nat
      BY <3>1, LimitsAre
    <3> QED
      BY <3>1, <3>2 DEF InNest
  <2> QED
    BY <2>1, <2>2
<1>2. CASE After(at, lim) # <<>>
  <2>1. at' = After(at, lim) /\ axis' = axis
    BY <1>2 DEF Move
  <2>2. at' \in Box(lim)
    BY <1>1, <1>2, <2>1, AfterFollows
  <2> QED
    BY <1>1, <1>2, <2>1, <2>2 DEF InNest
<1>3. CASE After(at, lim) = <<>>
  <2>1. at' = Origin /\ axis' = FirstNest(axis + 1)
    BY <1>3 DEF Move
  <2>2. axis + 1 \in 1..4
    OBVIOUS
  <2>3. /\ axis' \in (axis + 1)..4
        /\ axis' # 4 => shape[axis'] > 1
        /\ Added(shape, axis', at') = Added(shape, axis + 1, Origin)
    BY <1>1, <2>1, <2>2, NestSkipped
  <2>4. axis' \in 1..4
    BY <2>3
  <2>5. axis' # 4 => axis' \in 1..3 /\ Origin \in Box(LimitsOf(shape, axis'))
    BY <1>1, <2>3, <2>4, BoxStarts
  <2> QED
    BY <1>1, <1>3, <2>1, <2>3, <2>4, <2>5 DEF InNest
<1> QED
  BY <1>1, <1>2, <1>3

\* A vertex goes into the slot of its place, with the next ident.
LEMMA AddVertexInv ==
  ASSUME Inv, AddVertex
  PROVE  Inv'
<1>1. /\ axis = 0 /\ InNest /\ shape' = shape /\ before' = before
      /\ edges' = edges /\ coords2edges' = coords2edges /\ Move(shape)
      /\ shape \in Dims /\ before \in [{"v", "e"} -> Nat]
  BY DEF AddVertex, Inv, InNest
<1>2. /\ InNest' /\ at \in Box(shape)
      /\ After(at, shape) # <<>> => at' = After(at, shape) /\ axis' = axis
      /\ After(at, shape) = <<>> =>
           /\ at' = Origin /\ axis' = FirstNest(axis + 1) /\ axis' \in 1..4
           /\ Added(shape, axis', at') = Added(shape, axis + 1, Origin)
  <2>1. axis \in 0..3 /\ shape = (IF axis = 0 THEN shape ELSE LimitsOf(shape, axis))
    BY <1>1
  <2> QED
    BY <1>1, <2>1, MoveInNest
<1> DEFINE n == NodeOf(shape, at)
           v == before["v"]
           N == BoxSize(shape)
<1>3. n \in 0..(N - 1) /\ v \in Nat /\ N \in Nat
  <2>1. n \in 0..(N - 1) /\ v \in Nat
    BY <1>1, <1>2, NodeUnique
  <2>2. shape[1] \in Nat /\ shape[2] \in Nat /\ shape[3] \in Nat
    BY <1>1 DEF Dims
  <2>3. shape[1] * shape[2] \in Nat
    BY <2>2, ProductNat
  <2>4. (shape[1] * shape[2]) * shape[3] \in Nat
    BY <2>2, <2>3, ProductNat
  <2> QED
    BY <2>1, <2>4 DEF BoxSize
<1>4. refs = [i \in 1..N |-> IF i <= n THEN v + i - 1 ELSE -1]
  BY <1>1 DEF Inv, RefsInOrder
<1>5. Node(at) = n
  BY DEF Node, NodeOf, nY, nZ
<1>6. /\ \A i \in 1..N : refs[i] = IF i <= n THEN v + i - 1 ELSE -1
      /\ DOMAIN refs = 1..N
  BY <1>4
<1>7. Cardinality({i \in DOMAIN refs : refs[i] # -1}) = n
  <2> HIDE DEF n, v, N
  <2>1. {i \in DOMAIN refs : refs[i] # -1} = 1..n
    <3>1. ASSUME NEW i \in 1..N PROVE refs[i] # -1 <=> i <= n
      BY <1>3, <1>6
    <3>2. {i \in 1..N : refs[i] # -1} = {i \in 1..N : i <= n}
      BY <3>1
    <3>3. {i \in 1..N : i <= n} = 1..n
      BY <1>3
    <3> QED
      BY <1>6, <3>2, <3>3
  <2>2. n \in Int /\ 1 \in Int
    BY <1>3
  <2>3. Cardinality(1..n) = IF 1 > n THEN 0 ELSE n - 1 + 1
    BY <2>2, FS_Interval
  <2>4. Cardinality(1..n) = n
    BY <1>3, <2>3
  <2> QED
    BY <2>1, <2>4, Zenon
<1>8. refs' = [i \in 1..N |-> IF i <= n + 1 THEN v + i - 1 ELSE -1]
  <2>1. refs' = [refs EXCEPT ![n + 1] = v + n]
    BY <1>5, <1>7 DEF AddVertex
  <2> HIDE DEF n, v, N
  <2>2. refs' = [i \in DOMAIN refs |-> IF i = n + 1 THEN v + n ELSE refs[i]]
    BY <2>1, ZenonT(60)
  <2>3. \A i \in 1..N : (IF i = n + 1 THEN v + n ELSE refs[i]) =
                        (IF i <= n + 1 THEN v + i - 1 ELSE -1)
    BY <1>3, <1>6
  <2> QED
    BY <1>6, <2>2, <2>3
<1>9. RefsInOrder'
  <2>1. CASE After(at, shape) # <<>>
    <3>1. axis' = 0 /\ NodeOf(shape, at') = n + 1
      BY <1>1, <1>2, <2>1, NodeFollows
    <3> QED
      BY <1>1, <1>8, <3>1 DEF RefsInOrder
  <2>2. CASE After(at, shape) = <<>>
    <3>1. axis' # 0 /\ n + 1 = N
      BY <1>1, <1>2, <2>2, NodeFollows
    <3>2. refs' = [i \in 1..N |-> v + i - 1]
      <4> HIDE DEF n, v, N
      <4> QED
        BY <1>3, <1>8, <3>1
    <3> QED
      BY <1>1, <3>1, <3>2 DEF RefsInOrder
  <2> QED
    BY <2>1, <2>2
<1>10. Added(shape, axis', at') = {} /\ Added(shape, axis, at) = {}
  BY <1>1, <1>2, BoxStarts
<1>11. EdgesForLinks'
  <2>1. EdgesForLinks
    BY DEF Inv
  <2> QED
    BY <1>1, <1>10, <2>1 DEF EdgesForLinks
<1> QED
  BY <1>2, <1>9, <1>11 DEF Inv

\* Once the vertices are there, refs has the ident of every place.
LEMMA RefsAreIdents ==
  ASSUME Inv, axis # 0, NEW c \in Box(shape)
  PROVE  /\ refs[Node(c) + 1] = Ident(c) /\ Ident(c) \in Nat
         /\ \A d \in Box(shape) : Ident(c) = Ident(d) => c = d
<1> DEFINE n == NodeOf(shape, c)
           v == before["v"]
           N == BoxSize(shape)
<1>1. shape \in Dims /\ v \in Nat
  BY DEF Inv, InNest
<1>2. n \in 0..(N - 1)
  BY <1>1, NodeUnique
<1>3. refs = [i \in 1..N |-> v + i - 1]
  BY DEF Inv, RefsInOrder
<1>4. Node(c) = n
  BY DEF Node, NodeOf, nY, nZ
<1>5. N \in Nat
  <2>1. shape[1] \in Nat /\ shape[2] \in Nat /\ shape[3] \in Nat
    BY <1>1 DEF Dims
  <2>2. shape[1] * shape[2] \in Nat
    BY <2>1, ProductNat
  <2>3. (shape[1] * shape[2]) * shape[3] \in Nat
    BY <2>1, <2>2, ProductNat
  <2> QED
    BY <2>3 DEF BoxSize
<1>6. refs[Node(c) + 1] = v + n /\ v + n \in Nat
  <2> HIDE DEF n, v, N
  <2>1. n + 1 \in 1..N
    BY <1>2, <1>5
  <2>2. refs[n + 1] = v + (n + 1) - 1
    BY <1>3, <2>1
  <2> QED
    BY <1>1, <1>2, <1>4, <2>2
<1>7. ASSUME NEW d \in Box(shape), v + n = v + NodeOf(shape, d)
      PROVE  c = d
  <2> DEFINE m == NodeOf(shape, d)
  <2>1. m \in 0..(N - 1)
    BY <1>1, NodeUnique
  <2>2. n = m
    <3>1. v + n = v + m
      BY <1>7
    <3> HIDE DEF n, v, N, m
    <3> QED
      BY <1>1, <1>2, <1>5, <2>1, <3>1
  <2> QED
    BY <1>1, <2>2, NodeUnique
<1> QED
  BY <1>6, <1>7 DEF Ident

\* A link gets the next edge, which stays the one coords2edges has for it.
LEMMA AddEdgeInv ==
  ASSUME Inv, AddEdge
  PROVE  Inv'
<1> DEFINE lim == LimitsOf(shape, axis)
           q == <<at, Step(at, axis)>>
           done == Added(shape, axis, at)
           p1 == refs[Node(at) + 1]
           p2 == refs[Node(Step(at, axis)) + 1]
<1>1. /\ axis \in 1..3 /\ InNest /\ shape' = shape /\ before' = before /\ refs' = refs
      /\ shape \in Dims /\ before \in [{"v", "e"} -> Nat] /\ at \in Box(lim)
  BY DEF AddEdge, Inv, InNest
<1>2. /\ edges' = Append(edges, <<p1, p2>>) /\ Move(lim)
      /\ coords2edges' = {x \in coords2edges : x[1] # p1 \/ x[2] # p2}
                           \cup {<<p1, p2, before["e"] + Len(edges)>>}
  BY DEF AddEdge, Limits, LimitsOf
<1>3. /\ InNest'
      /\ After(at, lim) # <<>> => at' = After(at, lim) /\ axis' = axis
      /\ After(at, lim) = <<>> =>
           /\ at' = Origin /\ axis' = FirstNest(axis + 1) /\ axis' \in 1..4
           /\ Added(shape, axis', at') = Added(shape, axis + 1, Origin)
  <2>1. axis \in 0..3 /\ lim = (IF axis = 0 THEN shape ELSE LimitsOf(shape, axis))
    BY <1>1
  <2> QED
    BY <1>1, <1>2, <2>1, MoveInNest
<1>4. RefsInOrder'
  <2>1. axis' # 0 /\ axis # 0
    BY <1>1, <1>3
  <2> QED
    BY <1>1, <2>1 DEF Inv, RefsInOrder
<1>5. /\ q \in BoxLinks(shape) /\ q \notin done
      /\ Added(shape, axis', at') = done \cup {q}
  BY <1>1, <1>3, Visits
<1>6. /\ at \in Box(shape) /\ Step(at, axis) \in Box(shape) /\ axis # 0
      /\ q[1] = at /\ q[2] = Step(at, axis)
  BY <1>1, LimitsAre
<1>7. p1 = Ident(q[1]) /\ p2 = Ident(q[2]) /\ p1 \in Nat /\ p2 \in Nat
  BY <1>6, RefsAreIdents
<1>8. /\ edges \in Seq(Nat \X Nat) /\ IsFiniteSet(done)
      /\ Len(edges) = Cardinality(done)
      /\ \A p \in done : \E k \in 1..Len(edges) :
           /\ edges[k] = <<Ident(p[1]), Ident(p[2])>>
           /\ <<Ident(p[1]), Ident(p[2]), before["e"] + k - 1>> \in coords2edges
  BY DEF Inv, EdgesForLinks
<1>9. \A c : Ident(c)' = Ident(c)
  BY <1>1 DEF Ident
<1> DEFINE n == Len(edges)
           e == before["e"]
<1>10. n \in Nat /\ e \in Nat
  BY <1>1, <1>8
<1>11. /\ edges' \in Seq(Nat \X Nat) /\ Len(edges') = n + 1
       /\ \A k \in 1..n : edges'[k] = edges[k]
       /\ edges'[n + 1] = <<p1, p2>>
  <2> HIDE DEF p1, p2
  <2> QED
    BY <1>2, <1>7, <1>8
<1>12. IsFiniteSet(done \cup {q}) /\ Cardinality(done \cup {q}) = n + 1
  <2> HIDE DEF q, done
  <2> QED
    BY <1>5, <1>8, FS_AddElement
<1>13. ASSUME NEW p \in done \cup {q}
       PROVE  \E k \in 1..(n + 1) :
                /\ edges'[k] = <<Ident(p[1]), Ident(p[2])>>
                /\ <<Ident(p[1]), Ident(p[2]), e + k - 1>> \in coords2edges'
  <2>1. CASE p = q
    <3>1. edges'[n + 1] = <<Ident(p[1]), Ident(p[2])>>
      BY <1>7, <1>11, <2>1
    <3>2. <<Ident(p[1]), Ident(p[2]), e + (n + 1) - 1>> \in coords2edges'
      <4>1. e + (n + 1) - 1 = e + n
        BY <1>10
      <4>2. <<p1, p2, e + n>> \in coords2edges'
        BY <1>2
      <4> QED
        BY <1>7, <2>1, <4>1, <4>2
    <3>3. n + 1 \in 1..(n + 1)
      BY <1>10
    <3> QED
      BY <3>1, <3>2, <3>3
  <2>2. CASE p # q
    <3>1. p \in done
      BY <2>2
    <3>2. PICK k \in 1..n :
            /\ edges[k] = <<Ident(p[1]), Ident(p[2])>>
            /\ <<Ident(p[1]), Ident(p[2]), e + k - 1>> \in coords2edges
      BY <1>8, <3>1
    <3>3. p[1] \in Box(shape) /\ p[2] \in Box(shape) /\ p = <<p[1], p[2]>>
      BY <3>1 DEF Added, BoxLinks
    <3>4. Ident(p[1]) # p1 \/ Ident(p[2]) # p2
      <4> SUFFICES ASSUME Ident(p[1]) = Ident(q[1]), Ident(p[2]) = Ident(q[2])
                   PROVE  FALSE
        BY <1>7
      <4>1. p[1] = q[1] /\ p[2] = q[2]
        BY <1>6, <3>3, RefsAreIdents
      <4> QED
        BY <2>2, <3>3, <4>1
    <3>5. <<Ident(p[1]), Ident(p[2]), e + k - 1>> \in coords2edges'
      <4> DEFINE x == <<Ident(p[1]), Ident(p[2]), e + k - 1>>
      <4>1. x \in coords2edges /\ x[1] = Ident(p[1]) /\ x[2] = Ident(p[2])
        BY <3>2
      <4>2. x[1] # p1 \/ x[2] # p2
        BY <3>4, <4>1
      <4> HIDE DEF x, p1, p2
      <4>3. x \in coords2edges'
        BY <1>2, <4>1, <4>2
      <4> QED
        BY <4>3 DEF x
    <3>6. k \in 1..(n + 1)
      BY <1>10
    <3>7. edges'[k] = edges[k]
      BY <1>10, <1>11
    <3>8. edges[k] = <<Ident(p[1]), Ident(p[2])>>
      BY <3>2
    <3> HIDE DEF p1, p2, n, e
    <3> QED
      BY <3>5, <3>6, <3>7, <3>8
  <2> QED
    BY <2>1, <2>2
<1>14. EdgesForLinks'
  <2>1. Added(shape, axis, at)' = done \cup {q}
    BY <1>1, <1>5
  <2>2. Len(edges') = n + 1 /\ e' = e
    BY <1>1, <1>11
  <2> HIDE DEF q, done
  <2> QED
    BY <1>1, <1>9, <1>11, <1>12, <1>13, <2>1, <2>2 DEF EdgesForLinks
<1> QED
  BY <1>3, <1>4, <1>14 DEF Inv

\* Every iteration of createBox's four loop nests keeps the invariant.
LEMMA StepInv == Inv /\ [Next]_vars => Inv'
<1> SUFFICES ASSUME Inv, [Next]_vars PROVE Inv'
  OBVIOUS
<1>1. CASE AddVertex
  BY <1>1, AddVertexInv
<1>2. CASE AddEdge
  BY <1>2, AddEdgeInv
<1>3. CASE UNCHANGED vars
  BY <1>3 DEF vars, Inv, InNest, RefsInOrder, EdgesForLinks, Ident
<1> QED
  BY <1>1, <1>2, <1>3 DEF Next

\* createBox's loops keep refs in the order of the places and one edge, with
\* its entry in coords2edges, for every link they have passed.
THEOREM BoxLoopInvariant == Spec => []Inv
  BY InitInv, StepInv, PTL DEF Spec

\* In a finished box every link has its edge, and coords2edges finds it.
LEMMA FinishedBox ==
  ASSUME Inv, axis = 4
  PROVE  /\ Cells = Box(shape) /\ Lattice = BoxLinks(shape)
         /\ Len(edges) = Cardinality(BoxLinks(shape))
         /\ \A p \in BoxLinks(shape) :
              \E e \in GetEdge(refs[Node(p[1]) + 1], refs[Node(p[2]) + 1]) :
                edges[e - before["e"] + 1] = <<refs[Node(p[1]) + 1], refs[Node(p[2]) + 1]>>
<1>1. Cells = Box(shape)
  BY DEF Cells, Box, nX, nY, nZ
<1>2. Lattice = BoxLinks(shape)
  BY <1>1 DEF Lattice, BoxLinks
<1>3. Added(shape, axis, at) = BoxLinks(shape)
  BY BoxStarts DEF Inv, InNest
<1>4. /\ Len(edges) = Cardinality(BoxLinks(shape))
      /\ \A p \in BoxLinks(shape) : \E k \in 1..Len(edges) :
           /\ edges[k] = <<Ident(p[1]), Ident(p[2])>>
           /\ <<Ident(p[1]), Ident(p[2]), before["e"] + k - 1>> \in coords2edges
      /\ edges \in Seq(Nat \X Nat)
  BY <1>3 DEF Inv, EdgesForLinks
<1>5. ASSUME NEW p \in BoxLinks(shape)
      PROVE  \E e \in GetEdge(refs[Node(p[1]) + 1], refs[Node(p[2]) + 1]) :
               edges[e - before["e"] + 1] = <<refs[Node(p[1]) + 1], refs[Node(p[2]) + 1]>>
  <2>1. p[1] \in Box(shape) /\ p[2] \in Box(shape)
    BY DEF BoxLinks
  <2>2. refs[Node(p[1]) + 1] = Ident(p[1]) /\ refs[Node(p[2]) + 1] = Ident(p[2])
    BY <2>1, RefsAreIdents
  <2>3. PICK k \in 1..Len(edges) :
          /\ edges[k] = <<Ident(p[1]), Ident(p[2])>>
          /\ <<Ident(p[1]), Ident(p[2]), before["e"] + k - 1>> \in coords2edges
    BY <1>4
  <2> DEFINE e == before["e"] + k - 1
  <2>4. before["e"] \in Nat /\ k \in Nat /\ e - before["e"] + 1 = k
    BY <1>4 DEF Inv, InNest
  <2>5. e \in GetEdge(Ident(p[1]), Ident(p[2]))
    <3> DEFINE x == <<Ident(p[1]), Ident(p[2]), e>>
    <3>1. x \in coords2edges /\ x[1] = Ident(p[1]) /\ x[2] = Ident(p[2]) /\ x[3] = e
      BY <2>3
    <3> HIDE DEF x, e
    <3> QED
      BY <3>1 DEF GetEdge
  <2> QED
    BY <2>2, <2>3, <2>4, <2>5
<1> QED
  BY <1>1, <1>2, <1>4, <1>5

\* For every shape: a finished box has one edge for each pair of neighbouring
\* places, getEdge finds that edge by its vertices, and no vertex is used for
\* two places (createBox).
THEOREM BoxAlwaysLattice == Spec => []BoxIsLattice
<1>1. Inv => BoxIsLattice
  <2> SUFFICES ASSUME Inv, axis = 4
               PROVE  /\ \A c, d \in Cells : refs[Node(c) + 1] = refs[Node(d) + 1] => c = d
                      /\ Len(edges) = Cardinality(Lattice)
                      /\ \A p \in Lattice :
                           \E e \in GetEdge(refs[Node(p[1]) + 1], refs[Node(p[2]) + 1]) :
                             edges[e - before["e"] + 1] =
                               <<refs[Node(p[1]) + 1], refs[Node(p[2]) + 1]>>
    BY DEF BoxIsLattice
  <2>1. Cells = Box(shape) /\ Lattice = BoxLinks(shape)
    BY FinishedBox
  <2>2. \A c, d \in Cells : refs[Node(c) + 1] = refs[Node(d) + 1] => c = d
    BY <2>1, RefsAreIdents
  <2> QED
    BY <2>1, <2>2, FinishedBox, Zenon
<1> QED
  BY <1>1, BoxLoopInvariant, PTL

\* For every box as deep as it is wide, vertices that are neighbours by Box's
\* operator() are linked by an edge getEdge finds: there operator() numbers
\* the places of the mirrored box.
THEOREM BoxNeighborsLinked == Spec => []NeighborsLinked
<1>1. Inv => NeighborsLinked
  <2> SUFFICES ASSUME Inv, axis = 4, nX = nZ, NEW p \in Lattice
               PROVE  GetEdge(At(p[1]), At(p[2])) # {}
    BY DEF NeighborsLinked
  <2> DEFINE M(c) == <<c[3], c[2], c[1]>>
  <2>1. p \in BoxLinks(shape) /\ p[1] \in Box(shape) /\ p[2] \in Box(shape)
    BY FinishedBox DEF BoxLinks
  <2>2. /\ shape[1] \in Nat /\ shape[2] \in Nat /\ shape[3] \in Nat
        /\ shape[1] = shape[3]
    BY DEF Inv, InNest, Dims, nX, nZ
  <2>3. ASSUME NEW c \in Box(shape)
        PROVE  /\ M(c) \in Box(shape)
               /\ At(c) = refs[Node(M(c)) + 1]
    <3>1. /\ c = <<c[1], c[2], c[3]>> /\ c[1] \in Nat /\ c[2] \in Nat /\ c[3] \in Nat
          /\ c[1] < shape[1] /\ c[2] < shape[2] /\ c[3] < shape[3]
      BY <2>2, Places
    <3>2. M(c) \in Box(shape)
      BY <2>2, <3>1, Places
    <3>3. Node(M(c)) = c[3] * nY * nX + c[2] * nX + c[1]
      BY <2>2 DEF Node, nX, nY, nZ
    <3> QED
      BY <3>2, <3>3 DEF At
  <2>4. PICK a \in 1..3 : p[2] = Step(p[1], a)
    BY <2>1 DEF BoxLinks
  <2>5. \E b \in 1..3 : M(p[2]) = Step(M(p[1]), b)
    <3> DEFINE x == p[1][1]
               y == p[1][2]
               z == p[1][3]
    <3>1. p[1] = <<x, y, z>> /\ x \in Nat /\ y \in Nat /\ z \in Nat
      BY <2>1, <2>2, Places
    <3>2. M(p[1]) = <<z, y, x>>
      OBVIOUS
    <3> HIDE DEF x, y, z
    <3>3. /\ Step(p[1], 1) = <<x + 1, y, z>> /\ Step(p[1], 2) = <<x, y + 1, z>>
          /\ Step(p[1], 3) = <<x, y, z + 1>>
      BY <3>1, StepIs
    <3>4. /\ Step(M(p[1]), 1) = <<z + 1, y, x>> /\ Step(M(p[1]), 2) = <<z, y + 1, x>>
          /\ Step(M(p[1]), 3) = <<z, y, x + 1>>
      BY <3>1, <3>2, StepIs
    <3>5. CASE a = 1
      BY <2>4, <3>3, <3>4, <3>5
    <3>6. CASE a = 2
      BY <2>4, <3>3, <3>4, <3>6
    <3>7. CASE a = 3
      BY <2>4, <3>3, <3>4, <3>7
    <3> QED
      BY <3>5, <3>6, <3>7
  <2> DEFINE r == <<M(p[1]), M(p[2])>>
  <2>6. r \in BoxLinks(shape) /\ r[1] = M(p[1]) /\ r[2] = M(p[2])
    BY <2>1, <2>3, <2>5 DEF BoxLinks
  <2>7. GetEdge(refs[Node(r[1]) + 1], refs[Node(r[2]) + 1]) # {}
    <3> HIDE DEF r
    <3> QED
      BY <2>6, FinishedBox
  <2>8. At(p[1]) = refs[Node(r[1]) + 1] /\ At(p[2]) = refs[Node(r[2]) + 1]
    BY <2>1, <2>3, <2>6
  <2> HIDE DEF r
  <2> QED
    BY <2>7, <2>8
<1> QED
  BY <1>1, BoxLoopInvariant, PTL

(***************************************************************************)
(* Grids.                                                                  *)
(***************************************************************************)

\* What holds past the last dimension and of a dimension when it holds of the
\* next holds of all.
LEMMA DownwardInduction ==
  ASSUME NEW n \in Nat, NEW S, n + 1 \in S,
         \A x \in 1..n : x + 1 \in S => x \in S
  PROVE  \A x \in 1..(n + 1) : x \in S
<1> DEFINE T == {i \in Nat : i <= n => n + 1 - i \in S}
<1>1. 0 \in T
  OBVIOUS
<1>2. ASSUME NEW i \in Nat, i \in T PROVE i + 1 \in T
  <2>1. CASE i + 1 <= n
    <3>1. n + 1 - i \in S /\ n - i \in 1..n /\ n - i + 1 = n + 1 - i
      BY <1>2, <2>1
    <3>2. n - i \in S
      BY <3>1
    <3> QED
      BY <3>2
  <2>2. CASE ~(i + 1 <= n)
    BY <2>2
  <2> QED
    BY <2>1, <2>2
<1> HIDE DEF T
<1>3. \A i \in Nat : i \in T
  BY <1>1, <1>2, InductionOnNat, Zenon
<1>4. ASSUME NEW x \in 1..(n + 1) PROVE x \in S
  <2>1. n + 1 - x \in Nat /\ n + 1 - x <= n /\ n + 1 - (n + 1 - x) = x
    OBVIOUS
  <2>2. n + 1 - x \in T
    BY <2>1, <1>3
  <2> QED
    BY <2>1, <2>2 DEF T
<1> QED
  BY <1>4

-----------------------------------------------------------------------------
(* The loop of the accessors.  h[x] is its index once it has added the     *)
(* coordinate of dimension x.                                              *)

Indices(h, start, n, size, coord) ==
  /\ h \in [1..(n + 1) -> Int]
  /\ h[n + 1] = start
  /\ \A x \in 1..n : h[x] = h[x + 1] * size[x] + coord[x]

\* The function that Accumulate defines over its first m iterations.
IsAccumulator(f, m, start, n, size, coord) ==
  f = [i \in 0..m |->
         IF i = 0 THEN start ELSE f[i - 1] * size[n + 1 - i] + coord[n + 1 - i]]

\* It exists for any number of iterations.
LEMMA AccumulatorExists ==
  ASSUME NEW start, NEW n, NEW size, NEW coord
  PROVE  \A m \in Nat : \E f : IsAccumulator(f, m, start, n, size, coord)
<1> DEFINE Turn(v, i) == v * size[n + 1 - i] + coord[n + 1 - i]
           S == {m \in Nat : \E f : IsAccumulator(f, m, start, n, size, coord)}
<1>1. 0 \in S
  <2> DEFINE f == [i \in 0..0 |-> start]
  <2>1. f = [i \in 0..0 |-> IF i = 0 THEN start ELSE Turn(f[i - 1], i)]
    <3> HIDE DEF Turn
    <3> QED
      OBVIOUS
  <2> QED
    BY <2>1, Zenon DEF IsAccumulator
<1>2. ASSUME NEW m \in Nat, m \in S PROVE m + 1 \in S
  <2>1. PICK f : IsAccumulator(f, m, start, n, size, coord)
    BY <1>2, Zenon
  <2>2. f = [i \in 0..m |-> IF i = 0 THEN start ELSE Turn(f[i - 1], i)]
    BY <2>1, Zenon DEF IsAccumulator
  <2> DEFINE g == [i \in 0..(m + 1) |-> IF i = 0 THEN start ELSE Turn(f[i - 1], i)]
  <2> HIDE DEF Turn
  <2>3. \A i \in 0..m : g[i] = f[i]
    BY <2>2
  <2>4. ASSUME NEW i \in 0..(m + 1), i # 0 PROVE g[i - 1] = f[i - 1]
    <3>1. i - 1 \in 0..m
      BY <2>4
    <3> HIDE DEF g
    <3> QED
      BY <3>1, <2>3
  <2>5. g = [i \in 0..(m + 1) |-> IF i = 0 THEN start ELSE Turn(g[i - 1], i)]
    BY <2>4
  <2>6. IsAccumulator(g, m + 1, start, n, size, coord)
    BY <2>5, Zenon DEF IsAccumulator, Turn
  <2>7. m + 1 \in Nat
    OBVIOUS
  <2> HIDE DEF g
  <2> QED
    BY <2>6, <2>7, Zenon
<1> HIDE DEF S
<1>3. \A m \in Nat : m \in S
  BY <1>1, <1>2, InductionOnNat, Zenon
<1> QED
  BY <1>3, Zenon DEF S

\* The loop over integers goes through integers and ends at the first one.
LEMMA AccumulateIs ==
  ASSUME NEW n \in Nat, NEW start \in Int, NEW size, NEW coord,
         \A x \in 1..n : size[x] \in Int /\ coord[x] \in Int
  PROVE  \E h : /\ Indices(h, start, n, size, coord)
                /\ Accumulate(start, n, size, coord) = h[1]
<1>1. PICK f : f = (CHOOSE g : IsAccumulator(g, n, start, n, size, coord))
  OBVIOUS
<1>2. IsAccumulator(f, n, start, n, size, coord)
  BY <1>1, AccumulatorExists, Zenon
<1>3. Accumulate(start, n, size, coord) = f[n]
  BY <1>1, Zenon DEF Accumulate, IsAccumulator
<1>4. f[0] = start
  BY <1>2 DEF IsAccumulator
<1>5. ASSUME NEW i \in 1..n
      PROVE  f[i] = f[i - 1] * size[n + 1 - i] + coord[n + 1 - i]
  <2>1. i \in 0..n /\ i # 0
    OBVIOUS
  <2> QED
    BY <1>2, <2>1, Zenon DEF IsAccumulator
<1> DEFINE S == {i \in Nat : i <= n => f[i] \in Int}
<1>6. 0 \in S
  BY <1>4
<1>7. ASSUME NEW i \in Nat, i \in S PROVE i + 1 \in S
  <2> SUFFICES ASSUME i + 1 <= n PROVE f[i + 1] \in Int
    BY SMT
  <2>1. i + 1 \in 1..n /\ i + 1 - 1 = i /\ n + 1 - (i + 1) \in 1..n /\ f[i] \in Int
    BY <1>7
  <2>2. f[i + 1] = f[i] * size[n + 1 - (i + 1)] + coord[n + 1 - (i + 1)]
    BY <1>5, <2>1
  <2> QED
    BY <2>1, <2>2
<1> HIDE DEF S
<1>8. \A i \in Nat : i \in S
  BY <1>6, <1>7, InductionOnNat, Zenon
<1>9. \A i \in 0..n : f[i] \in Int
  BY <1>8 DEF S
<1> DEFINE h == [x \in 1..(n + 1) |-> f[n + 1 - x]]
<1>10. h \in [1..(n + 1) -> Int] /\ h[n + 1] = start /\ h[1] = f[n]
  BY <1>4, <1>9
<1>11. ASSUME NEW x \in 1..n PROVE h[x] = h[x + 1] * size[x] + coord[x]
  <2>1. n + 1 - x \in 1..n /\ n + 1 - (n + 1 - x) = x /\ n + 1 - x - 1 = n + 1 - (x + 1)
    OBVIOUS
  <2>2. h[x] = f[n + 1 - x] /\ h[x + 1] = f[n + 1 - (x + 1)]
    OBVIOUS
  <2> HIDE DEF h
  <2>3. f[n + 1 - x] = f[n + 1 - x - 1] * size[n + 1 - (n + 1 - x)] + coord[n + 1 - (n + 1 - x)]
    BY <1>5, <2>1
  <2> QED
    BY <2>1, <2>2, <2>3
<1>12. Indices(h, start, n, size, coord)
  BY <1>10, <1>11, Zenon DEF Indices
<1> HIDE DEF h
<1> QED
  BY <1>3, <1>10, <1>12, Zenon

\* The loop's indices are determined by its start.
LEMMA IndicesUnique ==
  ASSUME NEW n \in Nat, NEW start, NEW size, NEW coord, NEW g, NEW h,
         Indices(g, start, n, size, coord), Indices(h, start, n, size, coord)
  PROVE  g[1] = h[1]
<1> DEFINE S == {x \in 1..(n + 1) : g[x] = h[x]}
<1>1. n + 1 \in S
  BY DEF Indices
<1>2. ASSUME NEW x \in 1..n, x + 1 \in S PROVE x \in S
  <2>1. g[x + 1] = h[x + 1] /\ x \in 1..(n + 1)
    BY <1>2
  <2>2. g[x] = g[x + 1] * size[x] + coord[x] /\ h[x] = h[x + 1] * size[x] + coord[x]
    BY Zenon DEF Indices
  <2> QED
    BY <2>1, <2>2, Zenon
<1> HIDE DEF S
<1>3. \A x \in 1..(n + 1) : x \in S
  BY <1>1, <1>2, DownwardInduction, Zenon
<1>4. 1 \in 1..(n + 1)
  OBVIOUS
<1> QED
  BY <1>3, <1>4, Zenon DEF S

\* So any function that satisfies the loop's equations gives its result.
LEMMA AccumulateFrom ==
  ASSUME NEW n \in Nat, NEW start \in Int, NEW size, NEW coord, NEW h,
         \A x \in 1..n : size[x] \in Int /\ coord[x] \in Int,
         Indices(h, start, n, size, coord)
  PROVE  Accumulate(start, n, size, coord) = h[1]
<1>1. PICK g : /\ Indices(g, start, n, size, coord)
               /\ Accumulate(start, n, size, coord) = g[1]
  BY AccumulateIs
<1> QED
  BY <1>1, IndicesUnique

-----------------------------------------------------------------------------
(* The grid's dimensions, coordinates and points.                          *)

\* The dimensions are positive and there is at least one.
LEMMA Dimensions ==
  ASSUME dims \in DimsChoices
  PROVE  /\ D \in Nat /\ D > 0 /\ Axes = 1..D /\ DOMAIN dims = 1..D
         /\ \A a \in 1..D : dims[a] \in Nat /\ dims[a] > 0
<1>1. dims \in Seq(Nat \ {0}) /\ dims # <<>>
  BY DimsAssumption, Zenon
<1>2. Len(dims) \in Nat /\ DOMAIN dims = 1..Len(dims)
      /\ \A a \in DOMAIN dims : dims[a] \in Nat \ {0}
  BY <1>1, SeqParts, Zenon
<1>3. Len(dims) # 0
  BY <1>1, EmptySeq, Zenon
<1> QED
  BY <1>2, <1>3 DEF D, Axes

\* Coordinates are the vectors of numbers below the dimensions.
LEMMA CoordsAre ==
  ASSUME dims \in DimsChoices, NEW c
  PROVE  c \in Coords <=> c \in [1..D -> Int] /\ \A a \in 1..D : 0 <= c[a] /\ c[a] < dims[a]
<1>0. D \in Nat /\ D > 0 /\ Axes = 1..D /\ DOMAIN dims = 1..D
      /\ \A a \in 1..D : dims[a] \in Nat /\ dims[a] > 0
  BY Dimensions, Zenon
<1> DEFINE T == Range(dims)
<1>1. T \subseteq Nat /\ \A a \in 1..D : dims[a] \in T
  BY <1>0, Zenon DEF Range
<1>2. IsFiniteSet(T) /\ T # {}
  <2>1. IsFiniteSet(1..D)
    BY <1>0, FS_Interval
  <2>2. IsFiniteSet(T)
    <3>1. dims \in [1..D -> T] /\ \A t \in T : \E a \in 1..D : dims[a] = t
      <4>1. dims \in [1..D -> Nat \ {0}]
        BY DimsAssumption, SeqParts, Zenon DEF D
      <4> QED
        BY <4>1, <1>0, <1>1 DEF Range
    <3>2. dims \in Surjection(1..D, T)
      BY <3>1, Zenon DEF Surjection
    <3> HIDE DEF T
    <3> QED
      BY <3>2, <2>1, FS_Surjection, Zenon DEF ExistsSurjection
  <2>3. 1 \in 1..D
    BY <1>0
  <2> QED
    BY <1>0, <1>1, <2>2, <2>3, Zenon DEF Range
<1> HIDE DEF T
<1>3. PICK x \in T : \A y \in T : y <= x
  BY <1>1, <1>2, GreatestElement, Zenon
<1>4. PICK mx : mx = Max(T)
  OBVIOUS
<1>5. mx \in T /\ \A y \in T : mx >= y
  <2>1. \A y \in T : x >= y
    BY <1>3, <1>1
  <2> QED
    BY <1>4, <2>1, <1>3, Zenon DEF Max
<1>6. mx \in Nat /\ \A a \in 1..D : dims[a] <= mx
  BY <1>0, <1>1, <1>5
<1>7. Coords = {b \in [1..D -> 0..mx] : \A a \in 1..D : b[a] < dims[a]}
  BY <1>0, <1>4, Zenon DEF Coords, T
<1> QED
  BY <1>0, <1>6, <1>7

\* totalSize is the product of the dimensions, by the loop's partial products.
LEMMA TotalIs ==
  ASSUME dims \in DimsChoices
  PROVE  \E q : /\ q \in [1..(D + 1) -> Nat] /\ q[D + 1] = 1 /\ q[1] = Total
                /\ \A x \in 1..D : q[x] = q[x + 1] * dims[x]
                /\ \A x \in 1..(D + 1) : q[x] > 0
<1>0. D \in Nat /\ D > 0 /\ Axes = 1..D /\ \A a \in 1..D : dims[a] \in Nat /\ dims[a] > 0
  BY Dimensions, Zenon
<1>1. PICK z : z = [a \in Axes |-> 0]
  OBVIOUS
<1>2. \A x \in 1..D : dims[x] \in Int /\ z[x] \in Int /\ z[x] = 0
  BY <1>0, <1>1
<1>3. PICK q : Indices(q, 1, D, dims, z) /\ Accumulate(1, D, dims, z) = q[1]
  <2>1. 1 \in Int
    OBVIOUS
  <2> QED
    BY <1>0, <1>2, <2>1, AccumulateIs
<1>4. Total = q[1]
  BY <1>1, <1>3, Zenon DEF Total
<1>5. q \in [1..(D + 1) -> Int] /\ q[D + 1] = 1
      /\ \A x \in 1..D : q[x] = q[x + 1] * dims[x] + z[x]
  BY <1>3, Zenon DEF Indices
<1>6. ASSUME NEW x \in 1..D
      PROVE  q[x] = q[x + 1] * dims[x] /\ q[x + 1] \in Int /\ dims[x] \in Int /\ dims[x] > 0
  <2>1. x + 1 \in 1..(D + 1)
    BY <1>0
  <2>2. q[x + 1] \in Int /\ dims[x] \in Int /\ dims[x] > 0
    BY <1>0, <1>5, <2>1
  <2>3. q[x] = q[x + 1] * dims[x] + 0
    BY <1>2, <1>5, Zenon
  <2> QED
    BY <2>2, <2>3
<1> DEFINE S == {x \in 1..(D + 1) : q[x] > 0}
<1>7. D + 1 \in S
  BY <1>0, <1>5
<1>8. ASSUME NEW x \in 1..D, x + 1 \in S PROVE x \in S
  <2>1. PICK v \in Int, d \in Int : v = q[x + 1] /\ d = dims[x] /\ v > 0 /\ d > 0
    BY <1>6, <1>8
  <2>2. v * d > 0
    BY <2>1
  <2> QED
    BY <1>0, <1>6, <2>1, <2>2
<1> HIDE DEF S
<1>9. \A x \in 1..(D + 1) : x \in S
  BY <1>0, <1>7, <1>8, DownwardInduction, Zenon
<1>10. \A x \in 1..(D + 1) : q[x] > 0
  BY <1>9, Zenon DEF S
<1>11. q \in [1..(D + 1) -> Nat]
  BY <1>0, <1>5, <1>10
<1> QED
  BY <1>4, <1>5, <1>6, <1>10, <1>11, Zenon

\* The indices of the loop of Linear at integer coordinates.
Path(c, h) ==
  /\ h \in [1..(D + 1) -> Int] /\ h[D + 1] = 0 /\ h[1] = Linear(c)
  /\ \A x \in 1..D : h[x] = h[x + 1] * dims[x] + c[x]

\* There are such indices.
LEMMA PathExists ==
  ASSUME dims \in DimsChoices, NEW c \in [1..D -> Int]
  PROVE  \E h : Path(c, h)
<1>0. D \in Nat /\ \A a \in 1..D : dims[a] \in Nat
  BY Dimensions, Zenon
<1>1. \A x \in 1..D : dims[x] \in Int /\ c[x] \in Int
  BY <1>0
<1>2. 0 \in Int
  OBVIOUS
<1>3. PICK h : Indices(h, 0, D, dims, c) /\ Accumulate(0, D, dims, c) = h[1]
  BY SMTT(60), <1>0, <1>1, <1>2, AccumulateIs
<1> QED
  BY <1>3, Zenon DEF Path, Indices, Linear

\* Any indices that satisfy the equations end at the position.
LEMMA PathFrom ==
  ASSUME dims \in DimsChoices, NEW c \in [1..D -> Int], NEW h,
         Indices(h, 0, D, dims, c)
  PROVE  Linear(c) = h[1]
<1>0. D \in Nat
  BY Dimensions, Zenon
<1>1. PICK g : Path(c, g)
  BY PathExists, Zenon
<1>2. Indices(g, 0, D, dims, c) /\ Linear(c) = g[1]
  BY <1>1, Zenon DEF Path, Indices
<1>3. g[1] = h[1]
  BY <1>0, <1>2, IndicesUnique
<1> QED
  BY <1>2, <1>3

\* A step of the loop stays below the product of the dimensions it has seen.
LEMMA StepBelow ==
  ASSUME NEW v \in Int, NEW q \in Int, NEW d \in Int, NEW k \in Int,
         0 <= v, v < q, 0 <= k, k < d
  PROVE  0 <= v * d + k /\ v * d + k < q * d
<1>1. v + 1 <= q
  OBVIOUS
<1>2. (v + 1) * d <= q * d
  BY <1>1
<1>3. (v + 1) * d = v * d + d /\ v * d >= 0
  OBVIOUS
<1> QED
  BY <1>2, <1>3

\* The position of a place on the grid is below totalSize.
LEMMA LinearBelow ==
  ASSUME dims \in DimsChoices, NEW c \in Coords
  PROVE  Linear(c) \in 0..(Total - 1) /\ Total \in Nat
<1>0. D \in Nat /\ D > 0 /\ \A a \in 1..D : dims[a] \in Nat /\ dims[a] > 0
  BY Dimensions, Zenon
<1>1. c \in [1..D -> Int] /\ \A a \in 1..D : 0 <= c[a] /\ c[a] < dims[a]
  BY CoordsAre, Zenon
<1>2. PICK h : Path(c, h)
  BY <1>1, PathExists, Zenon
<1>3. h \in [1..(D + 1) -> Int] /\ h[D + 1] = 0 /\ h[1] = Linear(c)
      /\ \A x \in 1..D : h[x] = h[x + 1] * dims[x] + c[x]
  BY <1>2, Zenon DEF Path
<1>4. PICK q : /\ q \in [1..(D + 1) -> Nat] /\ q[D + 1] = 1 /\ q[1] = Total
               /\ \A x \in 1..D : q[x] = q[x + 1] * dims[x]
               /\ \A x \in 1..(D + 1) : q[x] > 0
  BY TotalIs, Zenon
<1> DEFINE S == {x \in 1..(D + 1) : 0 <= h[x] /\ h[x] < q[x]}
<1>5. D + 1 \in S
  BY <1>0, <1>3, <1>4
<1>6. ASSUME NEW x \in 1..D, x + 1 \in S PROVE x \in S
  <2>1. x + 1 \in 1..(D + 1) /\ x \in 1..(D + 1)
    BY <1>0
  <2>2. h[x + 1] \in Int /\ q[x + 1] \in Int /\ dims[x] \in Int /\ c[x] \in Int
        /\ 0 <= h[x + 1] /\ h[x + 1] < q[x + 1] /\ 0 <= c[x] /\ c[x] < dims[x]
    BY SMTT(60), <1>0, <1>1, <1>3, <1>4, <1>6, <2>1
  <2>3. 0 <= h[x + 1] * dims[x] + c[x] /\ h[x + 1] * dims[x] + c[x] < q[x + 1] * dims[x]
    BY <2>2, StepBelow
  <2> QED
    BY <2>1, <2>3, <1>3, <1>4
<1> HIDE DEF S
<1>7. \A x \in 1..(D + 1) : x \in S
  BY <1>0, <1>5, <1>6, DownwardInduction, Zenon
<1>8. 1 \in S /\ 1 \in 1..(D + 1)
  BY <1>0, <1>7
<1> QED
  BY <1>3, <1>4, <1>8 DEF S

-----------------------------------------------------------------------------
(* Peeling a position into coordinates.                                    *)

\* Division with remainder.
LEMMA DivisionIs ==
  ASSUME NEW x \in Nat, NEW d \in Nat, d > 0
  PROVE  /\ x \div d \in Nat /\ x % d \in Nat /\ x % d < d
         /\ x = (x \div d) * d + (x % d)
<1>1. x \div d \in Int /\ x % d \in Int /\ 0 <= x % d /\ x % d < d
  OBVIOUS
<1>2. x = (x \div d) * d + (x % d)
  BY SMTT(60)
<1>3. PICK w \in Int, j \in Int : w = x \div d /\ j = x % d /\ j < d /\ x = w * d + j
  BY <1>1, <1>2
<1>4. w >= 0
  <2>1. CASE w <= -1
    <3>1. w * d <= (-1) * d
      BY <2>1
    <3> QED
      BY <1>3, <3>1
  <2> QED
    BY <2>1
<1> QED
  BY <1>1, <1>2, <1>3, <1>4

\* It undoes a step of the loop.
LEMMA DivisionUndoes ==
  ASSUME NEW v \in Nat, NEW d \in Nat, NEW k \in Nat, k < d
  PROVE  (v * d + k) \div d = v /\ (v * d + k) % d = k
<1>1. PICK x \in Nat : x = v * d + k
  BY SMT
<1>2. PICK w \in Nat, j \in Nat : w = x \div d /\ j = x % d /\ j < d /\ x = w * d + j
  BY DivisionIs
<1>3. w = v
  <2>1. CASE w < v
    <3>1. (w + 1) * d <= v * d
      BY <2>1
    <3>2. (w + 1) * d = w * d + d
      OBVIOUS
    <3> QED
      BY <1>1, <1>2, <3>1, <3>2
  <2>2. CASE v < w
    <3>1. (v + 1) * d <= w * d
      BY <2>2
    <3>2. (v + 1) * d = v * d + d
      OBVIOUS
    <3> QED
      BY <1>1, <1>2, <3>1, <3>2
  <2> QED
    BY <2>1, <2>2
<1>4. j = k
  BY <1>1, <1>2, <1>3
<1> QED
  BY <1>1, <1>2, <1>3, <1>4

\* The function that getGridPointCoords defines over the first m dimensions.
IsPeel(f, m, p) ==
  f = [a \in 1..m |-> IF a = 1 THEN p ELSE f[a - 1] \div dims[a - 1]]

\* It exists for any number of dimensions.
LEMMA PeelExists ==
  ASSUME NEW p
  PROVE  \A m \in Nat : \E f : IsPeel(f, m, p)
<1> DEFINE Turn(v, a) == v \div dims[a - 1]
           S == {m \in Nat : \E f : IsPeel(f, m, p)}
<1>1. 0 \in S
  <2> DEFINE f == [a \in 1..0 |-> p]
  <2>1. f = [a \in 1..0 |-> IF a = 1 THEN p ELSE Turn(f[a - 1], a)]
    <3> HIDE DEF Turn
    <3> QED
      OBVIOUS
  <2> QED
    BY <2>1, Zenon DEF IsPeel
<1>2. ASSUME NEW m \in Nat, m \in S PROVE m + 1 \in S
  <2>1. PICK f : IsPeel(f, m, p)
    BY <1>2, Zenon
  <2>2. f = [a \in 1..m |-> IF a = 1 THEN p ELSE Turn(f[a - 1], a)]
    BY <2>1, Zenon DEF IsPeel
  <2> DEFINE g == [a \in 1..(m + 1) |-> IF a = 1 THEN p ELSE Turn(f[a - 1], a)]
  <2> HIDE DEF Turn
  <2>3. \A a \in 1..m : g[a] = f[a]
    BY <2>2
  <2>4. ASSUME NEW a \in 1..(m + 1), a # 1 PROVE g[a - 1] = f[a - 1]
    <3>1. a - 1 \in 1..m
      BY <2>4
    <3> HIDE DEF g
    <3> QED
      BY <3>1, <2>3
  <2>5. g = [a \in 1..(m + 1) |-> IF a = 1 THEN p ELSE Turn(g[a - 1], a)]
    BY <2>4
  <2>6. IsPeel(g, m + 1, p)
    BY <2>5, Zenon DEF IsPeel, Turn
  <2>7. m + 1 \in Nat
    OBVIOUS
  <2> HIDE DEF g
  <2> QED
    BY <2>6, <2>7, Zenon
<1> HIDE DEF S
<1>3. \A m \in Nat : m \in S
  BY <1>1, <1>2, InductionOnNat, Zenon
<1> QED
  BY <1>3, Zenon DEF S

\* getGridPointCoords: what remains of p before each dimension and in the end.
Peels(p, g) ==
  /\ g \in [1..(D + 1) -> Nat] /\ g[1] = p
  /\ \A a \in 1..D : g[a + 1] = g[a] \div dims[a]
  /\ GetGridPointCoords(p) = [a \in 1..D |-> g[a] % dims[a]]

\* There is such a function.
LEMMA PeelIs ==
  ASSUME dims \in DimsChoices, NEW p \in Nat
  PROVE  \E g : Peels(p, g)
<1>0. D \in Nat /\ D > 0 /\ Axes = 1..D /\ \A a \in 1..D : dims[a] \in Nat /\ dims[a] > 0
  BY Dimensions, Zenon
<1> DEFINE f == CHOOSE g : IsPeel(g, D, p)
<1>2. IsPeel(f, D, p)
  BY <1>0, PeelExists, Zenon
<1>3. GetGridPointCoords(p) = [a \in 1..D |-> f[a] % dims[a]]
  BY Zenon DEF GetGridPointCoords, IsPeel, Axes
<1> HIDE DEF f
<1>4. f[1] = p
  <2>1. 1 \in 1..D
    BY <1>0
  <2> QED
    BY <1>2, <2>1, Zenon DEF IsPeel
<1>5. ASSUME NEW a \in 1..D, a # 1 PROVE f[a] = f[a - 1] \div dims[a - 1]
  BY <1>2, <1>5, Zenon DEF IsPeel
<1> DEFINE S == {i \in Nat : i + 1 <= D => f[i + 1] \in Nat}
<1>6. 0 \in S
  BY <1>4
<1>7. ASSUME NEW i \in Nat, i \in S PROVE i + 1 \in S
  <2> SUFFICES ASSUME i + 1 + 1 <= D PROVE f[i + 1 + 1] \in Nat
    BY SMT
  <2>1. i + 1 + 1 \in 1..D /\ i + 1 + 1 # 1 /\ i + 1 + 1 - 1 = i + 1 /\ i + 1 \in 1..D
        /\ f[i + 1] \in Nat
    BY <1>7, <1>0
  <2>2. f[i + 1 + 1] = f[i + 1] \div dims[i + 1]
    BY <1>5, <2>1
  <2>3. dims[i + 1] \in Nat /\ dims[i + 1] > 0
    BY <1>0, <2>1
  <2> QED
    BY <2>1, <2>2, <2>3, DivisionIs
<1> HIDE DEF S
<1>8. \A i \in Nat : i \in S
  BY <1>6, <1>7, InductionOnNat, Zenon
<1>9. ASSUME NEW a \in 1..D PROVE f[a] \in Nat
  <2>1. a - 1 \in Nat /\ a - 1 \in S /\ a - 1 + 1 = a /\ a <= D
    BY <1>0, <1>8
  <2> QED
    BY <2>1 DEF S
<1> DEFINE g == [a \in 1..(D + 1) |-> IF a <= D THEN f[a] ELSE f[D] \div dims[D]]
<1>10. \A a \in 1..D : g[a] = f[a] /\ g[D + 1] = f[D] \div dims[D]
  BY <1>0
<1>11. f[D] \div dims[D] \in Nat
  <2>1. D \in 1..D
    BY <1>0
  <2> QED
    BY <1>0, <1>9, <2>1, DivisionIs
<1>12. g \in [1..(D + 1) -> Nat]
  BY <1>0, <1>9, <1>11
<1> HIDE DEF g
<1>13. ASSUME NEW a \in 1..D PROVE g[a + 1] = g[a] \div dims[a]
  <2>1. CASE a = D
    BY <2>1, <1>10, Zenon
  <2>2. CASE a # D
    <3>1. a + 1 \in 1..D /\ a + 1 # 1 /\ a + 1 - 1 = a
      BY <2>2, <1>0
    <3>2. f[a + 1] = f[a] \div dims[a]
      BY <3>1, <1>5
    <3> QED
      BY <3>1, <3>2, <1>10, Zenon
  <2> QED
    BY <2>1, <2>2
<1>14. 1 \in 1..D
  BY <1>0
<1>15. [a \in 1..D |-> f[a] % dims[a]] = [a \in 1..D |-> g[a] % dims[a]]
  BY <1>10, Zenon
<1>16. Peels(p, g)
  BY <1>3, <1>4, <1>10, <1>12, <1>13, <1>14, <1>15, Zenon DEF Peels
<1> QED
  BY <1>16, Zenon

\* getGridPointCoords of the position of a place is the place.
LEMMA PeelUndoes ==
  ASSUME dims \in DimsChoices, NEW c \in Coords
  PROVE  GetGridPointCoords(Linear(c)) = c
<1>0. D \in Nat /\ D > 0 /\ \A a \in 1..D : dims[a] \in Nat /\ dims[a] > 0
  BY Dimensions, Zenon
<1>1. c \in [1..D -> Int] /\ \A a \in 1..D : 0 <= c[a] /\ c[a] < dims[a]
  BY CoordsAre, Zenon
<1>2. PICK h : h \in [1..(D + 1) -> Int] /\ h[D + 1] = 0 /\ h[1] = Linear(c)
               /\ \A x \in 1..D : h[x] = h[x + 1] * dims[x] + c[x]
  BY <1>1, PathExists, Zenon DEF Path
<1>3. Linear(c) \in Nat
  BY LinearBelow, SMT
<1>4. PICK g : Peels(Linear(c), g)
  BY <1>3, PeelIs, Zenon
<1>5. g \in [1..(D + 1) -> Nat] /\ g[1] = Linear(c)
      /\ \A a \in 1..D : g[a + 1] = g[a] \div dims[a]
  BY <1>4, Zenon DEF Peels
<1> DEFINE P == {x \in 1..(D + 1) : h[x] \in Nat}
<1>6. \A x \in 1..(D + 1) : x \in P
  <2>1. D + 1 \in P
    BY <1>0, <1>2
  <2>2. ASSUME NEW x \in 1..D, x + 1 \in P PROVE x \in P
    <3>1. h[x + 1] \in Nat /\ dims[x] \in Nat /\ c[x] \in Nat /\ x \in 1..(D + 1)
      BY <1>0, <1>1, <2>2
    <3>2. h[x + 1] * dims[x] + c[x] \in Nat
      BY <3>1
    <3> QED
      BY <3>1, <3>2, <1>2
  <2> HIDE DEF P
  <2> QED
    BY <1>0, <2>1, <2>2, DownwardInduction, Zenon
<1>7. ASSUME NEW x \in 1..D
      PROVE  h[x] \div dims[x] = h[x + 1] /\ h[x] % dims[x] = c[x]
  <2>1. x + 1 \in 1..(D + 1)
    BY <1>0
  <2>2. h[x + 1] \in Nat /\ dims[x] \in Nat /\ c[x] \in Nat /\ c[x] < dims[x]
    BY <1>0, <1>1, <1>6, <2>1
  <2>3. h[x] = h[x + 1] * dims[x] + c[x]
    BY <1>2
  <2> QED
    <3>1. PICK v \in Nat, d \in Nat, k \in Nat :
            v = h[x + 1] /\ d = dims[x] /\ k = c[x] /\ k < d /\ h[x] = v * d + k
      BY <2>2, <2>3, Zenon
    <3>2. k < d
      BY <3>1
    <3>3. (v * d + k) \div d = v /\ (v * d + k) % d = k
      BY <3>2, DivisionUndoes, Zenon
    <3> QED
      BY <3>1, <3>3, Zenon
<1> DEFINE S == {i \in Nat : i <= D => g[i + 1] = h[i + 1]}
<1>8. 0 \in S
  BY <1>2, <1>5
<1>9. ASSUME NEW i \in Nat, i \in S PROVE i + 1 \in S
  <2> SUFFICES ASSUME i + 1 <= D PROVE g[i + 1 + 1] = h[i + 1 + 1]
    BY SMT
  <2>1. i + 1 \in 1..D /\ g[i + 1] = h[i + 1]
    BY <1>9, <1>0
  <2> QED
    BY <2>1, <1>5, <1>7, Zenon
<1> HIDE DEF S
<1>10. \A i \in Nat : i \in S
  BY <1>8, <1>9, InductionOnNat, Zenon
<1>11. ASSUME NEW a \in 1..D PROVE g[a] % dims[a] = c[a]
  <2>1. a - 1 \in Nat /\ a - 1 \in S /\ a - 1 + 1 = a /\ a - 1 <= D
    BY <1>0, <1>10
  <2>2. g[a] = h[a]
    BY <2>1 DEF S
  <2> QED
    BY <2>2, <1>7
<1>12. GetGridPointCoords(Linear(c)) = [a \in 1..D |-> g[a] % dims[a]]
  BY <1>4, Zenon DEF Peels
<1> QED
  BY <1>1, <1>11, <1>12

\* A quotient is below the quotient of a bound.
LEMMA DivisionBelow ==
  ASSUME NEW x \in Nat, NEW q \in Nat, NEW d \in Nat, d > 0, x < q * d
  PROVE  x \div d < q
<1>1. PICK w \in Nat, j \in Nat : w = x \div d /\ j = x % d /\ x = w * d + j
  BY DivisionIs
<1>2. CASE q <= w
  <2>1. q * d <= w * d
    BY <1>2
  <2> QED
    BY <1>1, <2>1
<1> QED
  BY <1>1, <1>2

\* The coordinates of every point are a place on the grid, at its position.
LEMMA PeelPlace ==
  ASSUME dims \in DimsChoices, NEW p \in 0..(Total - 1)
  PROVE  GetGridPointCoords(p) \in Coords /\ Linear(GetGridPointCoords(p)) = p
<1>0. D \in Nat /\ D > 0 /\ \A a \in 1..D : dims[a] \in Nat /\ dims[a] > 0
  BY Dimensions, Zenon
<1>1. PICK q : /\ q \in [1..(D + 1) -> Nat] /\ q[D + 1] = 1 /\ q[1] = Total
               /\ \A x \in 1..D : q[x] = q[x + 1] * dims[x]
               /\ \A x \in 1..(D + 1) : q[x] > 0
  BY TotalIs, Zenon
<1>2. Total \in Nat /\ p \in Nat /\ p < Total
  <2>1. 1 \in 1..(D + 1)
    BY <1>0
  <2>2. Total \in Nat
    BY <2>1, <1>1
  <2> QED
    BY <2>2
<1>3. PICK g : Peels(p, g)
  BY <1>2, PeelIs, Zenon
<1>4. g \in [1..(D + 1) -> Nat] /\ g[1] = p /\ \A a \in 1..D : g[a + 1] = g[a] \div dims[a]
  BY <1>3, Zenon DEF Peels
<1>5. PICK c : c = [a \in 1..D |-> g[a] % dims[a]]
  OBVIOUS
<1>6. GetGridPointCoords(p) = c
  BY <1>3, <1>5, Zenon DEF Peels
<1>7. ASSUME NEW x \in 1..D
      PROVE  /\ x \in 1..(D + 1) /\ x + 1 \in 1..(D + 1)
             /\ g[x] \in Nat /\ g[x + 1] \in Nat /\ q[x] \in Nat /\ q[x + 1] \in Nat
             /\ dims[x] \in Nat /\ dims[x] > 0
             /\ c[x] = g[x] % dims[x] /\ q[x] = q[x + 1] * dims[x]
  BY SMTT(60), <1>0, <1>1, <1>4, <1>5
<1>8. ASSUME NEW x \in 1..D
      PROVE  /\ c[x] \in Int /\ 0 <= c[x] /\ c[x] < dims[x]
             /\ g[x] = g[x + 1] * dims[x] + c[x]
  <2>1. PICK v \in Nat, d \in Nat : v = g[x] /\ d = dims[x] /\ d > 0
    BY <1>7, Zenon
  <2>2. v % d \in Nat /\ v % d < d /\ v = (v \div d) * d + (v % d)
    BY <2>1, DivisionIs
  <2>3. c[x] = v % d /\ g[x + 1] = v \div d
    BY <1>4, <1>7, <2>1, Zenon
  <2> QED
    BY <2>1, <2>2, <2>3
<1>9. c \in [1..D -> Int]
  BY <1>5, <1>8
<1>10. c \in Coords
  BY <1>8, <1>9, CoordsAre
<1> DEFINE S == {i \in Nat : i <= D => g[i + 1] < q[i + 1]}
<1>11. 0 \in S
  BY <1>1, <1>2, <1>4
<1>12. ASSUME NEW i \in Nat, i \in S PROVE i + 1 \in S
  <2> SUFFICES ASSUME i + 1 <= D PROVE g[i + 1 + 1] < q[i + 1 + 1]
    BY SMT
  <2>1. i + 1 \in 1..D /\ g[i + 1] < q[i + 1]
    BY <1>12, <1>0
  <2>2. PICK x \in 1..D : x = i + 1
    BY <2>1
  <2>3. PICK v \in Nat, d \in Nat, k \in Nat :
          v = g[x] /\ d = dims[x] /\ k = q[x + 1] /\ q[x] = k * d
    BY <1>7, Zenon
  <2>4. d > 0 /\ v < k * d
    BY <1>7, <2>1, <2>2, <2>3
  <2>5. v \div d < k
    BY <2>4, DivisionBelow
  <2> QED
    BY <1>4, <2>2, <2>3, <2>5
<1> HIDE DEF S
<1>13. \A i \in Nat : i \in S
  BY <1>11, <1>12, InductionOnNat, Zenon
<1>14. g[D + 1] = 0
  <2>1. g[D + 1] < q[D + 1] /\ D + 1 \in 1..(D + 1)
    BY <1>0, <1>13 DEF S
  <2> QED
    BY <1>1, <1>4, <2>1
<1>15. g \in [1..(D + 1) -> Int]
  BY <1>4
<1>16. Indices(g, 0, D, dims, c)
  BY <1>8, <1>14, <1>15, Zenon DEF Indices
<1>17. Linear(c) = g[1]
  BY <1>9, <1>16, PathFrom, Zenon
<1> QED
  BY <1>4, <1>6, <1>10, <1>17, Zenon

-----------------------------------------------------------------------------
(* The order of the positions is the order of the coordinates.             *)

\* A loop that is behind after some dimension stays behind.
LEMMA StaysBehind ==
  ASSUME NEW u \in Int, NEW v \in Int, NEW d \in Int, NEW j \in Int, NEW k \in Int,
         u < v, 0 <= j, j < d, 0 <= k
  PROVE  u * d + j < v * d + k
<1>1. (u + 1) * d <= v * d
  OBVIOUS
<1>2. (u + 1) * d = u * d + d
  OBVIOUS
<1> QED
  BY <1>1, <1>2

\* The place that comes before has the smaller position.
LEMMA BeforeIsLess ==
  ASSUME dims \in DimsChoices, NEW b \in Coords, NEW c \in Coords, Before(b, c)
  PROVE  Linear(b) < Linear(c)
<1>0. D \in Nat /\ D > 0 /\ Axes = 1..D /\ \A a \in 1..D : dims[a] \in Nat /\ dims[a] > 0
  BY Dimensions, Zenon
<1>1. /\ b \in [1..D -> Int] /\ \A a \in 1..D : 0 <= b[a] /\ b[a] < dims[a]
      /\ c \in [1..D -> Int] /\ \A a \in 1..D : 0 <= c[a] /\ c[a] < dims[a]
  BY CoordsAre, Zenon
<1>2. PICK g : g \in [1..(D + 1) -> Int] /\ g[D + 1] = 0 /\ g[1] = Linear(b)
               /\ \A x \in 1..D : g[x] = g[x + 1] * dims[x] + b[x]
  BY <1>1, PathExists, Zenon DEF Path
<1>3. PICK h : h \in [1..(D + 1) -> Int] /\ h[D + 1] = 0 /\ h[1] = Linear(c)
               /\ \A x \in 1..D : h[x] = h[x + 1] * dims[x] + c[x]
  BY <1>1, PathExists, Zenon DEF Path
<1>4. PICK a \in 1..D : b[a] < c[a] /\ \A x \in (a + 1)..D : b[x] = c[x]
  BY <1>0, Zenon DEF Before
<1> DEFINE S == {x \in 1..(D + 1) : IF x > a THEN g[x] = h[x] ELSE g[x] < h[x]}
<1>5. D + 1 \in S
  BY <1>0, <1>2, <1>3
<1>6. ASSUME NEW x \in 1..D, x + 1 \in S PROVE x \in S
  <2>1. x + 1 \in 1..(D + 1) /\ x \in 1..(D + 1)
    BY <1>0
  <2>2. PICK u \in Int, v \in Int, d \in Int, j \in Int, k \in Int :
          /\ u = g[x + 1] /\ v = h[x + 1] /\ d = dims[x] /\ j = b[x] /\ k = c[x]
          /\ g[x] = u * d + j /\ h[x] = v * d + k
          /\ 0 <= j /\ j < d /\ 0 <= k
    <3>1. dims[x] \in Int /\ b[x] \in Int /\ c[x] \in Int /\ g[x + 1] \in Int /\ h[x + 1] \in Int
      BY SMTT(60), <1>0, <1>1, <1>2, <1>3, <2>1
    <3>2. 0 <= b[x] /\ b[x] < dims[x] /\ 0 <= c[x]
          /\ g[x] = g[x + 1] * dims[x] + b[x] /\ h[x] = h[x + 1] * dims[x] + c[x]
      BY <1>1, <1>2, <1>3, Zenon
    <3> QED
      BY <3>1, <3>2, Zenon
  <2>3. CASE x > a
    <3>1. u = v /\ j = k
      <4>1. x + 1 > a /\ x \in (a + 1)..D
        BY <2>3, <1>0
      <4> QED
        BY <4>1, <1>4, <1>6, <2>2
    <3> QED
      BY <2>1, <2>2, <2>3, <3>1
  <2>4. CASE x = a
    <3>1. u = v /\ j < k
      BY <2>4, <1>4, <1>6, <2>2
    <3>2. u * d + j < v * d + k
      BY <3>1, <2>2
    <3> QED
      BY <2>1, <2>2, <2>4, <3>2
  <2>5. CASE x < a
    <3>1. u < v
      BY <2>5, <1>6, <2>2
    <3>2. u * d + j < v * d + k
      BY <3>1, <2>2, StaysBehind
    <3> QED
      BY <2>1, <2>2, <2>5, <3>2
  <2> QED
    BY <2>3, <2>4, <2>5
<1> HIDE DEF S
<1>7. \A x \in 1..(D + 1) : x \in S
  BY <1>0, <1>5, <1>6, DownwardInduction, Zenon
<1>8. 1 \in S /\ ~(1 > a)
  BY <1>0, <1>7
<1> QED
  BY <1>2, <1>3, <1>8 DEF S

\* Of two places one comes before the other.
LEMMA BeforeTotal ==
  ASSUME dims \in DimsChoices, NEW b \in Coords, NEW c \in Coords, b # c
  PROVE  Before(b, c) \/ Before(c, b)
<1>0. D \in Nat /\ D > 0 /\ Axes = 1..D
  BY Dimensions, Zenon
<1>1. b \in [1..D -> Int] /\ c \in [1..D -> Int]
  BY CoordsAre, Zenon
<1> DEFINE T == {x \in 1..D : b[x] # c[x]}
<1>2. T # {} /\ T \subseteq Nat /\ T \subseteq 1..D
  <2>1. \E x \in 1..D : b[x] # c[x]
    <3>1. ASSUME \A x \in 1..D : b[x] = c[x] PROVE FALSE
      <4>1. b = [x \in 1..D |-> b[x]] /\ c = [x \in 1..D |-> c[x]]
        BY <1>1, Zenon
      <4>2. [x \in 1..D |-> b[x]] = [x \in 1..D |-> c[x]]
        BY <3>1, Zenon
      <4> QED
        BY <4>1, <4>2, Zenon
    <3> QED
      BY <3>1, Zenon
  <2> QED
    BY <2>1, <1>0
<1>3. IsFiniteSet(T)
  <2>1. IsFiniteSet(1..D)
    BY <1>0, FS_Interval
  <2> QED
    BY <2>1, <1>2, FS_Subset, Zenon
<1>4. PICK a \in T : \A y \in T : y <= a
  BY <1>2, <1>3, GreatestElement
<1>5. ASSUME NEW x \in (a + 1)..D PROVE b[x] = c[x] /\ c[x] = b[x]
  <2>1. x \in 1..D /\ ~(x <= a)
    BY <1>2, <1>0
  <2> QED
    BY <2>1, <1>4
<1>6. a \in 1..D /\ (b[a] < c[a] \/ c[a] < b[a])
  BY <1>1, <1>4
<1> QED
  BY <1>0, <1>5, <1>6, Zenon DEF Before

\* The rank of a place is its position.
LEMMA RankIsLinear ==
  ASSUME dims \in DimsChoices, NEW c \in Coords
  PROVE  Rank(c) = Linear(c)
<1>0. Total \in Nat /\ Linear(c) \in Nat /\ Linear(c) < Total
  BY LinearBelow, SMT
<1> DEFINE T == {b \in Coords : Before(b, c)}
           I == 0..(Linear(c) - 1)
           f == [p \in I |-> GetGridPointCoords(p)]
<1>1. ASSUME NEW p \in I
      PROVE  f[p] \in T /\ Linear(f[p]) = p
  <2>1. p \in 0..(Total - 1) /\ p < Linear(c) /\ p \in Nat
    BY <1>0
  <2>2. f[p] = GetGridPointCoords(p)
    OBVIOUS
  <2> HIDE DEF f
  <2>3. f[p] \in Coords /\ Linear(f[p]) = p
    BY <2>1, <2>2, PeelPlace
  <2>4. f[p] # c /\ ~Before(c, f[p])
    <3>1. f[p] # c
      BY <2>1, <2>3, <1>0
    <3>2. ASSUME Before(c, f[p]) PROVE FALSE
      <4>1. Linear(c) < Linear(f[p])
        BY <2>3, <3>2, BeforeIsLess, Zenon
      <4> QED
        BY <4>1, <2>1, <2>3, <1>0
    <3> QED
      BY <3>1, <3>2
  <2>5. Before(f[p], c)
    BY <2>3, <2>4, BeforeTotal, Zenon
  <2> QED
    BY <2>3, <2>5, Zenon
<1>2. ASSUME NEW b \in T
      PROVE  \E p \in I : f[p] = b
  <2>1. b \in Coords /\ Linear(b) < Linear(c)
    BY BeforeIsLess, Zenon
  <2>2. Linear(b) \in Nat
    BY <2>1, LinearBelow, SMT
  <2>3. Linear(b) \in I
    BY <1>0, <2>1, <2>2
  <2>4. f[Linear(b)] = b
    BY <2>1, <2>3, PeelUndoes, Zenon
  <2> QED
    BY <2>3, <2>4, Zenon
<1>3. f \in [I -> T]
  BY <1>1, Zenon
<1> HIDE DEF f, T, I
<1>4. f \in Bijection(I, T)
  <2>0. \A x, y \in I : f[x] = f[y] => x = y
    BY <1>1, Zenon
  <2>1. f \in Injection(I, T)
    BY <2>0, <1>3 DEF Injection, IsInjective
  <2>2. f \in Surjection(I, T)
    BY <1>2, <1>3, Zenon DEF Surjection
  <2> QED
    BY <2>1, <2>2, Zenon DEF Bijection
<1>5. IsFiniteSet(I) /\ Cardinality(I) = Linear(c)
  <2>1. 0 \in Int /\ Linear(c) - 1 \in Int
    BY <1>0
  <2>2. IsFiniteSet(I) /\ Cardinality(I) = IF 0 > Linear(c) - 1 THEN 0 ELSE Linear(c) - 1 - 0 + 1
    BY <2>1, FS_Interval, Zenon DEF I
  <2> QED
    BY <1>0, <2>2
<1>6. Cardinality(T) = Cardinality(I)
  BY <1>4, <1>5, FS_Bijection, Zenon DEF ExistsBijection
<1> QED
  BY <1>5, <1>6, Zenon DEF Rank, T

-----------------------------------------------------------------------------
(* The loop nest and the emitted index arithmetic.                         *)

\* The next multiple.
LEMMA NextMultiple == \A v, d \in Int : (v + 1) * d = v * d + d /\ v * d \in Int
  OBVIOUS

\* The loop nest goes from a place to the one at the next position.
LEMMA TurnedFollows ==
  ASSUME dims \in DimsChoices, NEW c \in Coords, Linear(c) + 1 < Total
  PROVE  Turned(c) \in Coords /\ Linear(Turned(c)) = Linear(c) + 1
<1>0. D \in Nat /\ D > 0 /\ Axes = 1..D /\ \A a \in 1..D : dims[a] \in Nat /\ dims[a] > 0
  BY Dimensions, Zenon
<1>1. c \in [1..D -> Int] /\ \A a \in 1..D : 0 <= c[a] /\ c[a] < dims[a]
  BY CoordsAre, Zenon
<1>2. PICK h : h \in [1..(D + 1) -> Int] /\ h[D + 1] = 0 /\ h[1] = Linear(c)
               /\ \A x \in 1..D : h[x] = h[x + 1] * dims[x] + c[x]
  BY <1>1, PathExists, Zenon DEF Path
<1>3. PICK q : /\ q \in [1..(D + 1) -> Nat] /\ q[D + 1] = 1 /\ q[1] = Total
               /\ \A x \in 1..D : q[x] = q[x + 1] * dims[x]
  BY TotalIs, Zenon
<1>4. ASSUME NEW x \in 1..D
      PROVE  /\ x \in 1..(D + 1) /\ x + 1 \in 1..(D + 1)
             /\ h[x + 1] \in Int /\ q[x + 1] \in Int /\ dims[x] \in Int /\ c[x] \in Int
             /\ h[x] = h[x + 1] * dims[x] + c[x] /\ q[x] = q[x + 1] * dims[x]
  BY SMTT(60), <1>0, <1>1, <1>2, <1>3
<1> DEFINE T == {D + 1} \cup {x \in Axes : c[x] + 1 < dims[x]}
<1>5. T \subseteq Nat /\ T # {}
  BY <1>0
<1>6. PICK a : a = Min(T)
  OBVIOUS
<1>7. a \in T /\ \A y \in T : a <= y
  <2>1. \E x \in T : \A y \in T : x <= y
    BY <1>5, LeastElement, Zenon
  <2> HIDE DEF T
  <2> QED
    BY <1>6, <2>1, Zenon DEF Min
<1>8. ASSUME NEW x \in 1..D, x < a PROVE c[x] + 1 = dims[x]
  <2>1. ~(c[x] + 1 < dims[x])
    BY <1>0, <1>5, <1>7, <1>8
  <2> QED
    BY <2>1, <1>0, <1>1
<1>9. a \in 1..D /\ c[a] + 1 < dims[a]
  <2>1. CASE a = D + 1
    <3> DEFINE S == {x \in 1..(D + 1) : h[x] + 1 = q[x]}
    <3>1. D + 1 \in S
      BY <1>0, <1>2, <1>3
    <3>2. ASSUME NEW x \in 1..D, x + 1 \in S PROVE x \in S
      <4>1. PICK v \in Int, d \in Int, k \in Int :
              v = h[x + 1] /\ d = dims[x] /\ k = c[x] /\ v + 1 = q[x + 1]
              /\ h[x] = v * d + k /\ q[x] = (v + 1) * d
        <5>1. h[x + 1] + 1 = q[x + 1]
          BY <3>2
        <5>2. h[x + 1] \in Int /\ dims[x] \in Int /\ c[x] \in Int
              /\ h[x] = h[x + 1] * dims[x] + c[x] /\ q[x] = (h[x + 1] + 1) * dims[x]
          BY <5>1, <1>4, Zenon
        <5> QED
          BY <5>1, <5>2, Zenon
      <4>2. k + 1 = d
        BY <4>1, <1>0, <1>8, <2>1
      <4>3. (v + 1) * d = v * d + d
        BY NextMultiple, Zenon
      <4>4. v * d \in Int
        BY NextMultiple, Zenon
      <4> QED
        BY <1>4, <4>1, <4>2, <4>3, <4>4
    <3> HIDE DEF S
    <3>3. \A x \in 1..(D + 1) : x \in S
      BY <1>0, <3>1, <3>2, DownwardInduction, Zenon
    <3>4. 1 \in S
      BY <1>0, <3>3
    <3> QED
      BY <1>2, <1>3, <3>4 DEF S
  <2>2. CASE a # D + 1
    BY <2>2, <1>0, <1>7
  <2> QED
    BY <2>1, <2>2
<1> HIDE DEF T
<1>10. PICK t : t = Turned(c)
  OBVIOUS
<1>11. t = [x \in 1..D |-> IF x < a THEN 0 ELSE IF x = a THEN c[x] + 1 ELSE c[x]]
  BY <1>0, <1>6, <1>10, Zenon DEF Turned, T
<1>12. t \in [1..D -> Int] /\ \A x \in 1..D : 0 <= t[x] /\ t[x] < dims[x]
  BY <1>0, <1>1, <1>9, <1>11
<1>13. t \in Coords
  BY <1>12, CoordsAre, Zenon
<1> DEFINE g == [x \in 1..(D + 1) |-> IF x <= a THEN h[x] + 1 ELSE h[x]]
<1>14. g \in [1..(D + 1) -> Int] /\ g[D + 1] = 0 /\ g[1] = h[1] + 1
  BY <1>0, <1>2, <1>9
<1>15. ASSUME NEW x \in 1..D PROVE g[x] = g[x + 1] * dims[x] + t[x]
  <2>1. PICK v \in Int, d \in Int, k \in Int :
          v = h[x + 1] /\ d = dims[x] /\ k = c[x] /\ h[x] = v * d + k
    BY <1>4, Zenon
  <2>2. (v + 1) * d = v * d + d /\ v * d \in Int
    BY NextMultiple, Zenon
  <2>3. CASE x < a
    <3>1. g[x] = h[x] + 1 /\ g[x + 1] = v + 1 /\ t[x] = 0
      BY <2>1, <2>3, <1>0, <1>9, <1>11
    <3>2. k + 1 = d
      BY <2>1, <2>3, <1>8
    <3>3. g[x] = (v + 1) * d + 0
      BY <2>1, <2>2, <3>1, <3>2
    <3> QED
      BY <2>1, <3>1, <3>3, Zenon
  <2>4. CASE x = a
    <3>1. g[x] = h[x] + 1 /\ g[x + 1] = v /\ t[x] = k + 1
      BY <2>1, <2>4, <1>0, <1>9, <1>11
    <3>2. g[x] = v * d + (k + 1)
      BY <2>1, <2>2, <3>1
    <3> QED
      BY <2>1, <3>1, <3>2, Zenon
  <2>5. CASE x > a
    <3>1. g[x] = h[x] /\ g[x + 1] = v /\ t[x] = k
      BY <2>1, <2>5, <1>0, <1>9, <1>11
    <3> QED
      BY <2>1, <3>1, Zenon
  <2> QED
    BY <2>3, <2>4, <2>5, <1>9
<1>16. Indices(g, 0, D, dims, t)
  BY <1>14, <1>15, Zenon DEF Indices
<1> HIDE DEF g
<1>17. Linear(t) = g[1]
  BY <1>12, <1>16, PathFrom, Zenon
<1> QED
  BY <1>2, <1>10, <1>13, <1>14, <1>17, Zenon

\* The emitted code, which starts from the last index, numbers points alike.
LEMMA PointCoordIsLinear ==
  ASSUME dims \in DimsChoices, NEW c \in Coords
  PROVE  PointCoord(c) = Linear(c)
<1>0. D \in Nat /\ D > 0 /\ D - 1 \in Nat /\ \A a \in 1..D : dims[a] \in Nat /\ dims[a] > 0
  BY Dimensions, SMT
<1>1. c \in [1..D -> Int]
  BY CoordsAre, Zenon
<1>2. PICK h : h \in [1..(D + 1) -> Int] /\ h[D + 1] = 0 /\ h[1] = Linear(c)
               /\ \A x \in 1..D : h[x] = h[x + 1] * dims[x] + c[x]
  BY <1>1, PathExists, Zenon DEF Path
<1>3. c[D] \in Int /\ h[D] = c[D]
  <2>1. D \in 1..D /\ dims[D] \in Int /\ c[D] \in Int
    BY <1>0, <1>1
  <2>2. h[D] = 0 * dims[D] + c[D]
    BY <1>2, <2>1
  <2> QED
    BY <2>1, <2>2
<1> DEFINE g == [x \in 1..(D - 1 + 1) |-> h[x]]
<1>4. g \in [1..(D - 1 + 1) -> Int] /\ g[D - 1 + 1] = c[D] /\ g[1] = h[1]
  BY <1>0, <1>2, <1>3
<1>5. ASSUME NEW x \in 1..(D - 1)
      PROVE  g[x] = g[x + 1] * dims[x] + c[x] /\ dims[x] \in Int /\ c[x] \in Int
  <2>1. x \in 1..D /\ x \in 1..(D - 1 + 1) /\ x + 1 \in 1..(D - 1 + 1)
    BY <1>0
  <2>2. g[x] = h[x] /\ g[x + 1] = h[x + 1]
    BY <2>1
  <2>3. h[x] = h[x + 1] * dims[x] + c[x]
    BY <1>2, <2>1
  <2>4. dims[x] \in Int /\ c[x] \in Int
    BY <1>0, <1>1, <2>1
  <2> QED
    BY <2>2, <2>3, <2>4, Zenon
<1>6. Indices(g, c[D], D - 1, dims, c)
  BY <1>4, <1>5, Zenon DEF Indices
<1> HIDE DEF g
<1>7. Accumulate(c[D], D - 1, dims, c) = g[1]
  <2>1. \A x \in 1..(D - 1) : dims[x] \in Int /\ c[x] \in Int
    BY <1>5, Zenon
  <2> QED
    BY <1>0, <1>3, <1>6, <2>1, AccumulateFrom
<1> QED
  BY <1>2, <1>4, <1>7, Zenon DEF PointCoord

\* An edge is numbered by its point and, innermost, its direction.
LEMMA EdgeCoordIs ==
  ASSUME dims \in DimsChoices, NEW c \in Coords, NEW dir \in 1..D
  PROVE  EdgeCoord(dir, c) = Linear(c) * D + (dir - 1)
<1>0. D \in Nat /\ D > 0 /\ Axes = 1..D /\ \A a \in 1..D : dims[a] \in Nat /\ dims[a] > 0
  BY Dimensions, SMT
<1>1. c \in [1..D -> Int]
  BY CoordsAre, Zenon
<1>2. PICK h : h \in [1..(D + 1) -> Int] /\ h[D + 1] = 0 /\ h[1] = Linear(c)
               /\ \A x \in 1..D : h[x] = h[x + 1] * dims[x] + c[x]
  BY <1>1, PathExists, Zenon DEF Path
<1>3. c[D] \in Int /\ h[D] = c[D]
  <2>1. D \in 1..D /\ dims[D] \in Int /\ c[D] \in Int
    BY <1>0, <1>1
  <2>2. h[D] = 0 * dims[D] + c[D]
    BY <1>2, <2>1
  <2> QED
    BY <2>1, <2>2
<1>4. PICK size : size = [a \in Axes |-> IF a = 1 THEN D ELSE dims[a - 1]]
  OBVIOUS
<1>5. PICK coord : coord = [a \in Axes |-> IF a = 1 THEN dir - 1 ELSE c[a - 1]]
  OBVIOUS
<1> DEFINE g == [x \in 1..(D + 1) |-> IF x = 1 THEN h[1] * D + (dir - 1) ELSE h[x - 1]]
<1>6. h[1] \in Int /\ h[1] * D + (dir - 1) \in Int
  <2>1. 1 \in 1..(D + 1)
    BY <1>0
  <2>2. h[1] \in Int
    BY <1>2, <2>1
  <2> QED
    BY <1>0, <2>2
<1>7. g \in [1..(D + 1) -> Int] /\ g[D + 1] = c[D] /\ g[1] = h[1] * D + (dir - 1)
  BY <1>0, <1>2, <1>3, <1>6
<1>8. ASSUME NEW x \in 1..D
      PROVE  g[x] = g[x + 1] * size[x] + coord[x] /\ size[x] \in Int /\ coord[x] \in Int
  <2>1. CASE x = 1
    <3>1. size[x] = D /\ coord[x] = dir - 1
      BY <2>1, <1>0, <1>4, <1>5
    <3>2. g[x] = h[1] * D + (dir - 1) /\ g[x + 1] = h[1]
      BY <2>1, <1>0
    <3> HIDE DEF g
    <3>3. D \in Int /\ dir - 1 \in Int
      BY <1>0
    <3> QED
      BY <3>1, <3>2, <3>3, Zenon
  <2>2. CASE x # 1
    <3>1. x - 1 \in 1..D /\ x - 1 + 1 = x
      BY <2>2, <1>0
    <3>2. size[x] = dims[x - 1] /\ coord[x] = c[x - 1]
      BY <2>2, <1>0, <1>4, <1>5
    <3>3. g[x] = h[x - 1] /\ g[x + 1] = h[x]
      BY <2>2, <1>0
    <3>4. h[x - 1] = h[x] * dims[x - 1] + c[x - 1]
      BY <3>1, <1>2
    <3>5. dims[x - 1] \in Int /\ c[x - 1] \in Int
      BY <3>1, <1>0, <1>1
    <3> HIDE DEF g
    <3> QED
      BY <3>2, <3>3, <3>4, <3>5, Zenon
  <2> QED
    BY <2>1, <2>2
<1>9. Indices(g, c[D], D, size, coord)
  BY <1>7, <1>8, Zenon DEF Indices
<1> HIDE DEF g
<1>10. Accumulate(c[D], D, size, coord) = g[1]
  <2>1. \A x \in 1..D : size[x] \in Int /\ coord[x] \in Int
    BY <1>8, Zenon
  <2> QED
    BY <1>0, <1>3, <1>9, <2>1, AccumulateFrom
<1> QED
  BY <1>2, <1>4, <1>5, <1>7, <1>10, Zenon DEF EdgeCoord

\* A remainder is what a multiple leaves.
LEMMA RemainderIs ==
  ASSUME NEW v \in Int, NEW d \in Int, NEW k \in Int, 0 <= k, k < d
  PROVE  (v * d + k) % d = k
<1>1. PICK x \in Int : x = v * d + k
  OBVIOUS
<1>2. x \div d \in Int /\ x % d \in Int /\ 0 <= x % d /\ x % d < d
  OBVIOUS
<1>3. x = (x \div d) * d + (x % d)
  BY SMTT(30)
<1>4. PICK w \in Int, j \in Int : w = x \div d /\ j = x % d /\ 0 <= j /\ j < d /\ x = w * d + j
  BY <1>2, <1>3
<1>5. w = v
  <2>1. CASE w < v
    <3>1. w * d + j < v * d + k
      BY <2>1, <1>4, StaysBehind
    <3> QED
      BY <1>1, <1>4, <3>1
  <2>2. CASE v < w
    <3>1. v * d + k < w * d + j
      BY <2>2, <1>4, StaysBehind
    <3> QED
      BY <1>1, <1>4, <3>1
  <2> QED
    BY <2>1, <2>2
<1> QED
  BY <1>1, <1>4, <1>5

\* Adding the divisor leaves the remainder.
LEMMA RemainderPeriodic ==
  ASSUME NEW x \in Int, NEW d \in Nat, d > 0
  PROVE  (x + d) % d = x % d /\ x % d \in Int /\ 0 <= x % d /\ x % d < d
<1>1. x \div d \in Int /\ x % d \in Int /\ 0 <= x % d /\ x % d < d
  OBVIOUS
<1>2. x = (x \div d) * d + (x % d)
  BY SMTT(30)
<1>3. PICK w \in Int, j \in Int : w = x \div d /\ j = x % d /\ 0 <= j /\ j < d /\ x = w * d + j
  BY <1>1, <1>2
<1>4. (w + 1) * d = w * d + d /\ w * d \in Int
  BY NextMultiple
<1>5. x + d = (w + 1) * d + j
  <2>1. PICK m \in Int : m = w * d
    BY <1>4
  <2> QED
    BY <1>3, <1>4, <2>1
<1>6. ((w + 1) * d + j) % d = j
  <2>1. PICK u \in Int, e \in Int : u = w + 1 /\ e = d
    OBVIOUS
  <2>2. 0 <= j /\ j < e
    BY <1>3, <2>1
  <2>3. (u * e + j) % e = j
    BY <2>2, RemainderIs, Zenon
  <2> QED
    BY <2>1, <2>3, Zenon
<1> QED
  BY <1>1, <1>3, <1>5, <1>6

\* What is emitted for an offset, two truncating remainders, wraps round.
LEMMA RemWraps ==
  ASSUME NEW x \in Int, NEW d \in Nat, d > 0
  PROVE  Rem(Rem(x, d) + d, d) = x % d
<1>1. CASE x >= 0
  <2>1. Rem(x, d) = x % d /\ x % d \in Int /\ 0 <= x % d /\ x % d < d
    BY <1>1 DEF Rem
  <2>2. PICK j \in Int : j = x % d /\ 0 <= j /\ j < d
    BY <2>1
  <2>3. (j + d) % d = j % d /\ j % d = j
    BY <2>2, RemainderPeriodic
  <2>4. Rem(j + d, d) = (j + d) % d
    BY <2>2 DEF Rem
  <2> QED
    BY <2>1, <2>2, <2>3, <2>4
<1>2. CASE x < 0
  <2>1. PICK y \in Int : y = -x /\ y > 0
    BY <1>2
  <2>2. y = (y \div d) * d + (y % d) /\ y \div d \in Int /\ y % d \in Int /\ 0 <= y % d /\ y % d < d
    BY SMTT(30)
  <2>3. PICK w \in Int, j \in Int : j = y % d /\ y = w * d + j /\ 0 <= j /\ j < d
    BY <2>2
  <2>4. Rem(x, d) = -j
    BY <1>2, <2>1, <2>3 DEF Rem
  <2>5. Rem(-j + d, d) = (-j + d) % d
    BY <2>3 DEF Rem
  <2>6. (-w) * d = -(w * d) /\ w * d \in Int
    OBVIOUS
  <2>7. CASE j = 0
    <3>1. x = (-w) * d + 0
      BY <2>1, <2>3, <2>6, <2>7
    <3>2. ((-w) * d + 0) % d = 0
      BY RemainderIs
    <3>3. (0 + d) % d = 0
      BY RemainderPeriodic
    <3>4. -j + d = 0 + d
      BY <2>7
    <3> QED
      BY <2>4, <2>5, <3>1, <3>2, <3>3, <3>4
  <2>8. CASE j # 0
    <3>1. PICK u \in Int : u = -w - 1
      OBVIOUS
    <3>2. (u + 1) * d = u * d + d /\ u * d \in Int
      BY NextMultiple
    <3>3. (u + 1) * d = (-w) * d
      BY <3>1
    <3>4. x = u * d + (-j + d)
      BY <2>1, <2>3, <2>6, <3>2, <3>3
    <3>5. (u * d + (-j + d)) % d = -j + d
      <4>1. -j + d \in Int /\ 0 <= -j + d /\ -j + d < d
        BY <2>3, <2>8
      <4> QED
        BY <4>1, RemainderIs
    <3>6. (0 * d + (-j + d)) % d = -j + d
      <4>1. -j + d \in Int /\ 0 <= -j + d /\ -j + d < d
        BY <2>3, <2>8
      <4> QED
        BY <4>1, RemainderIs
    <3>7. 0 * d + (-j + d) = -j + d
      BY <2>3
    <3> QED
      BY <2>4, <2>5, <3>4, <3>5, <3>6, <3>7
  <2> QED
    BY <2>3, <2>7, <2>8
<1> QED
  BY <1>1, <1>2

\* A place offset on the torus is a place, and the emitted indices are it.
LEMMA OffsetIndicesWrap ==
  ASSUME dims \in DimsChoices, NEW c \in Coords, NEW o \in [1..D -> Int]
  PROVE  Wrapped(c, o) \in Coords /\ OffsetIndices(c, o) = Wrapped(c, o)
<1>0. D \in Nat /\ D > 0 /\ Axes = 1..D /\ \A a \in 1..D : dims[a] \in Nat /\ dims[a] > 0
  BY Dimensions, Zenon
<1>1. c \in [1..D -> Int]
  BY CoordsAre, Zenon
<1>2. PICK w : w = Wrapped(c, o)
  OBVIOUS
<1>3. w = [a \in 1..D |-> (c[a] + o[a]) % dims[a]]
  BY <1>0, <1>2, Zenon DEF Wrapped
<1>4. ASSUME NEW a \in 1..D
      PROVE  /\ w[a] \in Int /\ 0 <= w[a] /\ w[a] < dims[a]
             /\ Rem(Rem(c[a] + o[a], dims[a]) + dims[a], dims[a]) = w[a]
  <2>1. PICK x \in Int, d \in Nat : x = c[a] + o[a] /\ d = dims[a] /\ d > 0
    <3>1. c[a] + o[a] \in Int
      BY <1>1
    <3>2. dims[a] \in Nat /\ dims[a] > 0
      BY <1>0, Zenon
    <3> QED
      BY <3>1, <3>2, Zenon
  <2>2. x % d \in Int /\ 0 <= x % d /\ x % d < d
    BY <2>1, RemainderPeriodic
  <2>3. Rem(Rem(x, d) + d, d) = x % d
    BY <2>1, RemWraps
  <2>4. w[a] = x % d
    BY <1>3, <2>1
  <2> QED
    BY <2>1, <2>2, <2>3, <2>4, Zenon
<1>5. w \in [1..D -> Int]
  BY <1>3, <1>4
<1>6. w \in Coords
  BY <1>4, <1>5, CoordsAre, Zenon
<1>7. OffsetIndices(c, o) = w
  <2>1. OffsetIndices(c, o) = [a \in 1..D |-> Rem(Rem(c[a] + o[a], dims[a]) + dims[a], dims[a])]
    BY <1>0, Zenon DEF OffsetIndices
  <2>2. [a \in 1..D |-> Rem(Rem(c[a] + o[a], dims[a]) + dims[a], dims[a])] = [a \in 1..D |-> w[a]]
    BY <1>4, Zenon
  <2>3. w = [a \in 1..D |-> w[a]]
    BY <1>5, Zenon
  <2> QED
    BY <2>1, <2>2, <2>3, Zenon
<1> QED
  BY <1>2, <1>6, <1>7, Zenon

\* The offsets of the stencil have one component per dimension.
LEMMA StencilIs ==
  ASSUME dims \in DimsChoices
  PROVE  Len(Stencil) \in Nat /\ \A k \in 1..Len(Stencil) : Stencil[k] \in [1..D -> Int]
<1>1. D \in {Len(x) : x \in DimsChoices}
  BY Zenon DEF D
<1>2. Stencil \in Seq(Seq(Int)) /\ \A k \in 1..Len(Stencil) : Len(Stencil[k]) = D
  BY <1>1, StencilsAssumption, Zenon DEF Stencil
<1>3. Len(Stencil) \in Nat /\ DOMAIN Stencil = 1..Len(Stencil)
      /\ \A k \in DOMAIN Stencil : Stencil[k] \in Seq(Int)
  BY <1>2, SeqParts, Zenon
<1>4. ASSUME NEW k \in 1..Len(Stencil) PROVE Stencil[k] \in [1..D -> Int]
  <2>1. Stencil[k] \in Seq(Int) /\ Len(Stencil[k]) = D
    BY <1>2, <1>3, Zenon
  <2>2. Stencil[k] \in [1..Len(Stencil[k]) -> Int]
    BY <2>1, SeqParts, Zenon
  <2> QED
    BY <2>1, <2>2, Zenon
<1> QED
  BY <1>3, <1>4, Zenon

\* What the kernel reads in a slot is the neighbour on the torus.
LEMMA PointReadIs ==
  ASSUME dims \in DimsChoices, ivs \in Coords, NEW o \in [1..D -> Int]
  PROVE  PointRead(o) = Linear(Wrapped(ivs, o)) /\ PointRead(o) \in Int
<1>1. Wrapped(ivs, o) \in Coords /\ OffsetIndices(ivs, o) = Wrapped(ivs, o)
  BY OffsetIndicesWrap, Zenon
<1>2. PointCoord(Wrapped(ivs, o)) = Linear(Wrapped(ivs, o))
  BY <1>1, PointCoordIsLinear, Zenon
<1>3. Linear(Wrapped(ivs, o)) \in Int
  BY <1>1, LinearBelow, SMT
<1> QED
  BY <1>1, <1>2, <1>3, Zenon DEF PointRead


-----------------------------------------------------------------------------
(* The inductive invariant.                                                *)

\* The loop nest is at the place whose position the loop variable is.
NestAtLoopVar ==
  /\ loopVar \in Nat /\ loopVar <= Total
  /\ loopVar < Total => ivs \in Coords /\ Linear(ivs) = loopVar

\* Each iteration has left the neighbours of its place.
RowsAreNeighbors ==
  /\ rows \in Seq([1..Len(Stencil) -> Int]) /\ Len(rows) = loopVar
  /\ \A r \in 1..loopVar, k \in 1..Len(Stencil), c \in Coords :
       Linear(c) = r - 1 => rows[r][k] = Linear(Wrapped(c, Stencil[k]))

GridInv == dims \in DimsChoices /\ NestAtLoopVar /\ RowsAreNeighbors

\* The loop nest starts at the first point.
LEMMA GridInitInv == GridInit => GridInv
<1> SUFFICES ASSUME GridInit PROVE GridInv
  OBVIOUS
<1>0. dims \in DimsChoices /\ ivs = [a \in Axes |-> 0] /\ loopVar = 0 /\ rows = <<>>
  BY Zenon DEF GridInit
<1>1. D \in Nat /\ D > 0 /\ Axes = 1..D /\ \A a \in 1..D : dims[a] \in Nat /\ dims[a] > 0
  BY <1>0, Dimensions, Zenon
<1>2. ivs \in [1..D -> Int] /\ \A a \in 1..D : ivs[a] = 0 /\ 0 <= ivs[a] /\ ivs[a] < dims[a]
  BY <1>0, <1>1
<1>3. ivs \in Coords
  BY <1>0, <1>2, CoordsAre, Zenon
<1>4. Linear(ivs) = 0
  <2> DEFINE h == [x \in 1..(D + 1) |-> 0]
  <2>1. h \in [1..(D + 1) -> Int] /\ h[D + 1] = 0 /\ h[1] = 0
    BY <1>1
  <2>2. ASSUME NEW x \in 1..D PROVE h[x] = h[x + 1] * dims[x] + ivs[x]
    <3>1. h[x] = 0 /\ h[x + 1] = 0 /\ ivs[x] = 0 /\ dims[x] \in Int
      BY <1>1, <1>2
    <3> HIDE DEF h
    <3>2. 0 * dims[x] + 0 = 0
      BY <3>1
    <3> QED
      BY <3>1, <3>2, Zenon
  <2>3. Indices(h, 0, D, dims, ivs)
    BY <2>1, <2>2, Zenon DEF Indices
  <2> HIDE DEF h
  <2> QED
    BY <1>0, <1>2, <2>1, <2>3, PathFrom, Zenon
<1>5. Total \in Nat
  BY <1>0, <1>3, LinearBelow, Zenon
<1>6. NestAtLoopVar
  BY <1>0, <1>3, <1>4, <1>5 DEF NestAtLoopVar
<1>7. RowsAreNeighbors
  <2>1. rows \in Seq([1..Len(Stencil) -> Int]) /\ Len(rows) = 0
    BY <1>0, EmptySeq, Zenon
  <2>2. 1..loopVar = {}
    BY <1>0
  <2> QED
    BY <1>0, <2>1, <2>2, Zenon DEF RowsAreNeighbors
<1> QED
  BY <1>0, <1>6, <1>7, Zenon DEF GridInv

\* The shape of the grid, and all that follows from it, stays.
LEMMA ShapeStays ==
  ASSUME dims' = dims
  PROVE  /\ D' = D /\ Axes' = Axes /\ Total' = Total /\ Coords' = Coords /\ Stencil' = Stencil
         /\ \A c : Accumulate(0, D', dims', c) = Linear(c)
         /\ \A c, o : [a \in Axes' |-> (c[a] + o[a]) % dims'[a]] = Wrapped(c, o)
<1>1. D' = D /\ Axes' = Axes /\ Stencil' = Stencil
  BY Zenon DEF D, Axes, Stencil
<1>2. Total' = Total
  BY <1>1, Zenon DEF Total
<1>3. Coords' = Coords
  BY <1>1, Zenon DEF Coords
<1>4. \A c : Accumulate(0, D', dims', c) = Linear(c)
  BY <1>1, Zenon DEF Linear
<1>5. \A c, o : [a \in Axes' |-> (c[a] + o[a]) % dims'[a]] = Wrapped(c, o)
  BY <1>1, Zenon DEF Wrapped
<1> QED
  BY <1>1, <1>2, <1>3, <1>4, <1>5, Zenon


\* So does the neighbour in a slot.
LEMMA NeighborStays ==
  ASSUME dims' = dims, NEW c, NEW k
  PROVE  Linear(Wrapped(c, Stencil[k]))' = Linear(Wrapped(c, Stencil[k]))
<1>1. /\ Stencil' = Stencil
      /\ \A b : Accumulate(0, D', dims', b) = Linear(b)
      /\ \A b, o : [a \in Axes' |-> (b[a] + o[a]) % dims'[a]] = Wrapped(b, o)
  BY ShapeStays, Zenon
<1>2. Wrapped(c, Stencil[k])' = Wrapped(c, Stencil[k])
  BY <1>1, Zenon DEF Wrapped
<1> QED
  BY <1>1, <1>2, Zenon DEF Linear

\* The constructor's loops leave what the map's loop nest works on alone.
LEMMA ConstructorInv ==
  ASSUME GridInv, UNCHANGED <<dims, ivs, loopVar, rows>>
  PROVE  GridInv'
<1>1. dims' = dims /\ ivs' = ivs /\ loopVar' = loopVar /\ rows' = rows
  OBVIOUS
<1>2. /\ Total' = Total /\ Coords' = Coords /\ Stencil' = Stencil
      /\ \A c : Accumulate(0, D', dims', c) = Linear(c)
      /\ \A c, o : [a \in Axes' |-> (c[a] + o[a]) % dims'[a]] = Wrapped(c, o)
  BY <1>1, ShapeStays, Zenon
<1>3. NestAtLoopVar'
  <2>1. Linear(ivs)' = Linear(ivs)
    BY <1>1, <1>2, Zenon DEF Linear
  <2> QED
    BY <1>1, <1>2, <2>1, Zenon DEF GridInv, NestAtLoopVar
<1>4. RowsAreNeighbors'
  <2>1. rows' \in Seq([1..Len(Stencil') -> Int]) /\ Len(rows') = loopVar'
    BY <1>1, <1>2, Zenon DEF GridInv, RowsAreNeighbors
  <2>2. ASSUME NEW r \in 1..loopVar', NEW k \in 1..Len(Stencil'), NEW c \in Coords',
               Linear(c)' = r - 1
        PROVE  rows'[r][k] = Linear(Wrapped(c, Stencil[k]))'
    <3>1. Linear(c)' = Linear(c)
      BY <1>2, Zenon DEF Linear
    <3>3. Linear(Wrapped(c, Stencil[k]))' = Linear(Wrapped(c, Stencil[k]))
      BY <1>1, NeighborStays, Zenon
    <3>4. rows[r][k] = Linear(Wrapped(c, Stencil[k]))
      BY <1>1, <1>2, <2>2, <3>1, ZenonT(60) DEF GridInv, RowsAreNeighbors
    <3> QED
      BY <1>1, <3>3, <3>4, Zenon
  <2> QED
    BY <2>1, <2>2, Zenon DEF RowsAreNeighbors
<1> QED
  BY <1>1, <1>3, <1>4, Zenon DEF GridInv

\* One iteration of the map's loop nest.
LEMMA VisitInv ==
  ASSUME GridInv, Visit
  PROVE  GridInv'
<1>0. dims \in DimsChoices /\ NestAtLoopVar /\ RowsAreNeighbors
  BY Zenon DEF GridInv
<1>1. /\ dims' = dims /\ loopVar < Total
      /\ rows' = Append(rows, [k \in 1..Len(Stencil) |-> PointRead(Stencil[k])])
      /\ loopVar' = loopVar + 1 /\ ivs' = Turned(ivs)
  BY DEF Visit
<1>2. /\ Total' = Total /\ Coords' = Coords /\ Stencil' = Stencil
      /\ \A c : Accumulate(0, D', dims', c) = Linear(c)
      /\ \A c, o : [a \in Axes' |-> (c[a] + o[a]) % dims'[a]] = Wrapped(c, o)
  BY <1>1, ShapeStays, Zenon
<1>3. loopVar \in Nat /\ ivs \in Coords /\ Linear(ivs) = loopVar
  BY <1>0, <1>1, Zenon DEF NestAtLoopVar
<1>4. Total \in Nat
  BY <1>0, <1>3, LinearBelow, Zenon
<1>5. NestAtLoopVar'
  <2>1. loopVar' \in Nat /\ loopVar' <= Total'
    BY <1>1, <1>2, <1>3, <1>4
  <2>2. ASSUME loopVar' < Total' PROVE ivs' \in Coords' /\ Linear(ivs)' = loopVar'
    <3>1. Linear(ivs) + 1 < Total
      BY <2>2, <1>1, <1>2, <1>3
    <3>2. Turned(ivs) \in Coords /\ Linear(Turned(ivs)) = Linear(ivs) + 1
      BY <1>0, <1>3, <3>1, TurnedFollows, Zenon
    <3>3. Linear(ivs)' = Linear(ivs')
      BY <1>2, Zenon DEF Linear
    <3> QED
      BY <1>1, <1>2, <1>3, <3>2, <3>3, Zenon
  <2> QED
    BY <2>1, <2>2, Zenon DEF NestAtLoopVar
<1>6. RowsAreNeighbors'
  <2> DEFINE row == [k \in 1..Len(Stencil) |-> PointRead(Stencil[k])]
  <2>1. Len(Stencil) \in Nat /\ \A k \in 1..Len(Stencil) : Stencil[k] \in [1..D -> Int]
    BY <1>0, StencilIs, Zenon
  <2>2. ASSUME NEW k \in 1..Len(Stencil)
        PROVE  row[k] = Linear(Wrapped(ivs, Stencil[k])) /\ row[k] \in Int
    <3>1. row[k] = PointRead(Stencil[k])
      BY Zenon
    <3> QED
      BY <3>1, <2>1, <1>0, <1>3, PointReadIs, Zenon
  <2>3. row \in [1..Len(Stencil) -> Int]
    BY <2>2, Zenon
  <2> HIDE DEF row
  <2>4. rows \in Seq([1..Len(Stencil) -> Int]) /\ Len(rows) = loopVar
    BY <1>0, Zenon DEF RowsAreNeighbors
  <2>5. /\ rows' \in Seq([1..Len(Stencil) -> Int]) /\ Len(rows') = loopVar + 1
        /\ \A r \in 1..loopVar : rows'[r] = rows[r]
        /\ rows'[loopVar + 1] = row
    <3>1. rows' = Append(rows, row)
      BY <1>1, Zenon DEF row
    <3> QED
      <4> DEFINE S == [1..Len(Stencil) -> Int]
      <4>1. rows \in Seq(S) /\ row \in S
        BY <2>3, <2>4, Zenon
      <4> HIDE DEF S
      <4>2. /\ Append(rows, row) \in Seq(S) /\ Len(Append(rows, row)) = Len(rows) + 1
            /\ \A i \in 1..Len(rows) : Append(rows, row)[i] = rows[i]
            /\ Append(rows, row)[Len(rows) + 1] = row
        BY <4>1, AppendProperties
      <4> QED
        BY <3>1, <2>4, <4>2, Zenon DEF S
  <2>6. ASSUME NEW r \in 1..loopVar', NEW k \in 1..Len(Stencil'), NEW c \in Coords',
               Linear(c)' = r - 1
        PROVE  rows'[r][k] = Linear(Wrapped(c, Stencil[k]))'
    <3>0. k \in 1..Len(Stencil) /\ c \in Coords
      BY <1>2, <2>6, Zenon
    <3>1. Linear(c)' = Linear(c) /\ k \in 1..Len(Stencil) /\ c \in Coords
      BY <1>2, <3>0, Zenon DEF Linear
    <3>3. Linear(Wrapped(c, Stencil[k]))' = Linear(Wrapped(c, Stencil[k]))
      BY <1>1, NeighborStays, Zenon
    <3>4. rows'[r][k] = Linear(Wrapped(c, Stencil[k]))
      <4>1. CASE r = loopVar + 1
        <5>1. Linear(c) = Linear(ivs)
          BY <4>1, <1>3, <2>6, <3>1
        <5>2. c = ivs
          BY <1>0, <1>3, <3>1, <5>1, PeelUndoes, Zenon
        <5> QED
          BY <4>1, <2>2, <2>5, <3>1, <5>2, Zenon
      <4>2. CASE r # loopVar + 1
        <5>1. r \in 1..loopVar
          BY <4>2, <1>1, <1>3
        <5>2. rows[r][k] = Linear(Wrapped(c, Stencil[k]))
          BY <1>0, <2>6, <3>1, <5>1, Zenon DEF RowsAreNeighbors
        <5> QED
          BY <2>5, <5>1, <5>2, Zenon
      <4> QED
        BY <4>1, <4>2
    <3> QED
      BY <3>3, <3>4, Zenon
  <2> QED
    BY <1>1, <1>2, <2>5, <2>6, Zenon DEF RowsAreNeighbors
<1> QED
  BY <1>0, <1>1, <1>5, <1>6, Zenon DEF GridInv

\* Every step keeps the invariant.
LEMMA GridStepInv == GridInv /\ [GridNext]_gridVars => GridInv'
<1> SUFFICES ASSUME GridInv, [GridNext]_gridVars PROVE GridInv'
  OBVIOUS
<1>1. CASE AddPoint
  <2>1. UNCHANGED <<dims, ivs, loopVar, rows>>
    BY <1>1 DEF AddPoint
  <2> QED
    BY <2>1, ConstructorInv
<1>2. CASE AddGridEdge
  <2>1. UNCHANGED <<dims, ivs, loopVar, rows>>
    BY <1>2 DEF AddGridEdge
  <2> QED
    BY <2>1, ConstructorInv
<1>3. CASE Visit
  BY <1>3, VisitInv
<1>4. CASE UNCHANGED gridVars
  <2>1. UNCHANGED <<dims, ivs, loopVar, rows>>
    BY <1>4 DEF gridVars
  <2> QED
    BY <2>1, ConstructorInv
<1> QED
  BY <1>1, <1>2, <1>3, <1>4 DEF GridNext

\* The loop nest of a map keeps its loop variable and its indices together, and
\* its kernel reads the neighbours on the torus, on a grid of any dimensions.
THEOREM GridLoopInvariant == GridSpec => []GridInv
  BY GridInitInv, GridStepInv, PTL DEF GridSpec

\* The loop variable is the rank of the grid indices, getGridPoint of the
\* indices is the loop variable and getGridPointCoords takes it back.
THEOREM LoopVarAlwaysPoint == GridSpec => []LoopVarIsPoint
<1>1. GridInv => LoopVarIsPoint
  <2> SUFFICES ASSUME GridInv, loopVar < Total
               PROVE  /\ loopVar = Rank(ivs) /\ GetGridPoint(ivs) = loopVar
                      /\ GetGridPointCoords(loopVar) = ivs
    BY Zenon DEF LoopVarIsPoint
  <2>1. dims \in DimsChoices /\ ivs \in Coords /\ Linear(ivs) = loopVar
    BY Zenon DEF GridInv, NestAtLoopVar
  <2>2. Linear(ivs) \in 0..(Total - 1)
    BY <2>1, LinearBelow, Zenon
  <2>3. Rank(ivs) = loopVar
    BY <2>1, RankIsLinear, Zenon
  <2>4. GetGridPoint(ivs) = loopVar
    BY <2>1, <2>2, Zenon DEF GetGridPoint
  <2>5. GetGridPointCoords(loopVar) = ivs
    BY <2>1, PeelUndoes, Zenon
  <2> QED
    BY <2>3, <2>4, <2>5, Zenon
<1> QED
  BY <1>1, GridLoopInvariant, PTL


-----------------------------------------------------------------------------
(* The path index and the edges.                                           *)

\* No offset is below minus a dimension, unless that dimension is one: what
\* Link::vv needs for its single remainder, which no code checks.
OnceAround ==
  \A s \in DimsChoices : \A k \in 1..Len(Stencils[Len(s)]), a \in 1..Len(s) :
    s[a] = 1 \/ Stencils[Len(s)][k][a] >= -s[a]

\* One truncating remainder wraps an offset that goes round at most once.
LEMMA RemOnceWraps ==
  ASSUME NEW c \in Int, NEW o \in Int, NEW d \in Nat, d > 0, c >= 0, d = 1 \/ o >= -d
  PROVE  Rem(c + o + d, d) = (c + o) % d
<1>1. PICK x \in Int : x = c + o
  OBVIOUS
<1>2. CASE o >= -d
  <2>1. x + d >= 0
    BY <1>1, <1>2
  <2>2. Rem(x + d, d) = (x + d) % d
    BY <2>1 DEF Rem
  <2>3. (x + d) % d = x % d
    BY RemainderPeriodic
  <2> QED
    BY <1>1, <2>2, <2>3
<1>3. CASE d = 1
  <2>1. \A y \in Int : y % 1 = 0
    OBVIOUS
  <2>2. Rem(x + 1, 1) = 0
    BY <2>1 DEF Rem
  <2> QED
    BY <1>1, <1>3, <2>1, <2>2
<1> QED
  BY <1>2, <1>3

\* The neighbour that the path index has in a slot is the one on the torus.
LEMMA StencilNeighborIs ==
  ASSUME OnceAround, dims \in DimsChoices, NEW v \in 0..(Total - 1),
         NEW k \in 1..Len(Stencil)
  PROVE  LET w == Wrapped(GetGridPointCoords(v), Stencil[k])
         IN  w \in Coords /\ StencilNeighbor(v, Stencil[k]) = Linear(w)
<1>0. D \in Nat /\ D > 0 /\ Axes = 1..D /\ \A a \in 1..D : dims[a] \in Nat /\ dims[a] > 0
  BY Dimensions, Zenon
<1>1. PICK c : c = GetGridPointCoords(v)
  OBVIOUS
<1>2. PICK o : o = Stencil[k]
  OBVIOUS
<1>3. c \in Coords
  BY <1>1, PeelPlace, Zenon
<1>4. o \in [1..D -> Int]
  BY <1>2, StencilIs, Zenon
<1>5. c \in [1..D -> Int] /\ \A a \in 1..D : 0 <= c[a]
  BY <1>3, CoordsAre, Zenon
<1>6. \A a \in 1..D : dims[a] = 1 \/ o[a] >= -dims[a]
  BY <1>2, Zenon DEF OnceAround, Stencil, D
<1>7. ASSUME NEW a \in 1..D
      PROVE  Rem(c[a] + o[a] + dims[a], dims[a]) = (c[a] + o[a]) % dims[a]
  <2>1. PICK x \in Int, y \in Int, d \in Nat : x = c[a] /\ y = o[a] /\ d = dims[a]
    BY <1>0, <1>4, <1>5
  <2>2. d > 0 /\ x >= 0 /\ (d = 1 \/ y >= -d)
    BY <1>0, <1>5, <1>6, <2>1
  <2>3. Rem(x + y + d, d) = (x + y) % d
    BY <2>2, RemOnceWraps
  <2> QED
    BY <2>1, <2>3, Zenon
<1>8. [a \in 1..D |-> Rem(c[a] + o[a] + dims[a], dims[a])] = Wrapped(c, o)
  <2>1. Wrapped(c, o) = [a \in 1..D |-> (c[a] + o[a]) % dims[a]]
    BY <1>0, Zenon DEF Wrapped
  <2> QED
    BY <1>7, <2>1, Zenon
<1>9. StencilNeighbor(v, o) = GetGridPoint(Wrapped(c, o))
  <2>1. StencilNeighbor(v, o) = GetGridPoint([a \in 1..D |-> Rem(c[a] + o[a] + dims[a], dims[a])])
    BY <1>0, <1>1, Zenon DEF StencilNeighbor
  <2> QED
    BY <1>8, <2>1, Zenon
<1>10. Wrapped(c, o) \in Coords
  BY <1>3, <1>4, OffsetIndicesWrap, Zenon
<1>11. Linear(Wrapped(c, o)) \in 0..(Total - 1)
  BY <1>10, LinearBelow, Zenon
<1> QED
  BY <1>1, <1>2, <1>9, <1>10, <1>11, Zenon DEF GetGridPoint

\* Provided no offset goes round more than once, the kernel's reads in each slot
\* of each row are the columns of the path index and the torus' neighbours.
THEOREM SlotsAlwaysMatchIndex ==
  ASSUME OnceAround
  PROVE  GridSpec => []SlotsMatchIndex
<1>1. GridInv => SlotsMatchIndex
  <2> SUFFICES ASSUME GridInv, NEW r \in 1..Len(rows), NEW k \in 1..Len(Stencil)
               PROVE  /\ rows[r][k] = StencilNeighbor(r - 1, Stencil[k])
                      /\ rows[r][k] = Rank(Wrapped(GetGridPointCoords(r - 1), Stencil[k]))
    BY Zenon DEF SlotsMatchIndex
  <2>1. dims \in DimsChoices /\ loopVar \in Nat /\ loopVar <= Total /\ Len(rows) = loopVar
    BY Zenon DEF GridInv, NestAtLoopVar, RowsAreNeighbors
  <2>2. Total \in Nat
    <3>1. PICK q : q \in [1..(D + 1) -> Nat] /\ q[1] = Total
      BY <2>1, TotalIs, Zenon
    <3>2. 1 \in 1..(D + 1)
      BY <2>1, Dimensions, SMT
    <3> QED
      BY <3>1, <3>2
  <2>3. r \in 1..loopVar /\ r - 1 \in 0..(Total - 1)
    BY <2>1, <2>2
  <2>4. PICK c : c = GetGridPointCoords(r - 1)
    OBVIOUS
  <2>5. c \in Coords /\ Linear(c) = r - 1
    BY <2>1, <2>3, <2>4, PeelPlace, Zenon
  <2>6. rows[r][k] = Linear(Wrapped(c, Stencil[k]))
    BY <2>3, <2>5, Zenon DEF GridInv, RowsAreNeighbors
  <2>7. Wrapped(c, Stencil[k]) \in Coords
        /\ StencilNeighbor(r - 1, Stencil[k]) = Linear(Wrapped(c, Stencil[k]))
    BY <2>1, <2>3, <2>4, StencilNeighborIs, Zenon
  <2>8. Rank(Wrapped(c, Stencil[k])) = Linear(Wrapped(c, Stencil[k]))
    BY <2>1, <2>7, RankIsLinear, Zenon
  <2> QED
    BY <2>4, <2>6, <2>7, <2>8, Zenon
<1> QED
  BY <1>1, GridLoopInvariant, PTL

\* An edge between places that differ along one axis is looked up in the
\* direction of that axis, at the lower place.
LEMMA EdgeReadIs ==
  ASSUME NEW src, NEW sink, NEW dir \in Axes, src[dir] # sink[dir],
         \A x \in Axes : x # dir => src[x] = sink[x]
  PROVE  EdgeRead(src, sink) =
           EdgeCoord(dir, OffsetIndices(ivs, IF src[dir] < sink[dir] THEN src ELSE sink))
<1>1. PICK a : a = CHOOSE x \in Axes : src[x] # sink[x]
  OBVIOUS
<1>2. a \in Axes /\ src[a] # sink[a]
  BY <1>1, Zenon
<1>3. a = dir
  BY <1>2, Zenon
<1>4. EdgeRead(src, sink) =
        EdgeCoord(a, OffsetIndices(ivs, IF src[a] < sink[a] THEN src ELSE sink))
  BY <1>1, Zenon DEF EdgeRead
<1> QED
  BY <1>3, <1>4, Zenon

\* Both ways round, the kernel's read of an edge next to a place of the stencil
\* is the element getGridEdge gives the client.
THEOREM EdgeReadsAlwaysMatch == GridSpec => []EdgeReadsMatch
<1>1. GridInv => EdgeReadsMatch
  <2> SUFFICES ASSUME GridInv, loopVar < Total, NEW k \in 1..Len(Stencil), NEW a \in Axes
               PROVE  LET o == Stencil[k]
                          e == GetGridEdge(Wrapped(ivs, o), a)
                      IN  EdgeRead(o, Plus(o, Unit(a))) = e /\ EdgeRead(Plus(o, Unit(a)), o) = e
    BY Zenon DEF EdgeReadsMatch
  <2>1. dims \in DimsChoices /\ ivs \in Coords
    BY Zenon DEF GridInv, NestAtLoopVar
  <2>2. D \in Nat /\ D > 0 /\ Axes = 1..D
    BY <2>1, Dimensions, Zenon
  <2>3. PICK o : o = Stencil[k]
    OBVIOUS
  <2>4. o \in [1..D -> Int]
    BY <2>1, <2>3, StencilIs, Zenon
  <2>5. PICK p : p = Plus(o, Unit(a))
    OBVIOUS
  <2>6. p = [x \in 1..D |-> o[x] + (IF x = a THEN 1 ELSE 0)]
    BY <2>2, <2>5 DEF Plus, Unit
  <2>7. p[a] = o[a] + 1 /\ o[a] \in Int /\ \A x \in Axes : x # a => p[x] = o[x] /\ o[x] = p[x]
    BY <2>2, <2>4, <2>6
  <2>8. o[a] # p[a] /\ p[a] # o[a] /\ o[a] < p[a] /\ ~(p[a] < o[a])
    BY <2>7
  <2>9. /\ EdgeRead(o, p) = EdgeCoord(a, OffsetIndices(ivs, o))
        /\ EdgeRead(p, o) = EdgeCoord(a, OffsetIndices(ivs, o))
    <3>1. EdgeRead(o, p) = EdgeCoord(a, OffsetIndices(ivs, IF o[a] < p[a] THEN o ELSE p))
      BY <2>7, <2>8, EdgeReadIs, Zenon
    <3>2. EdgeRead(p, o) = EdgeCoord(a, OffsetIndices(ivs, IF p[a] < o[a] THEN p ELSE o))
      BY <2>7, <2>8, EdgeReadIs, Zenon
    <3> QED
      BY <2>8, <3>1, <3>2, Zenon
  <2>10. PICK w : w = Wrapped(ivs, o)
    OBVIOUS
  <2>11. w \in Coords /\ OffsetIndices(ivs, o) = w
    BY <2>1, <2>4, <2>10, OffsetIndicesWrap, Zenon
  <2>12. EdgeCoord(a, w) = Linear(w) * D + (a - 1)
    BY <2>1, <2>2, <2>11, EdgeCoordIs, Zenon
  <2>13. PICK v \in Int, t \in Int : v = Linear(w) /\ t = Total /\ 0 <= v /\ v < t
    BY <2>1, <2>11, LinearBelow, SMT
  <2>14. 0 <= v * D + (a - 1) /\ v * D + (a - 1) < t * D
    <3>1. D \in Int /\ a - 1 \in Int /\ 0 <= a - 1 /\ a - 1 < D
      BY <2>2
    <3> QED
      BY <2>13, <3>1, StepBelow, Zenon
  <2>15. v * D + (a - 1) \in 0..(t * D - 1)
    <3>1. v * D + (a - 1) \in Int /\ t * D \in Int
      BY <2>2, <2>13
    <3> QED
      BY <2>14, <3>1
  <2>16. GetGridEdge(w, a) = Linear(w) * D + (a - 1)
    BY <2>13, <2>15, Zenon DEF GetGridEdge
  <2> QED
    BY <2>3, <2>5, <2>9, <2>10, <2>11, <2>12, <2>16, Zenon
<1> QED
  BY <1>1, GridLoopInvariant, PTL

(***************************************************************************)
(* Path indices.                                                           *)
(***************************************************************************)

(* Lists one after the other.                                              *)

\* The function that Joined defines over the first m lists.
IsJoined(f, m, lists) ==
  f = [i \in 0..m |-> IF i = 0 THEN <<>> ELSE f[i - 1] \o lists[i - 1]]

\* It exists for any number of lists.
LEMMA JoinedExists ==
  ASSUME NEW lists
  PROVE  \A m \in Nat : \E f : IsJoined(f, m, lists)
<1> DEFINE Turn(v, i) == v \o lists[i - 1]
           S == {m \in Nat : \E f : IsJoined(f, m, lists)}
<1>1. 0 \in S
  <2> DEFINE f == [i \in 0..0 |-> <<>>]
  <2>1. f = [i \in 0..0 |-> IF i = 0 THEN <<>> ELSE Turn(f[i - 1], i)]
    <3> HIDE DEF Turn
    <3> QED
      OBVIOUS
  <2> QED
    BY <2>1, Zenon DEF IsJoined
<1>2. ASSUME NEW m \in Nat, m \in S PROVE m + 1 \in S
  <2>1. PICK f : IsJoined(f, m, lists)
    BY <1>2, Zenon
  <2>2. f = [i \in 0..m |-> IF i = 0 THEN <<>> ELSE Turn(f[i - 1], i)]
    BY <2>1, Zenon DEF IsJoined
  <2> DEFINE g == [i \in 0..(m + 1) |-> IF i = 0 THEN <<>> ELSE Turn(f[i - 1], i)]
  <2> HIDE DEF Turn
  <2>3. \A i \in 0..m : g[i] = f[i]
    BY <2>2
  <2>4. ASSUME NEW i \in 0..(m + 1), i # 0 PROVE g[i - 1] = f[i - 1]
    <3>1. i - 1 \in 0..m
      BY <2>4
    <3> HIDE DEF g
    <3> QED
      BY <3>1, <2>3
  <2>5. g = [i \in 0..(m + 1) |-> IF i = 0 THEN <<>> ELSE Turn(g[i - 1], i)]
    BY <2>4
  <2>6. IsJoined(g, m + 1, lists)
    BY <2>5, Zenon DEF IsJoined, Turn
  <2>7. m + 1 \in Nat
    OBVIOUS
  <2> HIDE DEF g
  <2> QED
    BY <2>6, <2>7, Zenon
<1> HIDE DEF S
<1>3. \A m \in Nat : m \in S
  BY <1>1, <1>2, InductionOnNat, Zenon
<1> QED
  BY <1>3, Zenon DEF S

\* One more list is appended.
LEMMA JoinedStep ==
  ASSUME NEW n \in Nat, NEW lists, NEW f, IsJoined(f, n, lists), NEW i \in 0..(n - 1)
  PROVE  f[i + 1] = f[i] \o lists[i]
<1> DEFINE Turn(v, x) == v \o lists[x]
<1>1. i + 1 \in 0..n /\ i + 1 # 0 /\ i + 1 - 1 = i
  OBVIOUS
<1>2. f = [y \in 0..n |-> IF y = 0 THEN <<>> ELSE Turn(f[y - 1], y - 1)]
  BY Zenon DEF IsJoined
<1> HIDE DEF Turn
<1>3. f[i + 1] = Turn(f[i + 1 - 1], i + 1 - 1)
  BY <1>1, <1>2
<1>4. f[i + 1] = Turn(f[i], i)
  BY <1>1, <1>3
<1> QED
  BY <1>4, Zenon DEF Turn

Lists(n, S, lists) == \A i \in 0..(n - 1) : lists[i] \in Seq(S)

\* Each list is appended to the ones before it.
Appended(j, n, S, lists) ==
  /\ j \in [0..n -> Seq(S)] /\ j[0] = <<>>
  /\ \A i \in 0..(n - 1) : j[i + 1] = j[i] \o lists[i]

\* The lists joined so far, list by list.
LEMMA JoinedIs ==
  ASSUME NEW n \in Nat, NEW S, NEW lists, Lists(n, S, lists)
  PROVE  Appended(Joined(n, lists), n, S, lists)
<1>1. PICK f : f = Joined(n, lists)
  OBVIOUS
<1>2. IsJoined(f, n, lists)
  <2>1. f = CHOOSE g : IsJoined(g, n, lists)
    BY <1>1, Zenon DEF Joined, IsJoined
  <2> QED
    BY <2>1, JoinedExists, Zenon
<1>3. f[0] = <<>>
  BY <1>2 DEF IsJoined
<1>4. ASSUME NEW i \in 0..(n - 1) PROVE f[i + 1] = f[i] \o lists[i]
  BY <1>2, JoinedStep, Zenon
<1> DEFINE T == {i \in Nat : i <= n => f[i] \in Seq(S)}
<1>5. 0 \in T
  BY <1>3, EmptySeq
<1>6. ASSUME NEW i \in Nat, i \in T PROVE i + 1 \in T
  <2> SUFFICES ASSUME i + 1 <= n PROVE f[i + 1] \in Seq(S)
    BY SMT
  <2>1. i \in 0..(n - 1) /\ f[i] \in Seq(S)
    BY <1>6
  <2>2. f[i] \o lists[i] \in Seq(S)
    BY <2>1, ConcatProperties, Zenon DEF Lists
  <2> QED
    BY <1>4, <2>1, <2>2
<1> HIDE DEF T
<1>7. \A i \in Nat : i \in T
  BY <1>5, <1>6, InductionOnNat, Zenon
<1>8. ASSUME NEW i \in 0..n PROVE f[i] \in Seq(S)
  BY <1>7 DEF T
<1>9. f \in [0..n -> Seq(S)]
  <2>1. f = [i \in 0..n |-> f[i]]
    BY <1>2, Zenon DEF IsJoined
  <2> QED
    BY <1>8, <2>1, Zenon
<1> QED
  BY <1>1, <1>3, <1>4, <1>9, Zenon DEF Appended

\* The two parts of a concatenation.
LEMMA ConcatParts ==
  ASSUME NEW S, NEW q \in Seq(S), NEW r \in Seq(S)
  PROVE  /\ Len(q) \in Nat /\ Len(r) \in Nat /\ q \o r \in Seq(S)
         /\ Len(q \o r) = Len(q) + Len(r)
         /\ \A k \in 1..Len(q) : (q \o r)[k] = q[k]
         /\ \A k \in 1..Len(r) : (q \o r)[Len(q) + k] = r[k]
<1>1. PICK a \in Nat, b \in Nat : a = Len(q) /\ b = Len(r)
  BY LenProperties
<1>2. PICK c : c = q \o r
  OBVIOUS
<1>3. c \in Seq(S) /\ Len(c) = a + b
      /\ \A i \in 1..a + b : c[i] = IF i <= a THEN q[i] ELSE r[i - a]
  BY <1>1, <1>2, ConcatProperties, Zenon
<1>4. ASSUME NEW k \in 1..a PROVE c[k] = q[k]
  <2>1. k \in 1..a + b /\ k <= a
    OBVIOUS
  <2> QED
    BY <1>3, <2>1, Zenon
<1>5. ASSUME NEW k \in 1..b PROVE c[a + k] = r[k]
  <2>1. a + k \in 1..a + b /\ ~(a + k <= a) /\ (a + k) - a = k
    OBVIOUS
  <2> QED
    BY <1>3, <2>1, Zenon
<1> QED
  BY <1>1, <1>2, <1>3, <1>4, <1>5, Zenon

\* The elements of p come first in q.
Begins(p, q) == Len(p) <= Len(q) /\ \A k \in 1..Len(p) : q[k] = p[k]

\* A prefix stays a prefix when more is appended.
LEMMA BeginsConcat ==
  ASSUME NEW S, NEW p \in Seq(S), NEW q \in Seq(S), NEW r \in Seq(S), Begins(p, q)
  PROVE  Begins(p, q \o r)
<1>1. /\ Len(q) \in Nat /\ Len(r) \in Nat /\ Len(q \o r) = Len(q) + Len(r)
      /\ \A k \in 1..Len(q) : (q \o r)[k] = q[k]
  BY ConcatParts, Zenon
<1>2. PICK c : c = q \o r
  OBVIOUS
<1>3. PICK a \in Nat, b \in Nat, d \in Nat : a = Len(q) /\ b = Len(r) /\ d = Len(p)
  BY LenProperties
<1>4. Len(c) = a + b /\ d <= a /\ (\A k \in 1..a : c[k] = q[k]) /\ (\A k \in 1..d : q[k] = p[k])
  BY <1>1, <1>2, <1>3, Zenon DEF Begins
<1>5. d <= a + b
  BY <1>4
<1>6. ASSUME NEW k \in 1..d PROVE c[k] = p[k]
  <2>1. k \in 1..a
    BY <1>4
  <2> QED
    BY <2>1, <1>4, Zenon
<1> QED
  BY <1>2, <1>3, <1>4, <1>5, <1>6, Zenon DEF Begins

\* What has been joined stays in place.
LEMMA JoinedPrefix ==
  ASSUME NEW n \in Nat, NEW S, NEW j \in [0..n -> Seq(S)], NEW lists,
         \A i \in 0..(n - 1) : lists[i] \in Seq(S) /\ j[i + 1] = j[i] \o lists[i],
         NEW b \in 0..n
  PROVE  \A a \in b..n : Begins(j[b], j[a])
<1> DEFINE T == {i \in Nat : b + i <= n => Begins(j[b], j[b + i])}
<1>0. \A i \in 0..n : j[i] \in Seq(S)
  OBVIOUS
<1>1. 0 \in T
  <2>1. b + 0 = b
    OBVIOUS
  <2>2. j[b] \in Seq(S)
    OBVIOUS
  <2>3. Len(j[b]) \in Nat
    BY <2>2, LenProperties
  <2>4. Begins(j[b], j[b])
    BY <2>3 DEF Begins
  <2> QED
    BY <2>1, <2>4, Zenon
<1>2. ASSUME NEW i \in Nat, i \in T PROVE i + 1 \in T
  <2> SUFFICES ASSUME b + (i + 1) <= n PROVE Begins(j[b], j[b + (i + 1)])
    BY SMT
  <2>1. b + i \in 0..(n - 1) /\ b + i \in 0..n /\ b + (i + 1) = (b + i) + 1 /\ b + i <= n
    OBVIOUS
  <2>2. Begins(j[b], j[b + i])
    BY <1>2, <2>1, Zenon
  <2>3. j[b] \in Seq(S) /\ j[b + i] \in Seq(S)
    BY <1>0, <2>1, Zenon
  <2>4. lists[b + i] \in Seq(S) /\ j[(b + i) + 1] = j[b + i] \o lists[b + i]
    BY <2>1, Zenon
  <2>5. Begins(j[b], j[b + i] \o lists[b + i])
    BY <2>2, <2>3, <2>4, BeginsConcat, Zenon
  <2> QED
    BY <2>1, <2>4, <2>5, Zenon
<1> HIDE DEF T
<1>3. \A i \in Nat : i \in T
  BY <1>1, <1>2, InductionOnNat, Zenon
<1>4. ASSUME NEW a \in b..n PROVE Begins(j[b], j[a])
  <2>1. a - b \in Nat /\ b + (a - b) = a /\ a <= n
    OBVIOUS
  <2>2. a - b \in T
    BY <1>3, <2>1, Zenon
  <2> QED
    BY <2>1, <2>2, Zenon DEF T
<1> QED
  BY <1>4, Zenon

\* What a sequence that begins with q and then r has after q.
LEMMA SegmentIs ==
  ASSUME NEW S, NEW q \in Seq(S), NEW r \in Seq(S), NEW s \in Seq(S), Begins(q \o r, s)
  PROVE  SubSeq(s, Len(q) + 1, Len(q \o r)) = r
<1>1. PICK a \in Nat, b \in Nat, c \in Nat : a = Len(q) /\ b = Len(r) /\ c = Len(s)
  BY LenProperties
<1>2. PICK w : w = q \o r
  OBVIOUS
<1>3. Len(w) = a + b /\ (\A k \in 1..b : w[a + k] = r[k])
  <2>1. Len(q \o r) = Len(q) + Len(r) /\ \A k \in 1..Len(r) : (q \o r)[Len(q) + k] = r[k]
    BY ConcatParts
  <2> QED
    BY <1>1, <1>2, <2>1, Zenon
<1>4. a + b <= c /\ (\A k \in 1..(a + b) : s[k] = w[k])
  BY <1>1, <1>2, <1>3, Zenon DEF Begins
<1>5. ASSUME NEW k \in 1..b PROVE s[a + k] = r[k] /\ s[a + k] \in S
  <2>1. a + k \in 1..(a + b) /\ a + k \in 1..c
    BY <1>4
  <2>2. s[a + k] = r[k]
    BY <1>3, <1>4, <2>1, Zenon
  <2> QED
    BY <1>1, <2>1, <2>2, ElementOfSeq, Zenon
<1>6. PICK t : t = SubSeq(s, a + 1, a + b)
  OBVIOUS
<1>7. /\ t \in Seq(S) /\ Len(t) = IF a + 1 <= a + b THEN a + b - (a + 1) + 1 ELSE 0
      /\ \A k \in 1..(a + b - (a + 1) + 1) : t[k] = s[a + 1 + k - 1]
  <2>1. a + 1 \in Int /\ a + b \in Int
    OBVIOUS
  <2>2. ASSUME NEW k \in (a + 1)..(a + b) PROVE s[k] \in S
    <3>1. k - a \in 1..b /\ a + (k - a) = k
      OBVIOUS
    <3> QED
      BY <1>5, <3>1, Zenon
  <2> QED
    BY <1>6, <2>1, <2>2, SubSeqProperties
<1>8. Len(t) = b
  BY <1>7
<1>9. ASSUME NEW k \in 1..b PROVE t[k] = r[k]
  <2>1. k \in 1..(a + b - (a + 1) + 1) /\ a + 1 + k - 1 = a + k
    OBVIOUS
  <2>2. t[k] = s[a + k]
    BY <1>7, <2>1, Zenon
  <2> QED
    BY <1>5, <2>2, Zenon
<1>10. t = r
  BY <1>1, <1>7, <1>8, <1>9, SeqEqual, Zenon
<1> QED
  BY <1>1, <1>2, <1>3, <1>6, <1>10, Zenon

\* The segment between two prefixes is the list.
LEMMA JoinedSegment ==
  ASSUME NEW n \in Nat, NEW S, NEW lists, Lists(n, S, lists),
         NEW i \in 0..(n - 1)
  PROVE  LET j == Joined(n, lists)
         IN  SubSeq(j[n], Len(j[i]) + 1, Len(j[i + 1])) = lists[i]
<1>1. PICK j : j = Joined(n, lists)
  OBVIOUS
<1>2. /\ j \in [0..n -> Seq(S)]
      /\ \A x \in 0..(n - 1) : j[x + 1] = j[x] \o lists[x]
  BY <1>1, JoinedIs, Zenon DEF Appended
<1>3. i + 1 \in 0..n /\ i \in 0..n /\ n \in (i + 1)..n /\ n \in 0..n
  OBVIOUS
<1>4. j[i] \in Seq(S) /\ j[n] \in Seq(S) /\ lists[i] \in Seq(S)
      /\ j[i + 1] = j[i] \o lists[i]
  BY <1>2, <1>3, Zenon DEF Lists
<1>5. \A x \in 0..(n - 1) : lists[x] \in Seq(S) /\ j[x + 1] = j[x] \o lists[x]
  BY <1>2, Zenon DEF Lists
<1>6. Begins(j[i + 1], j[n])
  <2>1. PICK b \in 0..n : b = i + 1
    BY <1>3, Zenon
  <2>2. \A a \in b..n : Begins(j[b], j[a])
    BY <1>2, <1>5, JoinedPrefix, Zenon
  <2> QED
    BY <1>3, <2>1, <2>2, Zenon
<1>7. SubSeq(j[n], Len(j[i]) + 1, Len(j[i] \o lists[i])) = lists[i]
  BY <1>4, <1>6, SegmentIs, Zenon
<1> QED
  BY <1>1, <1>4, <1>7, Zenon

-----------------------------------------------------------------------------
(* Sorting is a permutation.                                               *)

\* A one-to-one map onto a set counts it.
LEMMA SameCount ==
  ASSUME NEW A, NEW B, IsFiniteSet(A), NEW f \in [A -> B],
         \A x, y \in A : f[x] = f[y] => x = y, \A y \in B : \E x \in A : f[x] = y
  PROVE  IsFiniteSet(B) /\ Cardinality(B) = Cardinality(A)
<1>1. f \in Bijection(A, B)
  BY Fun_IsBij, Zenon
<1>2. ExistsBijection(A, B)
  BY <1>1, Zenon DEF ExistsBijection
<1> QED
  BY <1>2, FS_Bijection, Zenon

\* What is at or before place i in the sorted order.
Below(q, n, i) == {j \in 1..n : q[j] < q[i] \/ (q[j] = q[i] /\ j <= i)}

\* Every index has a rank of its own.
LEMMA BelowCount ==
  ASSUME NEW n \in Nat, NEW q, \A i \in 1..n : q[i] \in Int
  PROVE  /\ \A i \in 1..n : Cardinality(Below(q, n, i)) \in 1..n
         /\ \A i, j \in 1..n :
              Cardinality(Below(q, n, i)) = Cardinality(Below(q, n, j)) => i = j
<1>1. IsFiniteSet(1..n) /\ Cardinality(1..n) = n
  BY FS_Interval
<1>2. ASSUME NEW i \in 1..n
      PROVE  /\ IsFiniteSet(Below(q, n, i)) /\ Cardinality(Below(q, n, i)) \in Nat
             /\ Cardinality(Below(q, n, i)) <= n /\ i \in Below(q, n, i)
  <2>1. Below(q, n, i) \in SUBSET (1..n)
    BY Zenon DEF Below
  <2>2. i \in Below(q, n, i)
    BY DEF Below
  <2>3. IsFiniteSet(Below(q, n, i)) /\ Cardinality(Below(q, n, i)) <= n
    BY <1>1, <2>1, FS_Subset, Zenon
  <2>4. Cardinality(Below(q, n, i)) \in Nat
    BY <2>3, FS_CardinalityType, Zenon
  <2> QED
    BY <2>2, <2>3, <2>4, Zenon
<1>3. ASSUME NEW i \in 1..n PROVE Cardinality(Below(q, n, i)) \in 1..n
  <2>1. Cardinality(Below(q, n, i)) # 0
    BY <1>2, FS_EmptySet, Zenon
  <2> QED
    BY <1>2, <2>1
<1>4. ASSUME NEW i \in 1..n, NEW j \in 1..n,
             q[i] < q[j] \/ (q[i] = q[j] /\ i < j)
      PROVE  Cardinality(Below(q, n, i)) # Cardinality(Below(q, n, j))
  <2>1. j \notin Below(q, n, i)
    BY <1>4 DEF Below
  <2>2. Below(q, n, i) \in SUBSET Below(q, n, j)
    BY <1>4 DEF Below
  <2>3. j \in Below(q, n, j)
    BY <1>2
  <2> QED
    BY <1>2, <2>1, <2>2, <2>3, FS_Subset, Zenon
<1>5. ASSUME NEW i \in 1..n, NEW j \in 1..n,
             Cardinality(Below(q, n, i)) = Cardinality(Below(q, n, j))
      PROVE  i = j
  <2>1. ~(q[i] < q[j] \/ (q[i] = q[j] /\ i < j))
    BY <1>4, <1>5, Zenon
  <2>2. ~(q[j] < q[i] \/ (q[j] = q[i] /\ j < i))
    BY <1>4, <1>5, Zenon
  <2>3. q[i] \in Int /\ q[j] \in Int
    OBVIOUS
  <2> QED
    BY <2>1, <2>2, <2>3
<1> QED
  BY <1>3, <1>5, Zenon

\* Where element k of the sorted sequence comes from.
Place(q, k) == CHOOSE i \in 1..Len(q) : Cardinality(Below(q, Len(q), i)) = k

\* What the sorted sequence holds.
LEMMA SortedAt ==
  ASSUME NEW q
  PROVE  Sorted(q) = [k \in 1..Len(q) |-> q[Place(q, k)]]
  BY Zenon DEF Sorted, Place, Below

\* The place each element of the sorted sequence comes from.
LEMMA SortedIs ==
  ASSUME NEW q, Len(q) \in Nat, \A i \in 1..Len(q) : q[i] \in Int
  PROVE  \E p \in Bijection(1..Len(q), 1..Len(q)) :
           /\ Sorted(q) = [k \in 1..Len(q) |-> Sorted(q)[k]]
           /\ \A k \in 1..Len(q) : Sorted(q)[k] = q[p[k]]
<1> DEFINE rank == [i \in 1..Len(q) |-> Cardinality(Below(q, Len(q), i))]
           p == [k \in 1..Len(q) |-> Place(q, k)]
<1>1. IsFiniteSet(1..Len(q))
  BY FS_Interval
<1>2. rank \in [1..Len(q) -> 1..Len(q)] /\ \A i, j \in 1..Len(q) : rank[i] = rank[j] => i = j
  <2>1. /\ \A i \in 1..Len(q) : Cardinality(Below(q, Len(q), i)) \in 1..Len(q)
        /\ \A i, j \in 1..Len(q) :
             Cardinality(Below(q, Len(q), i)) = Cardinality(Below(q, Len(q), j)) => i = j
    BY BelowCount
  <2> QED
    BY <2>1, Zenon
<1>3. rank \in Injection(1..Len(q), 1..Len(q))
  <2> HIDE DEF rank
  <2> QED
    BY <1>2, Fun_IsInj, Zenon
<1>4. \A k \in 1..Len(q) : \E i \in 1..Len(q) : rank[i] = k
  <2> HIDE DEF rank
  <2>1. rank \in Surjection(1..Len(q), 1..Len(q))
    BY <1>1, <1>3, FS_Injection, Zenon
  <2> QED
    BY <2>1, Zenon DEF Surjection
<1>5. ASSUME NEW k \in 1..Len(q) PROVE p[k] \in 1..Len(q) /\ rank[p[k]] = k
  <2>1. \E i \in 1..Len(q) : Cardinality(Below(q, Len(q), i)) = k
    BY <1>4, Zenon
  <2>2. PICK i : i = Place(q, k)
    OBVIOUS
  <2>3. i \in 1..Len(q) /\ Cardinality(Below(q, Len(q), i)) = k
    BY <2>1, <2>2, Zenon DEF Place
  <2>4. p[k] = i
    BY <2>2, Zenon
  <2> QED
    BY <2>3, <2>4, Zenon
<1>6. p \in [1..Len(q) -> 1..Len(q)]
  BY <1>5, Zenon
<1>7. /\ Sorted(q) = [k \in 1..Len(q) |-> Sorted(q)[k]]
      /\ \A k \in 1..Len(q) : Sorted(q)[k] = q[p[k]]
  BY SortedAt, Zenon
<1>8. p \in Injection(1..Len(q), 1..Len(q))
  <2> HIDE DEF p, rank
  <2> QED
    BY <1>5, <1>6, Fun_IsInj, Zenon
<1>9. p \in Bijection(1..Len(q), 1..Len(q))
  <2> HIDE DEF p
  <2>1. p \in Surjection(1..Len(q), 1..Len(q))
    BY <1>1, <1>8, FS_Injection, Zenon
  <2> QED
    BY <1>8, <2>1, Zenon DEF Bijection
<1> HIDE DEF p
<1> QED
  BY <1>7, <1>9, Zenon

\* Sorting keeps the elements, each as often as it was there.
LEMMA SortedKeeps ==
  ASSUME NEW S, S \subseteq Int, NEW q \in Seq(S)
  PROVE  /\ Sorted(q) \in Seq(S) /\ Len(Sorted(q)) = Len(q)
         /\ Range(Sorted(q)) = Range(q)
         /\ \A x : Occurrences(Sorted(q), x) = Occurrences(q, x)
<1>1. PICK n \in Nat : n = Len(q)
  BY LenProperties
<1>2. \A i \in 1..n : q[i] \in S
  BY <1>1, ElementOfSeq, Zenon
<1>3. PICK p \in Bijection(1..Len(q), 1..Len(q)) :
        /\ Sorted(q) = [k \in 1..Len(q) |-> Sorted(q)[k]]
        /\ \A k \in 1..Len(q) : Sorted(q)[k] = q[p[k]]
  <2>1. Len(q) \in Nat /\ \A i \in 1..Len(q) : q[i] \in Int
    BY <1>1, <1>2, Zenon
  <2> QED
    BY <2>1, SortedIs, Zenon
<1>4. /\ p \in [1..n -> 1..n] /\ \A a, b \in 1..n : p[a] = p[b] => a = b
      /\ \A t \in 1..n : \E k \in 1..n : p[k] = t
  BY <1>1, Zenon DEF Bijection, Injection, Surjection, IsInjective
<1>5. Sorted(q) \in [1..n -> S]
  <2>1. \A k \in 1..Len(q) : Sorted(q)[k] \in S
    BY <1>1, <1>2, <1>3, <1>4, Zenon
  <2>2. Sorted(q) \in [1..Len(q) -> S]
    BY <1>3, <2>1, Zenon
  <2> QED
    BY <1>1, <2>2, Zenon
<1>6. Sorted(q) \in Seq(S) /\ Len(Sorted(q)) = n
  BY <1>5, FunctionIsSeq, Zenon
<1>7. DOMAIN Sorted(q) = 1..n /\ DOMAIN q = 1..n
  BY <1>1, <1>5, LenProperties, Zenon
<1>8. \A k \in 1..n : Sorted(q)[k] = q[p[k]]
  BY <1>1, <1>3, Zenon
<1>9. Range(Sorted(q)) = Range(q)
  <2>1. ASSUME NEW k \in 1..n PROVE Sorted(q)[k] \in Range(q)
    <3>1. p[k] \in DOMAIN q /\ Sorted(q)[k] = q[p[k]]
      BY <1>4, <1>7, <1>8, Zenon
    <3> QED
      BY <3>1, Zenon DEF Range
  <2>2. ASSUME NEW t \in 1..n PROVE q[t] \in Range(Sorted(q))
    <3>1. PICK k \in 1..n : p[k] = t
      BY <1>4, Zenon
    <3>2. k \in DOMAIN Sorted(q) /\ Sorted(q)[k] = q[t]
      BY <1>7, <1>8, <3>1, Zenon
    <3> QED
      BY <3>2, Zenon DEF Range
  <2> QED
    BY <1>7, <2>1, <2>2, Zenon DEF Range
<1>10. ASSUME NEW x PROVE Occurrences(Sorted(q), x) = Occurrences(q, x)
  <2> DEFINE A == {k \in 1..n : Sorted(q)[k] = x}
             B == {k \in 1..n : q[k] = x}
             f == [k \in A |-> p[k]]
  <2>1. IsFiniteSet(A)
    <3>1. IsFiniteSet(1..n) /\ A \in SUBSET (1..n)
      BY FS_Interval
    <3> QED
      BY <3>1, FS_Subset, Zenon
  <2>2. f \in [A -> B] /\ (\A a, b \in A : f[a] = f[b] => a = b)
    BY <1>4, <1>8, Zenon
  <2>3. ASSUME NEW b \in B PROVE \E a \in A : f[a] = b
    <3>1. PICK a \in 1..n : p[a] = b
      BY <1>4, Zenon
    <3>2. a \in A
      BY <1>8, <3>1, Zenon
    <3> QED
      BY <3>1, <3>2, Zenon
  <2>4. Cardinality(B) = Cardinality(A)
    <3> HIDE DEF A, B, f
    <3> QED
      BY <2>1, <2>2, <2>3, SameCount, Zenon
  <2> QED
    BY <1>1, <1>6, <2>4, Zenon DEF Occurrences
<1> QED
  BY <1>1, <1>6, <1>9, <1>10, Zenon

\* SetToSeq lists the elements of a finite set.
LEMMA SetToSeqIs ==
  ASSUME NEW A, IsFiniteSet(A)
  PROVE  SetToSeq(A) \in Seq(A) /\ Range(SetToSeq(A)) = A
<1>1. PICK n \in Nat : n = Cardinality(A)
  BY FS_CardinalityType
<1>2. PICK f : f \in Bijection(1..n, A)
  BY <1>1, FS_CardinalityType, Zenon DEF ExistsBijection
<1>3. f \in [1..n -> A] /\ IsInjective(f)
  BY <1>2, Zenon DEF Bijection, Injection
<1>4. PICK g : g = SetToSeq(A)
  OBVIOUS
<1>5. g \in [1..n -> A] /\ IsInjective(g)
  BY <1>1, <1>3, <1>4, Zenon DEF SetToSeq
<1>6. g \in Injection(1..n, A)
  BY <1>5, Zenon DEF Injection
<1>7. Cardinality(1..n) = n
  BY FS_Interval
<1>8. g \in Surjection(1..n, A)
  BY <1>1, <1>6, <1>7, FS_Injection, Zenon
<1>9. Range(g) = A
  BY <1>8, Fun_SurjectionProperties, Zenon
<1>10. g \in Seq(A)
  BY <1>5, FunctionIsSeq, Zenon
<1> QED
  BY <1>4, <1>9, <1>10, Zenon

-----------------------------------------------------------------------------
(* Segmented indices.                                                      *)

\* The elements of a sequence, as the range of the function and by their places.
LEMMA RangeIs ==
  ASSUME NEW S, NEW q \in Seq(S)
  PROVE  /\ {q[k] : k \in 1..Len(q)} = Range(q)
         /\ Range(q) \subseteq S
         /\ q = <<>> <=> Range(q) = {}
<1>1. Len(q) \in Nat /\ DOMAIN q = 1..Len(q) /\ Range(q) \subseteq S
  BY SeqParts, Zenon
<1>2. {q[k] : k \in 1..Len(q)} = Range(q)
  BY <1>1, Zenon DEF Range
<1>3. ASSUME q # <<>> PROVE Range(q) # {}
  <2>1. Len(q) \in Nat \ {0}
    BY <1>3, EmptySeq, Zenon
  <2>2. 1 \in 1..Len(q)
    BY <2>1
  <2> QED
    BY <1>1, <2>2, Zenon DEF Range
<1>4. ASSUME q = <<>> PROVE Range(q) = {}
  <2>1. Len(q) = 0
    BY <1>4, EmptySeq, Zenon
  <2>2. 1..Len(q) = {}
    BY <2>1
  <2> QED
    BY <1>2, <2>2, Zenon
<1> QED
  BY <1>1, <1>2, <1>3, <1>4, Zenon

\* Every element's neighbours are the ones packed for it, sorted.
LEMMA PackIs ==
  ASSUME NEW n \in Nat, NEW S, S \subseteq Int, NEW nbrs,
         \A i \in 0..(n - 1) : nbrs[i] \in Seq(S)
  PROVE  /\ Pack(n, nbrs).n = n
         /\ \A i \in 0..(n - 1) : Neighbors(Pack(n, nbrs), i) = Sorted(nbrs[i])
<1> DEFINE lists == [i \in 0..(n - 1) |-> Sorted(nbrs[i])]
<1>1. \A i \in 0..(n - 1) : lists[i] \in Seq(S)
  BY SortedKeeps, Zenon
<1>2. PICK j : j = Joined(n, lists)
  OBVIOUS
<1>3. /\ Pack(n, nbrs).n = n /\ Pack(n, nbrs).sinks = Joined(n, lists)[n]
      /\ Pack(n, nbrs).coords = [i \in 0..n |-> Len(Joined(n, lists)[i])]
  BY Zenon DEF Pack
<1>4. ASSUME NEW i \in 0..(n - 1) PROVE Neighbors(Pack(n, nbrs), i) = Sorted(nbrs[i])
  <2>1. i \in 0..n /\ i + 1 \in 0..n
    OBVIOUS
  <2>2. lists[i] = Sorted(nbrs[i])
    OBVIOUS
  <2>3. /\ Pack(n, nbrs).coords[i] = Len(Joined(n, lists)[i])
        /\ Pack(n, nbrs).coords[i + 1] = Len(Joined(n, lists)[i + 1])
    BY <1>3, <2>1, Zenon
  <2> HIDE DEF lists
  <2>4. LET j0 == Joined(n, lists)
        IN  SubSeq(j0[n], Len(j0[i]) + 1, Len(j0[i + 1])) = lists[i]
    BY <1>1, JoinedSegment, Zenon DEF Lists
  <2> QED
    BY <1>3, <2>2, <2>3, <2>4, Zenon DEF Neighbors
<1> QED
  BY <1>3, <1>4, Zenon

\* The same for neighbour sets.
SetsIn(n, S, nbrs) ==
  S \subseteq Int /\ \A i \in 0..(n - 1) : nbrs[i] \subseteq S /\ IsFiniteSet(nbrs[i])

Holds(ix, n, S, nbrs) ==
  ix.n = n /\ \A i \in 0..(n - 1) : Neighbors(ix, i) \in Seq(S) /\ NeighborSet(ix, i) = nbrs[i]

\* Packed neighbour sets hold every set, in its own range.
LEMMA PackSetsIs ==
  ASSUME NEW n \in Nat, NEW S, NEW nbrs, SetsIn(n, S, nbrs)
  PROVE  Holds(PackSets(n, nbrs), n, S, nbrs)
<1> DEFINE lists == [i \in 0..(n - 1) |-> SetToSeq(nbrs[i])]
<1>0. S \subseteq Int
  BY Zenon DEF SetsIn
<1>1. ASSUME NEW i \in 0..(n - 1) PROVE lists[i] \in Seq(S) /\ Range(lists[i]) = nbrs[i]
  <2>1. lists[i] = SetToSeq(nbrs[i])
    OBVIOUS
  <2>2. SetToSeq(nbrs[i]) \in Seq(nbrs[i]) /\ Range(SetToSeq(nbrs[i])) = nbrs[i]
    BY SetToSeqIs, Zenon DEF SetsIn
  <2>3. SetToSeq(nbrs[i]) \in Seq(S)
    BY <2>2, SeqMonotonic, Zenon DEF SetsIn
  <2> QED
    BY <2>1, <2>2, <2>3, Zenon
<1>2. PackSets(n, nbrs) = Pack(n, lists)
  BY Zenon DEF PackSets
<1> HIDE DEF lists
<1>3. /\ Pack(n, lists).n = n
      /\ \A i \in 0..(n - 1) : Neighbors(Pack(n, lists), i) = Sorted(lists[i])
  <2>1. \A i \in 0..(n - 1) : lists[i] \in Seq(S)
    BY <1>1, Zenon
  <2> QED
    BY <1>0, <2>1, PackIs, ZenonT(60)
<1>4. ASSUME NEW i \in 0..(n - 1)
      PROVE  /\ Neighbors(Pack(n, lists), i) \in Seq(S)
             /\ NeighborSet(Pack(n, lists), i) = nbrs[i]
  <2>1. Sorted(lists[i]) \in Seq(S) /\ Range(Sorted(lists[i])) = nbrs[i]
    BY <1>0, <1>1, SortedKeeps, Zenon
  <2>2. {Sorted(lists[i])[k] : k \in 1..Len(Sorted(lists[i]))} = nbrs[i]
    BY <2>1, RangeIs, Zenon
  <2> QED
    BY <1>3, <2>1, <2>2, Zenon DEF NeighborSet
<1> QED
  BY <1>2, <1>3, <1>4, Zenon DEF Holds

-----------------------------------------------------------------------------
(* Counting occurrences.                                                   *)

\* An element occurs zero times exactly when it is not there.
LEMMA OccurrencesType ==
  ASSUME NEW S, NEW q \in Seq(S), NEW x
  PROVE  /\ Occurrences(q, x) \in Nat
         /\ Occurrences(q, x) = 0 <=> x \notin Range(q)
<1> DEFINE A == {k \in 1..Len(q) : q[k] = x}
<1>1. Len(q) \in Nat /\ DOMAIN q = 1..Len(q)
  BY LenProperties, Zenon
<1>2. IsFiniteSet(1..Len(q)) /\ A \in SUBSET (1..Len(q))
  BY <1>1, FS_Interval
<1>3. IsFiniteSet(A)
  BY <1>2, FS_Subset, Zenon
<1>4. Cardinality(A) \in Nat /\ (Cardinality(A) = 0 <=> A = {})
  BY <1>3, FS_CardinalityType, FS_EmptySet, Zenon
<1>5. A = {} <=> x \notin Range(q)
  BY <1>1, Zenon DEF Range
<1> QED
  BY <1>4, <1>5, Zenon DEF Occurrences

\* The length of a concatenation.
LEMMA LenConcat ==
  ASSUME NEW S, NEW q \in Seq(S), NEW r \in Seq(S), NEW c, c = q \o r
  PROVE  Len(c) = Len(q) + Len(r)
  BY ConcatProperties, Zenon

\* Occurrences in a concatenation add up.
LEMMA OccurrencesConcat ==
  ASSUME NEW S, NEW q \in Seq(S), NEW r \in Seq(S), NEW x
  PROVE  Occurrences(q \o r, x) = Occurrences(q, x) + Occurrences(r, x)
<1>1. PICK a \in Nat, b \in Nat : a = Len(q) /\ b = Len(r)
  BY LenProperties
<1>2. PICK c : c = q \o r
  OBVIOUS
<1>3. /\ Len(c) = a + b /\ (\A k \in 1..a : c[k] = q[k])
      /\ (\A k \in 1..b : c[a + k] = r[k])
  <2>1. /\ Len(q \o r) = Len(q) + Len(r)
        /\ \A k \in 1..Len(q) : (q \o r)[k] = q[k]
        /\ \A k \in 1..Len(r) : (q \o r)[Len(q) + k] = r[k]
    BY ConcatParts
  <2> QED
    BY <1>1, <1>2, <2>1, Zenon
<1> DEFINE A == {k \in 1..a : q[k] = x}
           B == {k \in 1..b : r[k] = x}
           C == {k \in 1..(a + b) : c[k] = x}
           Dom == {k \in (a + 1)..(a + b) : c[k] = x}
           f == [k \in B |-> a + k]
<1>4. IsFiniteSet(A) /\ IsFiniteSet(B)
  <2>1. IsFiniteSet(1..a) /\ IsFiniteSet(1..b) /\ A \in SUBSET (1..a) /\ B \in SUBSET (1..b)
    BY FS_Interval
  <2> QED
    BY <2>1, FS_Subset, Zenon
<1>5. IsFiniteSet(Dom) /\ Cardinality(Dom) = Cardinality(B)
  <2>1. f \in [B -> Dom]
    <3> SUFFICES ASSUME NEW k \in B PROVE a + k \in Dom
      OBVIOUS
    <3>1. a + k \in (a + 1)..(a + b)
      OBVIOUS
    <3> QED
      BY <1>3, <3>1, Zenon
  <2>2. \A k, l \in B : f[k] = f[l] => k = l
    OBVIOUS
  <2>3. ASSUME NEW d \in Dom PROVE \E k \in B : f[k] = d
    <3>1. d - a \in 1..b /\ a + (d - a) = d
      OBVIOUS
    <3>2. r[d - a] = x
      BY <1>3, <3>1, Zenon
    <3>3. d - a \in B
      BY <3>1, <3>2, Zenon
    <3>4. f[d - a] = d
      BY <3>1, <3>3, Zenon
    <3> QED
      BY <3>3, <3>4, Zenon
  <2> HIDE DEF B, Dom, f
  <2> QED
    BY <1>4, <2>1, <2>2, <2>3, SameCount, Zenon
<1>6. C = A \cup Dom /\ A \cap Dom = {}
  BY <1>3
<1>7. Cardinality(A) \in Nat /\ Cardinality(B) \in Nat
  BY <1>4, FS_CardinalityType
<1>8. Cardinality(C) = Cardinality(A) + Cardinality(B)
  <2> HIDE DEF A, B, C, Dom
  <2>1. Cardinality(A \cup Dom) = Cardinality(A) + Cardinality(Dom) - Cardinality(A \cap Dom)
    BY <1>4, <1>5, FS_Union, Zenon
  <2>2. Cardinality(A \cap Dom) = 0
    BY <1>6, FS_EmptySet, Zenon
  <2> QED
    BY <1>5, <1>6, <1>7, <2>1, <2>2
<1> QED
  BY <1>1, <1>2, <1>3, <1>8, Zenon DEF Occurrences

\* One element, any number of times.
Times(c, e) == [k \in 1..c |-> e]

Counts(q, e, c) == \A x : Occurrences(q, x) = IF x = e THEN c ELSE 0

\* An element repeated c times occurs c times.
LEMMA OccurrencesRepeated ==
  ASSUME NEW c \in Nat, NEW e
  PROVE  Times(c, e) \in Seq({e}) /\ Counts(Times(c, e), e, c)
<1>1. PICK q : q = Times(c, e)
  OBVIOUS
<1>2. q \in [1..c -> {e}] /\ \A k \in 1..c : q[k] = e
  BY <1>1, Zenon DEF Times
<1>3. q \in Seq({e}) /\ Len(q) = c
  BY <1>2, FunctionIsSeq, Zenon
<1>4. ASSUME NEW x, x = e PROVE Occurrences(q, x) = c
  <2>1. {k \in 1..c : q[k] = x} = 1..c
    BY <1>2, <1>4, Zenon
  <2>2. Cardinality(1..c) = c
    BY FS_Interval
  <2> QED
    BY <1>3, <2>1, <2>2, Zenon DEF Occurrences
<1>5. ASSUME NEW x, x # e PROVE Occurrences(q, x) = 0
  <2>1. {k \in 1..c : q[k] = x} = {}
    BY <1>2, <1>5, Zenon
  <2> QED
    BY <1>3, <2>1, FS_EmptySet, Zenon DEF Occurrences
<1> QED
  BY <1>1, <1>3, <1>4, <1>5, Zenon DEF Counts

-----------------------------------------------------------------------------
(* The endpoints of an edge in a vertex set.                               *)

\* Place i of tuple t, when its endpoint set is V.
Picked(ends, V, t, i) == IF ends[i + 1] = V THEN <<t[i + 1]>> ELSE <<>>

Selected(c, ends, V, t) == Joined(c, [i \in 0..(c - 1) |-> Picked(ends, V, t, i)])[c]

\* How many of the first i endpoint sets are V.
Matching(ends, V, i) == Cardinality({p \in 1..i : ends[p] = V})

\* Counting one endpoint more.
LEMMA OneMore ==
  ASSUME NEW i \in Nat, NEW ends, NEW V
  PROVE  Matching(ends, V, i + 1) = Matching(ends, V, i) + IF ends[i + 1] = V THEN 1 ELSE 0
<1> DEFINE A == {p \in 1..i : ends[p] = V}
<1>1. IsFiniteSet(A) /\ Cardinality(A) \in Nat
  <2>1. IsFiniteSet(1..i) /\ A \in SUBSET (1..i)
    BY FS_Interval
  <2>2. IsFiniteSet(A)
    BY <2>1, FS_Subset, Zenon
  <2> QED
    BY <2>2, FS_CardinalityType, Zenon
<1>2. i + 1 \notin A
  OBVIOUS
<1>3. CASE ends[i + 1] = V
  <2>1. {p \in 1..(i + 1) : ends[p] = V} = A \cup {i + 1}
    BY <1>3
  <2> HIDE DEF A
  <2>2. Cardinality(A \cup {i + 1}) = Cardinality(A) + 1
    BY <1>1, <1>2, FS_AddElement, Zenon
  <2> QED
    BY <1>3, <2>1, <2>2, Zenon DEF A, Matching
<1>4. CASE ends[i + 1] # V
  <2>1. {p \in 1..(i + 1) : ends[p] = V} = A
    BY <1>4
  <2>2. Cardinality(A) + 0 = Cardinality(A)
    BY <1>1
  <2> QED
    BY <1>4, <2>1, <2>2, Zenon DEF Matching
<1> QED
  BY <1>3, <1>4, Zenon

PlacesIn(c, ends, V, t, S) == \A p \in 1..c : ends[p] = V => t[p] \in S

SelectionOf(q, c, ends, V, t, S) ==
  /\ q \in Seq(S) /\ Len(q) = Matching(ends, V, c)
  /\ \A b : b \in Range(q) <=> \E p \in 1..c : ends[p] = V /\ t[p] = b

\* The endpoints selected so far, endpoint by endpoint.
LEMMA SelectedIs ==
  ASSUME NEW c \in Nat, NEW ends, NEW V, NEW t, NEW S, PlacesIn(c, ends, V, t, S)
  PROVE  SelectionOf(Selected(c, ends, V, t), c, ends, V, t, S)
<1> DEFINE lists == [i \in 0..(c - 1) |-> Picked(ends, V, t, i)]
<1>1. ASSUME NEW i \in 0..(c - 1)
      PROVE  /\ lists[i] \in Seq(S)
             /\ lists[i] = IF ends[i + 1] = V THEN <<t[i + 1]>> ELSE <<>>
             /\ Len(lists[i]) = IF ends[i + 1] = V THEN 1 ELSE 0
             /\ \A b : b \in Range(lists[i]) <=> ends[i + 1] = V /\ t[i + 1] = b
  <2>1. lists[i] = IF ends[i + 1] = V THEN <<t[i + 1]>> ELSE <<>>
    BY Zenon DEF Picked
  <2>2. i + 1 \in 1..c
    OBVIOUS
  <2>3. CASE ends[i + 1] = V
    <3>1. PICK q : q = <<t[i + 1]>>
      OBVIOUS
    <3>2. t[i + 1] \in S
      BY <2>2, <2>3, Zenon DEF PlacesIn
    <3>3. q \in Seq(S) /\ Len(q) = 1 /\ q[1] = t[i + 1]
      BY <3>1, <3>2
    <3>4. DOMAIN q = 1..1
      BY <3>3, LenProperties
    <3>5. \A b : b \in Range(q) <=> t[i + 1] = b
      BY <3>3, <3>4 DEF Range
    <3> QED
      BY <2>1, <2>3, <3>1, <3>3, <3>5, Zenon
  <2>4. CASE ends[i + 1] # V
    <3>1. PICK q : q = <<>>
      OBVIOUS
    <3>2. q \in Seq(S) /\ Len(q) = 0 /\ Range(q) = {}
      BY <3>1, EmptySeq, RangeIs, Zenon
    <3> QED
      BY <2>1, <2>4, <3>1, <3>2, Zenon
  <2> QED
    BY <2>3, <2>4, Zenon
<1>2. PICK j : j = Joined(c, lists)
  OBVIOUS
<1>3. Selected(c, ends, V, t) = j[c]
  BY <1>2, Zenon DEF Selected
<1> HIDE DEF lists
<1>4. /\ j \in [0..c -> Seq(S)] /\ j[0] = <<>>
      /\ \A i \in 0..(c - 1) : j[i + 1] = j[i] \o lists[i]
  <2>1. Lists(c, S, lists)
    BY <1>1, Zenon DEF Lists
  <2> QED
    BY <1>2, <2>1, JoinedIs, Zenon DEF Appended
<1> DEFINE T == {i \in Nat : i <= c =>
                   /\ Len(j[i]) = Matching(ends, V, i)
                   /\ \A b : b \in Range(j[i]) <=> \E p \in 1..i : ends[p] = V /\ t[p] = b}
<1>5. 0 \in T
  <2>1. 1..0 = {}
    OBVIOUS
  <2>2. Matching(ends, V, 0) = 0
    BY <2>1, FS_EmptySet, Zenon DEF Matching
  <2>3. Len(j[0]) = 0 /\ Range(j[0]) = {}
    BY <1>4, EmptySeq, RangeIs, Zenon
  <2>4. 0 \in Nat
    OBVIOUS
  <2> QED
    BY <2>1, <2>2, <2>3, <2>4, Zenon
<1>6. ASSUME NEW i \in Nat, i \in T PROVE i + 1 \in T
  <2> SUFFICES ASSUME i + 1 <= c
               PROVE  /\ Len(j[i + 1]) = Matching(ends, V, i + 1)
                      /\ \A b : b \in Range(j[i + 1])
                                  <=> \E p \in 1..(i + 1) : ends[p] = V /\ t[p] = b
    <3>1. i + 1 \in Nat
      OBVIOUS
    <3> QED
      BY <3>1, Zenon
  <2>1. i \in 0..(c - 1) /\ i \in 0..c /\ i <= c
    OBVIOUS
  <2>2. /\ Len(j[i]) = Matching(ends, V, i)
        /\ \A b : b \in Range(j[i]) <=> \E p \in 1..i : ends[p] = V /\ t[p] = b
    BY <1>6, <2>1, Zenon
  <2>3. j[i] \in Seq(S) /\ lists[i] \in Seq(S) /\ j[i + 1] = j[i] \o lists[i]
    BY <1>1, <1>4, <2>1, Zenon
  <2>4. Len(j[i + 1]) = Matching(ends, V, i + 1)
    <3>1. Len(j[i + 1]) = Len(j[i]) + Len(lists[i])
      BY <2>3, ConcatProperties, ZenonT(60)
    <3>2. Len(lists[i]) = IF ends[i + 1] = V THEN 1 ELSE 0
      BY <1>1, <2>1, Zenon
    <3>3. Matching(ends, V, i + 1)
            = Matching(ends, V, i) + IF ends[i + 1] = V THEN 1 ELSE 0
      BY OneMore
    <3> QED
      BY <2>2, <3>1, <3>2, <3>3, Zenon
  <2>5. ASSUME NEW b
        PROVE  b \in Range(j[i + 1]) <=> \E p \in 1..(i + 1) : ends[p] = V /\ t[p] = b
    <3>1. Range(j[i] \o lists[i]) = Range(j[i]) \cup Range(lists[i])
      BY <2>3, RangeConcatenation
    <3>2. b \in Range(lists[i]) <=> ends[i + 1] = V /\ t[i + 1] = b
      BY <1>1, <2>1, Zenon
    <3>3. 1..(i + 1) = (1..i) \cup {i + 1}
      OBVIOUS
    <3> QED
      BY <2>2, <2>3, <3>1, <3>2, <3>3, Zenon
  <2> QED
    BY <2>4, <2>5, Zenon
<1> HIDE DEF T
<1>7. c \in T
  BY <1>5, <1>6, InductionOnNat, Zenon
<1>8. c <= c /\ c \in 0..c
  OBVIOUS
<1>9. j[c] \in Seq(S)
  BY <1>4, <1>8, Zenon
<1> QED
  BY <1>3, <1>7, <1>8, <1>9, Zenon DEF T, SelectionOf

\* Lists of one length, one after the other.
Wide(n, lists, w) == \A i \in 0..(n - 1) : Len(lists[i]) = w
Even(j, n, w) == \A i \in 0..n : Len(j[i]) = i * w

\* Lists of one width join at multiples of it.
LEMMA JoinedWidth ==
  ASSUME NEW n \in Nat, NEW S, NEW lists, NEW w \in Nat, Lists(n, S, lists), Wide(n, lists, w)
  PROVE  Even(Joined(n, lists), n, w)
<1>1. PICK j : j = Joined(n, lists)
  OBVIOUS
<1>2. /\ j \in [0..n -> Seq(S)] /\ j[0] = <<>>
      /\ \A i \in 0..(n - 1) : j[i + 1] = j[i] \o lists[i]
  BY <1>1, JoinedIs, Zenon DEF Appended
<1> DEFINE T == {i \in Nat : i <= n => Len(j[i]) = i * w}
<1>3. 0 \in T
  <2>1. Len(j[0]) = 0
    BY <1>2, EmptySeq, Zenon
  <2> QED
    BY <2>1
<1>4. ASSUME NEW i \in Nat, i \in T PROVE i + 1 \in T
  <2> SUFFICES ASSUME i + 1 <= n PROVE Len(j[i + 1]) = (i + 1) * w
    <3>1. i + 1 \in Nat
      OBVIOUS
    <3> QED
      BY <3>1, Zenon
  <2>1. i \in 0..(n - 1) /\ i \in 0..n /\ i <= n
    OBVIOUS
  <2>2. Len(j[i]) = i * w
    BY <1>4, <2>1, Zenon
  <2>3. j[i] \in Seq(S) /\ lists[i] \in Seq(S) /\ j[i + 1] = j[i] \o lists[i] /\ Len(lists[i]) = w
    BY <1>2, <2>1, Zenon DEF Lists, Wide
  <2>4. Len(j[i + 1]) = Len(j[i]) + Len(lists[i])
    BY <2>3, LenConcat, Zenon
  <2>5. (i + 1) * w = i * w + w
    OBVIOUS
  <2> QED
    BY <2>2, <2>3, <2>4, <2>5, Zenon
<1> HIDE DEF T
<1>5. \A i \in Nat : i \in T
  BY <1>3, <1>4, InductionOnNat, Zenon
<1>6. ASSUME NEW i \in 0..n PROVE Len(j[i]) = i * w
  <2>1. i \in Nat /\ i <= n
    OBVIOUS
  <2> QED
    BY <1>5, <2>1, Zenon DEF T
<1> QED
  BY <1>1, <1>6, Zenon DEF Even

\* Lists that repeat their own number, one after the other.
Repeats(n, lists, c) ==
  \A i \in 0..(n - 1) :
    lists[i] \in Seq(0..(n - 1)) /\ c[i] \in Nat /\ Counts(lists[i], i, c[i])

\* Repetitions joined keep their counts.
LEMMA JoinedRepeated ==
  ASSUME NEW n \in Nat, NEW lists, NEW c, Repeats(n, lists, c)
  PROVE  /\ Joined(n, lists)[n] \in Seq(0..(n - 1))
         /\ \A x \in 0..(n - 1) : Occurrences(Joined(n, lists)[n], x) = c[x]
<1>0. PICK S : S = 0..(n - 1)
  OBVIOUS
<1>1. PICK j : j = Joined(n, lists)
  OBVIOUS
<1>2. /\ j \in [0..n -> Seq(S)] /\ j[0] = <<>>
      /\ \A i \in 0..(n - 1) : j[i + 1] = j[i] \o lists[i]
  <2>1. Lists(n, S, lists)
    BY <1>0, Zenon DEF Lists, Repeats
  <2> QED
    BY <1>1, <2>1, JoinedIs, Zenon DEF Appended
<1> DEFINE T == {i \in Nat : i <= n =>
                   \A x \in 0..(n - 1) : Occurrences(j[i], x) = IF x < i THEN c[x] ELSE 0}
<1>3. 0 \in T
  <2>1. j[0] \in Seq(S) /\ Range(j[0]) = {}
    <3>1. j[0] \in Seq(S)
      BY <1>2, EmptySeq, Zenon
    <3> QED
      BY <1>2, <3>1, RangeIs, Zenon
  <2>2. ASSUME NEW x \in 0..(n - 1) PROVE Occurrences(j[0], x) = IF x < 0 THEN c[x] ELSE 0
    <3>1. Occurrences(j[0], x) = 0
      BY <2>1, OccurrencesType, Zenon
    <3>2. ~(x < 0)
      OBVIOUS
    <3> QED
      BY <3>1, <3>2, Zenon
  <2>3. 0 \in Nat
    OBVIOUS
  <2> QED
    BY <2>2, <2>3, Zenon
<1>4. ASSUME NEW i \in Nat, i \in T PROVE i + 1 \in T
  <2> SUFFICES ASSUME i + 1 <= n, NEW x \in 0..(n - 1)
               PROVE  Occurrences(j[i + 1], x) = IF x < i + 1 THEN c[x] ELSE 0
    <3>1. i + 1 \in Nat
      OBVIOUS
    <3> QED
      BY <3>1, Zenon
  <2>1. i \in 0..(n - 1) /\ i \in 0..n /\ i <= n
    OBVIOUS
  <2>2. Occurrences(j[i], x) = IF x < i THEN c[x] ELSE 0
    BY <1>4, <2>1, Zenon
  <2>3. j[i] \in Seq(S) /\ lists[i] \in Seq(S) /\ j[i + 1] = j[i] \o lists[i]
    BY <1>0, <1>2, <2>1, Zenon DEF Repeats
  <2>4. Occurrences(j[i + 1], x) = Occurrences(j[i], x) + Occurrences(lists[i], x)
    BY <2>3, OccurrencesConcat
  <2>5. Occurrences(lists[i], x) = IF x = i THEN c[i] ELSE 0
    BY <2>1, Zenon DEF Repeats, Counts
  <2>6. c[x] \in Nat /\ c[i] \in Nat
    BY <2>1, Zenon DEF Repeats
  <2> QED
    BY <2>2, <2>4, <2>5, <2>6
<1> HIDE DEF T
<1>5. n \in T
  BY <1>3, <1>4, InductionOnNat, Zenon
<1>6. n <= n /\ n \in 0..n
  OBVIOUS
<1>7. ASSUME NEW x \in 0..(n - 1) PROVE Occurrences(j[n], x) = c[x]
  <2>1. x < n
    OBVIOUS
  <2> QED
    BY <1>5, <1>6, <2>1, Zenon DEF T
<1>8. j[n] \in Seq(S)
  BY <1>2, <1>6, Zenon
<1> QED
  BY <1>0, <1>1, <1>7, <1>8, Zenon

-----------------------------------------------------------------------------
(* The two links.                                                          *)

\* Every endpoint of every edge is an element of its endpoint set.
GraphType ==
  \A E \in EdgeSets :
    /\ Len(graph[E]) \in Nat
    /\ \A e \in 1..Len(graph[E]), p \in 1..Len(EndpointSets[E]) :
         graph[E][e][p] \in 0..(Size[EndpointSets[E][p]] - 1)

\* The endpoints of an edge in V: as many as there are places for V, and the
\* elements at those places.
LEMMA EndpointsInIs ==
  ASSUME GraphType, NEW E \in EdgeSets, NEW V \in VertexSets,
         NEW e \in 0..(Len(graph[E]) - 1)
  PROVE  /\ EndpointsIn(E, V, e) \in Seq(0..(Size[V] - 1))
         /\ Len(EndpointsIn(E, V, e)) = Matching(EndpointSets[E], V, Len(EndpointSets[E]))
         /\ \A b : b \in Range(EndpointsIn(E, V, e))
                     <=> \E p \in 1..Len(EndpointSets[E]) :
                           EndpointSets[E][p] = V /\ graph[E][e + 1][p] = b
<1>1. Len(graph[E]) \in Nat /\ Len(EndpointSets[E]) \in Nat
  BY GraphAssumption, LenProperties DEF GraphType
<1>2. PICK x \in 1..Len(graph[E]) : x = e + 1
  BY <1>1
<1>3. EndpointsIn(E, V, e) = Selected(Len(EndpointSets[E]), EndpointSets[E], V, graph[E][e + 1])
  BY Zenon DEF EndpointsIn, Selected, Picked
<1>4. EndpointsIn(E, V, e) = Selected(Len(EndpointSets[E]), EndpointSets[E], V, graph[E][x])
  BY <1>2, <1>3, Zenon
<1>5. PICK t : t = graph[E][x]
  OBVIOUS
<1>6. PICK c, ends : c = Len(EndpointSets[E]) /\ ends = EndpointSets[E] /\ c \in Nat
  BY <1>1, Zenon
<1>7. PICK S : S = 0..(Size[V] - 1)
  OBVIOUS
<1>8. PlacesIn(c, ends, V, t, S)
  BY <1>5, <1>6, <1>7, Zenon DEF GraphType, PlacesIn
<1>9. SelectionOf(Selected(c, ends, V, t), c, ends, V, t, S)
  BY <1>6, <1>8, SelectedIs, Zenon
<1>10. EndpointsIn(E, V, e) = Selected(c, ends, V, t)
  BY <1>4, <1>5, <1>6, Zenon
<1>11. t = graph[E][e + 1]
  BY <1>2, <1>5, Zenon
<1> QED
  BY <1>6, <1>7, <1>9, <1>10, <1>11, Zenon DEF SelectionOf

\* Link::ev lists the endpoints of each edge.
LEMMA EvIs ==
  ASSUME GraphType, NEW E \in EdgeSets, NEW V \in VertexSets
  PROVE  /\ EvIndex(E, V).n = Len(graph[E])
         /\ \A e \in 0..(Len(graph[E]) - 1) : Neighbors(EvIndex(E, V), e) = EndpointsIn(E, V, e)
<1> DEFINE lists == [e \in 0..(Len(graph[E]) - 1) |-> EndpointsIn(E, V, e)]
           w == Matching(EndpointSets[E], V, Len(EndpointSets[E]))
           ix == EvIndex(E, V)
<1>1. /\ ix.n = Len(graph[E])
      /\ ix.coords = [i \in 0..Len(graph[E]) |-> i * w]
      /\ ix.sinks = Joined(Len(graph[E]), lists)[Len(graph[E])]
  BY Zenon DEF EvIndex, Matching
<1>2. PICK n \in Nat : n = Len(graph[E])
  BY Zenon DEF GraphType
<1>3. PICK S : S = 0..(Size[V] - 1)
  OBVIOUS
<1>4. \A e \in 0..(n - 1) : lists[e] = EndpointsIn(E, V, e)
  BY <1>2, Zenon
<1>5. \A e \in 0..(n - 1) : lists[e] \in Seq(S) /\ Len(lists[e]) = w
  BY <1>2, <1>3, <1>4, EndpointsInIs, Zenon
<1>6. w \in Nat
  <2>1. Len(EndpointSets[E]) \in Nat
    BY GraphAssumption, LenProperties
  <2>2. IsFiniteSet(1..Len(EndpointSets[E]))
    BY <2>1, FS_Interval
  <2>3. IsFiniteSet({p \in 1..Len(EndpointSets[E]) : EndpointSets[E][p] = V})
    BY <2>2, FS_Subset, Zenon
  <2> QED
    BY <2>3, FS_CardinalityType, Zenon DEF Matching
<1> HIDE DEF lists, w, ix
<1>7. PICK j : j = Joined(n, lists)
  OBVIOUS
<1>8. \A i \in 0..n : Len(j[i]) = i * w
  <2>1. Lists(n, S, lists) /\ Wide(n, lists, w)
    BY <1>5, Zenon DEF Lists, Wide
  <2>2. Even(Joined(n, lists), n, w)
    BY <1>6, <2>1, JoinedWidth, Zenon
  <2> QED
    BY <1>7, <2>2, Zenon DEF Even
<1>9. ASSUME NEW e \in 0..(n - 1) PROVE Neighbors(ix, e) = EndpointsIn(E, V, e)
  <2>1. e \in 0..n /\ e + 1 \in 0..n
    OBVIOUS
  <2>2. ix.coords[e] = Len(j[e]) /\ ix.coords[e + 1] = Len(j[e + 1]) /\ ix.sinks = j[n]
    BY <1>1, <1>2, <1>7, <1>8, <2>1, Zenon
  <2>3. Lists(n, S, lists)
    BY <1>5, Zenon DEF Lists
  <2>4. LET j0 == Joined(n, lists)
        IN  SubSeq(j0[n], Len(j0[e]) + 1, Len(j0[e + 1])) = lists[e]
    BY <2>3, JoinedSegment, Zenon
  <2> QED
    BY <1>4, <1>7, <2>2, <2>4, Zenon DEF Neighbors
<1> QED
  BY <1>1, <1>2, <1>9, Zenon DEF ix

\* Link::ve lists each edge as often as it has an endpoint at the vertex.
LEMMA VeIs ==
  ASSUME GraphType, NEW E \in EdgeSets, NEW V \in VertexSets
  PROVE  /\ VeIndex(E, V).n = Size[V]
         /\ \A v \in 0..(Size[V] - 1) :
              /\ Neighbors(VeIndex(E, V), v) \in Seq(0..(Len(graph[E]) - 1))
              /\ \A e \in 0..(Len(graph[E]) - 1) :
                   Occurrences(Neighbors(VeIndex(E, V), v), e) = Occurrences(EndpointsIn(E, V, e), v)
<1>1. PICK n \in Nat, m \in Nat : n = Len(graph[E]) /\ m = Size[V]
  BY GraphAssumption, Zenon DEF GraphType
<1>2. PICK S : S = 0..(n - 1)
  OBVIOUS
<1> DEFINE pushed(v) == [e \in 0..(Len(graph[E]) - 1) |->
                           [k \in 1..Occurrences(EndpointsIn(E, V, e), v) |-> e]]
           nbrs == [v \in 0..(Size[V] - 1) |-> Joined(Len(graph[E]), pushed(v))[Len(graph[E])]]
<1>3. VeIndex(E, V) = Pack(Size[V], nbrs)
  BY Zenon DEF VeIndex
<1>4. ASSUME NEW v \in 0..(m - 1)
      PROVE  /\ nbrs[v] \in Seq(S)
             /\ \A e \in 0..(n - 1) : Occurrences(nbrs[v], e) = Occurrences(EndpointsIn(E, V, e), v)
  <2> DEFINE c == [e \in 0..(n - 1) |-> Occurrences(EndpointsIn(E, V, e), v)]
  <2>1. nbrs[v] = Joined(n, pushed(v))[n]
    BY <1>1, Zenon
  <2>2. ASSUME NEW e \in 0..(n - 1)
        PROVE  pushed(v)[e] \in Seq(0..(n - 1)) /\ c[e] \in Nat /\ Counts(pushed(v)[e], e, c[e])
    <3>1. EndpointsIn(E, V, e) \in Seq(0..(Size[V] - 1))
      BY <1>1, EndpointsInIs, Zenon
    <3>2. PICK d \in Nat : d = Occurrences(EndpointsIn(E, V, e), v)
      BY <3>1, OccurrencesType, Zenon
    <3>3. c[e] = d
      BY <3>2, Zenon
    <3>4. pushed(v)[e] = Times(Occurrences(EndpointsIn(E, V, e), v), e)
      BY <1>1, Zenon DEF Times
    <3>5. pushed(v)[e] = Times(d, e)
      BY <3>2, <3>4, Zenon
    <3> HIDE DEF c, pushed
    <3>6. Times(d, e) \in Seq({e}) /\ Counts(Times(d, e), e, d)
      BY OccurrencesRepeated, Zenon
    <3>7. Times(d, e) \in Seq(0..(n - 1))
      <4>1. {e} \subseteq 0..(n - 1)
        OBVIOUS
      <4> QED
        BY <3>6, <4>1, SeqMonotonic, Zenon
    <3> QED
      BY <3>3, <3>5, <3>6, <3>7, Zenon
  <2>3. \A e \in 0..(n - 1) : c[e] = Occurrences(EndpointsIn(E, V, e), v)
    OBVIOUS
  <2>4. PICK ls : ls = pushed(v)
    OBVIOUS
  <2>5. Repeats(n, ls, c)
    BY <2>2, <2>4, Zenon DEF Repeats
  <2>6. nbrs[v] = Joined(n, ls)[n]
    BY <2>1, <2>4, Zenon
  <2> HIDE DEF nbrs, pushed, c
  <2>7. /\ Joined(n, ls)[n] \in Seq(0..(n - 1))
        /\ \A x \in 0..(n - 1) : Occurrences(Joined(n, ls)[n], x) = c[x]
    BY <2>5, JoinedRepeated, Zenon
  <2> QED
    BY <1>2, <2>3, <2>6, <2>7, Zenon
<1> HIDE DEF nbrs
<1>5. S \subseteq Int
  BY <1>2
<1>6. /\ Pack(m, nbrs).n = m
      /\ \A v \in 0..(m - 1) : Neighbors(Pack(m, nbrs), v) = Sorted(nbrs[v])
  <2>1. \A v \in 0..(m - 1) : nbrs[v] \in Seq(S)
    BY <1>4, Zenon
  <2> QED
    BY <1>5, <2>1, PackIs, ZenonT(60)
<1>7. ASSUME NEW v \in 0..(m - 1)
      PROVE  /\ Neighbors(Pack(m, nbrs), v) \in Seq(S)
             /\ \A e \in 0..(n - 1) : Occurrences(Neighbors(Pack(m, nbrs), v), e)
                                        = Occurrences(EndpointsIn(E, V, e), v)
  <2>1. nbrs[v] \in Seq(S)
    BY <1>4, Zenon
  <2>2. Sorted(nbrs[v]) \in Seq(S) /\ \A x : Occurrences(Sorted(nbrs[v]), x) = Occurrences(nbrs[v], x)
    BY <1>5, <2>1, SortedKeeps, Zenon
  <2> QED
    BY <1>4, <1>6, <2>2, Zenon
<1> QED
  BY <1>1, <1>2, <1>3, <1>6, <1>7, Zenon

-----------------------------------------------------------------------------
(* What buildSegmented is asked.                                           *)

LookupsTo(m) == {k \in Lookups : k[1] <= m}

\* The lookups of the expressions.
LEMMA LookupsAre ==
  /\ \A k \in Lookups : k[1] \in Ids /\ k[2] \in {0, 1} /\ k = <<k[1], k[2]>> /\ k[1] \in Nat \ {0}
  /\ Len(Exprs) \in Nat /\ LookupsTo(Len(Exprs)) = Lookups
<1>1. Len(Exprs) \in Nat /\ Ids = 1..Len(Exprs)
  BY ExprsAssumption, Zenon
<1>2. ASSUME NEW k \in Lookups
      PROVE  /\ k[1] \in Ids /\ k[2] \in {0, 1} /\ k = <<k[1], k[2]>>
             /\ k[1] \in Nat \ {0} /\ k[1] <= Len(Exprs)
  <2>1. k \in Ids \X {0, 1}
    BY Zenon DEF Lookups
  <2>2. k[1] \in Ids /\ k[2] \in {0, 1} /\ k = <<k[1], k[2]>>
    BY <2>1
  <2> QED
    BY <1>1, <2>2
<1> QED
  BY <1>1, <1>2, Zenon DEF LookupsTo

\* An operand comes before its user.
LEMMA OperandsBefore ==
  ASSUME NEW i \in Ids, i \notin Links
  PROVE  /\ i \in Compounds /\ i \in Nat
         /\ Exprs[i].l \in Ids /\ Exprs[i].r \in Ids /\ Exprs[i].l < i /\ Exprs[i].r < i
         /\ Left(i) \in Lookups /\ Right(i) \in Lookups
         /\ Left(i)[1] = Exprs[i].l /\ Right(i)[1] = Exprs[i].r
<1>1. i \in Compounds
  BY Zenon DEF Compounds
<1>2. PICK l, r, lEp, rEp :
        /\ l = Exprs[i].l /\ r = Exprs[i].r
        /\ lEp = Exprs[i].lEp /\ rEp = Exprs[i].rEp
  BY Zenon
<1>3. {l, r} \subseteq 1..(i - 1) /\ {lEp, rEp} \subseteq {0, 1}
  BY <1>1, <1>2, ExprsAssumption, Zenon
<1>4. Ids = 1..Len(Exprs) /\ Len(Exprs) \in Nat
  BY ExprsAssumption, Zenon
<1>5. l \in Ids /\ r \in Ids /\ l < i /\ r < i /\ lEp \in {0, 1} /\ rEp \in {0, 1} /\ i \in Nat
  BY <1>3, <1>4
<1>6. Left(i) = <<l, lEp>> /\ Right(i) = <<r, rEp>>
  BY <1>2, Zenon DEF Left, Right
<1>7. /\ Left(i) \in Lookups /\ Right(i) \in Lookups
      /\ Left(i)[1] = l /\ Right(i)[1] = r
  BY <1>5, <1>6 DEF Lookups
<1> QED
  BY <1>1, <1>2, <1>5, <1>7, Zenon

\* What is asked of an expression's operands are lookups.
LEMMA OperandLookups ==
  ASSUME NEW k \in Lookups, k[1] \notin Links
  PROVE  /\ Left(k[1]) \in Lookups /\ Right(k[1]) \in Lookups
         /\ Left(k[1])[1] < k[1] /\ Right(k[1])[1] < k[1]
  BY LookupsAre, OperandsBefore, Zenon

\* What callers and visitors ask are lookups.
LEMMA AskedAre ==
  /\ Asked \subseteq Lookups
  /\ \A i \in Compounds : Left(i) \in Asked /\ Right(i) \in Asked
<1>1. Asks \subseteq Lookups
  BY AsksAssumption, Zenon DEF Lookups
<1>2. \A i \in Compounds : Left(i) \in Lookups /\ Right(i) \in Lookups
  BY OperandsBefore, Zenon DEF Compounds
<1> QED
  BY <1>1, <1>2, Zenon DEF Asked

-----------------------------------------------------------------------------
(* The order of the memo.                                                  *)

IdsTo(m) == {i \in Ids : i <= m}

\* The expressions are numbered.
LEMMA IdsAre ==
  /\ \A i \in Ids : i \in Nat \ {0}
  /\ Len(Exprs) \in Nat /\ IdsTo(Len(Exprs)) = Ids
<1>1. Len(Exprs) \in Nat /\ Ids = 1..Len(Exprs)
  BY ExprsAssumption, Zenon
<1>2. \A i \in Ids : i \in Nat \ {0} /\ i <= Len(Exprs)
  BY <1>1
<1> QED
  BY <1>1, <1>2, Zenon DEF IdsTo

ShapeAt(i, L, R) ==
  IF i \in Links THEN <<End(i, 0), End(i, 1)>>
  ELSE IF Exprs[i].swapped THEN <<Exprs[i].op, R, L>> ELSE <<Exprs[i].op, L, R>>

IsShape(f, Dom) == f = [i \in Dom |-> ShapeAt(i, f[Exprs[i].l], f[Exprs[i].r])]

\* The shapes of the first expressions exist.
LEMMA ShapeExists == \A m \in Nat : \E f : IsShape(f, IdsTo(m))
<1> DEFINE S == {m \in Nat : \E f : IsShape(f, IdsTo(m))}
<1>1. 0 \in S
  <2>1. IdsTo(0) = {}
    BY IdsAre DEF IdsTo
  <2> DEFINE f == [i \in {} |-> 0]
  <2>2. f = [i \in {} |-> ShapeAt(i, f[Exprs[i].l], f[Exprs[i].r])]
    OBVIOUS
  <2>3. IsShape(f, {})
    BY <2>2, Zenon DEF IsShape
  <2>4. 0 \in Nat
    OBVIOUS
  <2> QED
    BY <2>1, <2>3, <2>4, Zenon
<1>2. ASSUME NEW m \in Nat, m \in S PROVE m + 1 \in S
  <2>1. PICK f : IsShape(f, IdsTo(m))
    BY <1>2, Zenon
  <2> DEFINE g == [i \in IdsTo(m + 1) |-> ShapeAt(i, f[Exprs[i].l], f[Exprs[i].r])]
  <2>2. ASSUME NEW i \in IdsTo(m) PROVE g[i] = f[i]
    <3>1. i \in IdsTo(m + 1)
      BY IdsAre DEF IdsTo
    <3>2. f[i] = ShapeAt(i, f[Exprs[i].l], f[Exprs[i].r])
      BY <2>1, Zenon DEF IsShape
    <3> QED
      BY <3>1, <3>2, Zenon
  <2>3. ASSUME NEW i \in IdsTo(m + 1)
        PROVE  ShapeAt(i, f[Exprs[i].l], f[Exprs[i].r]) = ShapeAt(i, g[Exprs[i].l], g[Exprs[i].r])
    <3>1. i \in Ids /\ i <= m + 1
      BY Zenon DEF IdsTo
    <3>2. CASE i \in Links
      BY <3>2, Zenon DEF ShapeAt
    <3>3. CASE i \notin Links
      <4>0. PICK l \in Ids, r \in Ids : l = Exprs[i].l /\ r = Exprs[i].r /\ l < i /\ r < i
        BY <3>1, <3>3, OperandsBefore, Zenon
      <4>1. l \in IdsTo(m) /\ r \in IdsTo(m)
        BY <3>1, <4>0, IdsAre DEF IdsTo
      <4>2. g[l] = f[l] /\ g[r] = f[r]
        BY <2>2, <4>1, Zenon
      <4> QED
        BY <4>0, <4>2, Zenon
    <3> QED
      BY <3>2, <3>3, Zenon
  <2>4. g = [i \in IdsTo(m + 1) |-> ShapeAt(i, g[Exprs[i].l], g[Exprs[i].r])]
    BY <2>3, Zenon
  <2>5. IsShape(g, IdsTo(m + 1))
    BY <2>4, Zenon DEF IsShape
  <2>6. m + 1 \in Nat
    OBVIOUS
  <2> HIDE DEF g
  <2> QED
    BY <2>5, <2>6, Zenon
<1> HIDE DEF S
<1>3. \A m \in Nat : m \in S
  BY <1>1, <1>2, InductionOnNat, Zenon
<1> QED
  BY <1>3, Zenon DEF S

\* The shape of an expression is made of those of its operands.
LEMMA ShapeIs ==
  \A i \in Ids : Shape[i] = ShapeAt(i, Shape[Exprs[i].l], Shape[Exprs[i].r])
<1>1. \E f : IsShape(f, Ids)
  BY ShapeExists, IdsAre, Zenon
<1>2. PICK b : b = Shape
  OBVIOUS
<1>3. b = CHOOSE f : IsShape(f, Ids)
  BY <1>2, Zenon DEF Shape, IsShape, ShapeAt
<1>4. IsShape(b, Ids)
  BY <1>1, <1>3, Zenon
<1> QED
  BY <1>2, <1>4, Zenon DEF IsShape

NamesAt(i, L, R) ==
  IF i \in Links THEN {Exprs[i].edges, Exprs[i].verts} ELSE L \cup R

IsNames(f, Dom) == f = [i \in Dom |-> NamesAt(i, f[Exprs[i].l], f[Exprs[i].r])]

\* The names in the first expressions exist.
LEMMA NamesExist == \A m \in Nat : \E f : IsNames(f, IdsTo(m))
<1> DEFINE S == {m \in Nat : \E f : IsNames(f, IdsTo(m))}
<1>1. 0 \in S
  <2>1. IdsTo(0) = {}
    BY IdsAre DEF IdsTo
  <2> DEFINE f == [i \in {} |-> 0]
  <2>2. f = [i \in {} |-> NamesAt(i, f[Exprs[i].l], f[Exprs[i].r])]
    OBVIOUS
  <2>3. IsNames(f, {})
    BY <2>2, Zenon DEF IsNames
  <2>4. 0 \in Nat
    OBVIOUS
  <2> QED
    BY <2>1, <2>3, <2>4, Zenon
<1>2. ASSUME NEW m \in Nat, m \in S PROVE m + 1 \in S
  <2>1. PICK f : IsNames(f, IdsTo(m))
    BY <1>2, Zenon
  <2> DEFINE g == [i \in IdsTo(m + 1) |-> NamesAt(i, f[Exprs[i].l], f[Exprs[i].r])]
  <2>2. ASSUME NEW i \in IdsTo(m) PROVE g[i] = f[i]
    <3>1. i \in IdsTo(m + 1)
      BY IdsAre DEF IdsTo
    <3>2. f[i] = NamesAt(i, f[Exprs[i].l], f[Exprs[i].r])
      BY <2>1, Zenon DEF IsNames
    <3> QED
      BY <3>1, <3>2, Zenon
  <2>3. ASSUME NEW i \in IdsTo(m + 1)
        PROVE  NamesAt(i, f[Exprs[i].l], f[Exprs[i].r]) = NamesAt(i, g[Exprs[i].l], g[Exprs[i].r])
    <3>1. i \in Ids /\ i <= m + 1
      BY Zenon DEF IdsTo
    <3>2. CASE i \in Links
      BY <3>2, Zenon DEF NamesAt
    <3>3. CASE i \notin Links
      <4>0. PICK l \in Ids, r \in Ids : l = Exprs[i].l /\ r = Exprs[i].r /\ l < i /\ r < i
        BY <3>1, <3>3, OperandsBefore, Zenon
      <4>1. l \in IdsTo(m) /\ r \in IdsTo(m)
        BY <3>1, <4>0, IdsAre DEF IdsTo
      <4>2. g[l] = f[l] /\ g[r] = f[r]
        BY <2>2, <4>1, Zenon
      <4> QED
        BY <4>0, <4>2, Zenon
    <3> QED
      BY <3>2, <3>3, Zenon
  <2>4. g = [i \in IdsTo(m + 1) |-> NamesAt(i, g[Exprs[i].l], g[Exprs[i].r])]
    BY <2>3, Zenon
  <2>5. IsNames(g, IdsTo(m + 1))
    BY <2>4, Zenon DEF IsNames
  <2>6. m + 1 \in Nat
    OBVIOUS
  <2> HIDE DEF g
  <2> QED
    BY <2>5, <2>6, Zenon
<1> HIDE DEF S
<1>3. \A m \in Nat : m \in S
  BY <1>1, <1>2, InductionOnNat, Zenon
<1> QED
  BY <1>3, Zenon DEF S

\* The names in an expression are those in its operands.
LEMMA NamesAre ==
  \A i \in Ids : NamesIn[i] = NamesAt(i, NamesIn[Exprs[i].l], NamesIn[Exprs[i].r])
<1>1. \E f : IsNames(f, Ids)
  BY NamesExist, IdsAre, Zenon
<1>2. PICK b : b = NamesIn
  OBVIOUS
<1>3. b = CHOOSE f : IsNames(f, Ids)
  BY <1>2, Zenon DEF NamesIn, IsNames, NamesAt
<1>4. IsNames(b, Ids)
  BY <1>1, <1>3, Zenon
<1> QED
  BY <1>2, <1>4, Zenon DEF IsNames


\* The names of a link are those of its two ends.
LEMMA LinkEnds ==
  ASSUME NEW i \in Links
  PROVE  /\ i \in Ids /\ NamesIn[i] = {Exprs[i].edges, Exprs[i].verts}
         /\ {End(i, 0), End(i, 1)} = {Exprs[i].edges, Exprs[i].verts}
         /\ Shape[i] = <<End(i, 0), End(i, 1)>> /\ KeyOf(i) = <<"link", End(i, 0), End(i, 1)>>
<1>1. i \in Ids /\ Exprs[i].op \in {"ev", "ve"}
  BY Zenon DEF Links
<1>2. {End(i, 0), End(i, 1)} = {Exprs[i].edges, Exprs[i].verts}
  BY <1>1 DEF End
<1>3. NamesIn[i] = {Exprs[i].edges, Exprs[i].verts} /\ Shape[i] = <<End(i, 0), End(i, 1)>>
  BY <1>1, NamesAre, ShapeIs, Zenon DEF NamesAt, ShapeAt
<1> QED
  BY <1>1, <1>2, <1>3, Zenon DEF KeyOf

\* p and q are the operands of i in the order its key has them.
Parts(i, p, q) ==
  /\ p < i /\ q < i
  /\ NamesIn[i] = NamesIn[p] \cup NamesIn[q]
  /\ Shape[i] = <<Exprs[i].op, Shape[p], Shape[q]>>
  /\ KeyOf(i) = <<Exprs[i].op, Exprs[i].quantified, Shape[p], Shape[q]>>

\* A compound has two operands.
LEMMA CompoundKey ==
  ASSUME NEW i \in Ids, i \notin Links
  PROVE  \E p, q \in Ids : Parts(i, p, q)
<1>1. PICK l \in Ids, r \in Ids : l = Exprs[i].l /\ r = Exprs[i].r /\ l < i /\ r < i
  BY OperandsBefore, Zenon
<1>2. NamesIn[i] = NamesIn[l] \cup NamesIn[r]
  BY <1>1, NamesAre, Zenon DEF NamesAt
<1>3. CASE Exprs[i].swapped
  <2>1. Shape[i] = <<Exprs[i].op, Shape[r], Shape[l]>>
    BY <1>1, <1>3, ShapeIs, Zenon DEF ShapeAt
  <2>2. KeyOf(i) = <<Exprs[i].op, Exprs[i].quantified, Shape[r], Shape[l]>>
    BY <1>1, <1>3, Zenon DEF KeyOf
  <2> QED
    BY <1>1, <1>2, <2>1, <2>2, Zenon DEF Parts
<1>4. CASE ~Exprs[i].swapped
  <2>1. Shape[i] = <<Exprs[i].op, Shape[l], Shape[r]>>
    BY <1>1, <1>4, ShapeIs, Zenon DEF ShapeAt
  <2>2. KeyOf(i) = <<Exprs[i].op, Exprs[i].quantified, Shape[l], Shape[r]>>
    BY <1>1, <1>4, Zenon DEF KeyOf
  <2> QED
    BY <1>1, <1>2, <2>1, <2>2, Zenon DEF Parts
<1> QED
  BY <1>3, <1>4, Zenon

\* Tuples of different lengths differ.
LEMMA TuplesDiffer ==
  /\ \A a, b, c, d, e : <<a, b>> # <<c, d, e>>
  /\ \A a, b, c, d, e, f, g : <<a, b, c>> # <<d, e, f, g>>
  OBVIOUS

\* Expressions of one shape are about the same sets.
LEMMA ShapeNames == \A i, j \in Ids : Shape[i] = Shape[j] => NamesIn[i] = NamesIn[j]
<1> DEFINE S == {m \in Nat : \A i, j \in Ids : i = m /\ Shape[i] = Shape[j] => NamesIn[i] = NamesIn[j]}
<1>1. ASSUME NEW m \in Nat, \A x \in 0..(m - 1) : x \in S PROVE m \in S
  <2> SUFFICES ASSUME NEW i \in Ids, NEW j \in Ids, i = m, Shape[i] = Shape[j]
               PROVE  NamesIn[i] = NamesIn[j]
    BY Zenon
  <2>1. CASE i \in Links /\ j \in Links
    <3>0. <<End(i, 0), End(i, 1)>> = <<End(j, 0), End(j, 1)>>
      BY <2>1, LinkEnds, Zenon
    <3>1. End(i, 0) = End(j, 0) /\ End(i, 1) = End(j, 1)
      BY <3>0
    <3> QED
      BY <2>1, <3>1, LinkEnds, Zenon
  <2>2. CASE i \in Links /\ j \notin Links
    <3>1. PICK p, q \in Ids : Parts(j, p, q)
      BY <2>2, CompoundKey, Zenon
    <3>2. <<End(i, 0), End(i, 1)>> = <<Exprs[j].op, Shape[p], Shape[q]>>
      BY <2>2, <3>1, LinkEnds, Zenon DEF Parts
    <3> QED
      BY <3>2, TuplesDiffer, Zenon
  <2>3. CASE i \notin Links /\ j \in Links
    <3>1. PICK p, q \in Ids : Parts(i, p, q)
      BY <2>3, CompoundKey, Zenon
    <3>2. <<End(j, 0), End(j, 1)>> = <<Exprs[i].op, Shape[p], Shape[q]>>
      BY <2>3, <3>1, LinkEnds, Zenon DEF Parts
    <3> QED
      BY <3>2, TuplesDiffer, Zenon
  <2>4. CASE i \notin Links /\ j \notin Links
    <3>1. PICK p, q \in Ids : Parts(i, p, q)
      BY <2>4, CompoundKey, Zenon
    <3>2. PICK u, w \in Ids : Parts(j, u, w)
      BY <2>4, CompoundKey, Zenon
    <3>3. Shape[p] = Shape[u] /\ Shape[q] = Shape[w]
      <4>1. <<Exprs[i].op, Shape[p], Shape[q]>> = <<Exprs[j].op, Shape[u], Shape[w]>>
        BY <3>1, <3>2, Zenon DEF Parts
      <4> QED
        BY <4>1
    <3>4. p \in 0..(m - 1) /\ q \in 0..(m - 1)
      <4>1. p \in Nat /\ q \in Nat /\ p < m /\ q < m
        BY <3>1, IdsAre, Zenon DEF Parts
      <4> QED
        BY <4>1
    <3>5. NamesIn[p] = NamesIn[u] /\ NamesIn[q] = NamesIn[w]
      BY <1>1, <3>3, <3>4, Zenon
    <3> QED
      BY <3>1, <3>2, <3>5, Zenon DEF Parts
  <2> QED
    BY <2>1, <2>2, <2>3, <2>4, Zenon
<1> HIDE DEF S
<1>2. \A m \in Nat : m \in S
  BY <1>1, StrongInductionOnNat, Zenon
<1>3. ASSUME NEW i \in Ids, NEW j \in Ids, Shape[i] = Shape[j] PROVE NamesIn[i] = NamesIn[j]
  <2>1. i \in S
    BY <1>2, IdsAre, Zenon
  <2> QED
    BY <1>3, <2>1, Zenon DEF S
<1> QED
  BY <1>3, Zenon

\* Entries of the memo.
LEMMA SlotsAre ==
  /\ \A k \in Lookups : Slot[k] = <<KeyOf(k[1]), k[2]>> /\ Slot[k] \in Slots
  /\ \A s \in Slots : \E k \in Lookups : s = Slot[k]
  BY Zenon DEF Slot, Slots

\* Lookups that the memo answers from one entry are about the same sets, and
\* when one is of a link the other is of the same link.
LEMMA SameSlot ==
  ASSUME NEW j \in Lookups, NEW k \in Lookups, Slot[j] = Slot[k]
  PROVE  /\ NamesIn[j[1]] = NamesIn[k[1]]
         /\ k[1] \in Links =>
              /\ j[1] \in Links /\ Exprs[j[1]].op = Exprs[k[1]].op
              /\ Exprs[j[1]].edges = Exprs[k[1]].edges /\ Exprs[j[1]].verts = Exprs[k[1]].verts
<1>1. PICK a \in Ids, b \in Ids : a = j[1] /\ b = k[1]
  BY LookupsAre, Zenon
<1>2. KeyOf(a) = KeyOf(b)
  <2>1. <<KeyOf(a), j[2]>> = <<KeyOf(b), k[2]>>
    BY <1>1, SlotsAre, Zenon
  <2> QED
    BY <2>1
<1>3. CASE a \in Links /\ b \in Links
  <2>0. <<"link", End(a, 0), End(a, 1)>> = <<"link", End(b, 0), End(b, 1)>>
    BY <1>2, <1>3, LinkEnds, Zenon
  <2>1. End(a, 0) = End(b, 0) /\ End(a, 1) = End(b, 1)
    BY <2>0
  <2>2. NamesIn[a] = NamesIn[b]
    BY <1>3, <2>1, LinkEnds, Zenon
  <2>3. Exprs[a].op \in {"ev", "ve"} /\ Exprs[b].op \in {"ev", "ve"}
    BY <1>3, Zenon DEF Links
  <2>4. Exprs[a].edges # Exprs[b].verts /\ Exprs[b].edges # Exprs[a].verts
    BY <1>3, ExprsAssumption, Zenon
  <2>5. /\ Exprs[a].op = Exprs[b].op
        /\ Exprs[a].edges = Exprs[b].edges /\ Exprs[a].verts = Exprs[b].verts
    BY <2>1, <2>3, <2>4 DEF End
  <2> QED
    BY <1>1, <1>3, <2>2, <2>5, Zenon
<1>4. ASSUME NEW c \in Links, NEW d \in Ids, d \notin Links PROVE KeyOf(c) # KeyOf(d)
  <2>1. PICK p, q \in Ids : Parts(d, p, q)
    BY <1>4, CompoundKey, Zenon
  <2>2. /\ KeyOf(c) = <<"link", End(c, 0), End(c, 1)>>
        /\ KeyOf(d) = <<Exprs[d].op, Exprs[d].quantified, Shape[p], Shape[q]>>
    BY <2>1, LinkEnds, Zenon DEF Parts
  <2> QED
    BY <2>2, TuplesDiffer, Zenon
<1>5. CASE a \notin Links /\ b \notin Links
  <2>1. PICK p, q \in Ids : Parts(a, p, q)
    BY <1>5, CompoundKey, Zenon
  <2>2. PICK u, w \in Ids : Parts(b, u, w)
    BY <1>5, CompoundKey, Zenon
  <2>3. Shape[p] = Shape[u] /\ Shape[q] = Shape[w]
    <3>1. <<Exprs[a].op, Exprs[a].quantified, Shape[p], Shape[q]>>
            = <<Exprs[b].op, Exprs[b].quantified, Shape[u], Shape[w]>>
      BY <1>2, <2>1, <2>2, Zenon DEF Parts
    <3> QED
      BY <3>1
  <2>4. NamesIn[p] = NamesIn[u] /\ NamesIn[q] = NamesIn[w]
    BY <2>3, ShapeNames, Zenon
  <2> QED
    BY <1>1, <1>5, <2>1, <2>2, <2>4, Zenon DEF Parts
<1> QED
  BY <1>2, <1>3, <1>4, <1>5, Zenon

-----------------------------------------------------------------------------
(* The invariant: bound names keep their sets, and a memoised link is the  *)
(* index of those sets.                                                    *)

SetsFor(n) == IF n \in EdgeNames THEN EdgeSets ELSE VertexSets

BindingsType ==
  /\ DOMAIN bindings = Names
  /\ \A n \in Names : bindings[n] \in {None} \cup SetsFor(n)

MemoDomain == pathIndices = [s \in Slots |-> pathIndices[s]]

LinkBound(i) == bindings[Exprs[i].edges] # None /\ bindings[Exprs[i].verts] # None

LinksBuilt ==
  \A k \in Lookups : k[1] \in Links /\ ~Missing(k) =>
    LinkBound(k[1]) /\ pathIndices[Slot[k]] = LinkIndex(k[1])

CallsType == calls \in Seq(Asked)

LinksInv == GraphType /\ BindingsType /\ MemoDomain /\ CallsType /\ LinksBuilt

\* The graph is well formed at the start.
LEMMA GraphTypeInit == BuilderInit => GraphType
<1> SUFFICES ASSUME BuilderInit, NEW E \in EdgeSets
             PROVE  /\ Len(graph[E]) \in Nat
                    /\ \A e \in 1..Len(graph[E]), p \in 1..Len(EndpointSets[E]) :
                         graph[E][e][p] \in 0..(Size[EndpointSets[E][p]] - 1)
  BY Zenon DEF GraphType
<1>1. PICK X, M : graph \in [EdgeSets -> UNION {[1..n -> X] : n \in 0..M}]
  BY Zenon DEF BuilderInit
<1>2. PICK n \in 0..M : graph[E] \in [1..n -> X]
  <2>1. graph[E] \in UNION {[1..n -> X] : n \in 0..M}
    BY <1>1, Zenon
  <2> QED
    BY <2>1, Zenon
<1>3. n \in Nat
  BY <1>2
<1>4. Len(graph[E]) = n
  BY <1>2, <1>3, FunctionIsSeq, Zenon
<1>5. ASSUME NEW e \in 1..Len(graph[E]), NEW p \in 1..Len(EndpointSets[E])
      PROVE  graph[E][e][p] \in 0..(Size[EndpointSets[E][p]] - 1)
  <2>1. graph[E][e] \in Tuples(E)
    BY Zenon DEF BuilderInit
  <2>2. PICK m : /\ graph[E][e] \in [1..Len(EndpointSets[E]) -> 0..m]
                 /\ \A q \in DOMAIN graph[E][e] : graph[E][e][q] < Size[EndpointSets[E][q]]
    BY <2>1, Zenon DEF Tuples
  <2>3. graph[E][e][p] \in 0..m /\ graph[E][e][p] < Size[EndpointSets[E][p]]
    BY <2>2, Zenon
  <2>4. EndpointSets[E][p] \in VertexSets
    BY GraphAssumption, ElementOfSeq, Zenon
  <2>5. Size[EndpointSets[E][p]] \in Nat
    BY <2>4, GraphAssumption, Zenon
  <2> QED
    BY <2>3, <2>5
<1> QED
  BY <1>3, <1>4, <1>5, Zenon

\* The links are transposed at the start.
LEMMA LinksInit == BuilderInit => LinksInv
<1> SUFFICES ASSUME BuilderInit PROVE LinksInv
  OBVIOUS
<1>1. DOMAIN bindings = Names /\ \A n \in Names : bindings[n] = None
  BY Zenon DEF BuilderInit
<1>2. pathIndices = [s \in Slots |-> None]
  BY Zenon DEF BuilderInit
<1>3. \A k \in Lookups : Missing(k)
  BY <1>2, SlotsAre, Zenon DEF Missing
<1>4. MemoDomain
  BY <1>2, Zenon DEF MemoDomain
<1>5. CallsType
  <2>1. calls = <<>>
    BY Zenon DEF BuilderInit
  <2> QED
    BY <2>1 DEF CallsType
<1> QED
  BY <1>1, <1>3, <1>4, <1>5, GraphTypeInit, Zenon DEF LinksInv, BindingsType, LinksBuilt

\* The names of a link are bound to an edge set and a plain set.
LEMMA LinkSets ==
  ASSUME BindingsType, NEW i \in Links, LinkBound(i)
  PROVE  /\ bindings[Exprs[i].edges] \in EdgeSets /\ bindings[Exprs[i].verts] \in VertexSets
         /\ Exprs[i].edges \in Names /\ Exprs[i].verts \in Names
<1>1. Exprs[i].edges \in Names /\ Exprs[i].verts \in Names
  BY ExprsAssumption, Zenon
<1>2. Exprs[i].edges \in EdgeNames /\ Exprs[i].verts \notin EdgeNames
  BY ExprsAssumption, Zenon DEF EdgeNames
<1> QED
  BY <1>1, <1>2, Zenon DEF BindingsType, LinkBound, SetsFor

\* What is bound stays bound, to the same set.
Kept == \A n \in Names : bindings[n] # None => bindings'[n] = bindings[n]

\* A step keeps the bindings that are made.
LEMMA NextKeeps ==
  ASSUME BindingsType, [BuilderNext]_builderVars
  PROVE  Kept /\ graph' = graph /\ BindingsType'
<1>1. ASSUME NEW n \in Names, NEW t \in SetsFor(n), Bind(n, t)
      PROVE  Kept /\ graph' = graph /\ BindingsType'
  <2>1. bindings' = [bindings EXCEPT ![n] = IF @ = None THEN t ELSE @] /\ graph' = graph
    BY <1>1, Zenon DEF Bind
  <2>2. ASSUME NEW y \in Names
        PROVE  /\ bindings[y] # None => bindings'[y] = bindings[y]
               /\ bindings'[y] \in {None} \cup SetsFor(y)
    <3>1. bindings[y] \in {None} \cup SetsFor(y)
      BY Zenon DEF BindingsType
    <3>2. CASE y = n /\ bindings[n] = None
      <4>1. bindings'[y] = t
        BY <2>1, <3>2, Zenon DEF BindingsType
      <4> QED
        BY <3>2, <4>1, Zenon
    <3>3. CASE ~(y = n /\ bindings[n] = None)
      <4>1. bindings'[y] = bindings[y]
        BY <2>1, <3>3, Zenon DEF BindingsType
      <4> QED
        BY <3>1, <4>1, Zenon
    <3> QED
      BY <3>2, <3>3, Zenon
  <2> QED
    <3>1. DOMAIN bindings' = Names
      BY <2>1, Zenon DEF BindingsType
    <3> QED
      BY <2>1, <2>2, <3>1, Zenon DEF Kept, BindingsType
<1>2. ASSUME bindings' = bindings, graph' = graph
      PROVE  Kept /\ graph' = graph /\ BindingsType'
  BY <1>2, Zenon DEF Kept, BindingsType
<1> QED
  BY <1>1, <1>2, Zenon DEF BuilderNext, BuildSegmented, ReturnMemoised, VisitOperand, ReturnBuilt, Throw,
                           builderVars, SetsFor

\* The index of a link whose names are bound is kept.
LEMMA LinkKept ==
  ASSUME BindingsType, Kept, graph' = graph, NEW i \in Links, LinkBound(i)
  PROVE  LinkBound(i)' /\ LinkIndex(i)' = LinkIndex(i)
<1>1. PICK E, V : E = bindings[Exprs[i].edges] /\ V = bindings[Exprs[i].verts]
  OBVIOUS
<1>2. bindings'[Exprs[i].edges] = E /\ bindings'[Exprs[i].verts] = V
  BY <1>1, LinkSets, Zenon DEF Kept, LinkBound
<1>3. \A e : EndpointsIn(E, V, e)' = EndpointsIn(E, V, e)
  BY Zenon DEF EndpointsIn
<1>4. EvIndex(E, V)' = EvIndex(E, V)
  BY <1>3, Zenon DEF EvIndex
<1>5. VeIndex(E, V)' = VeIndex(E, V)
  BY <1>3, Zenon DEF VeIndex
<1>6. LinkIndex(i) = IF Exprs[i].op = "ev" THEN EvIndex(E, V) ELSE VeIndex(E, V)
  BY <1>1, Zenon DEF LinkIndex
<1>7. LinkIndex(i)' = IF Exprs[i].op = "ev" THEN EvIndex(E, V)' ELSE VeIndex(E, V)'
  BY <1>2, Zenon DEF LinkIndex
<1>8. LinkIndex(i)' = LinkIndex(i)
  <2>1. CASE Exprs[i].op = "ev"
    <3>1. LinkIndex(i) = EvIndex(E, V) /\ LinkIndex(i)' = EvIndex(E, V)'
      BY <1>6, <1>7, <2>1, Zenon
    <3> QED
      BY <1>4, <3>1, Zenon
  <2>2. CASE Exprs[i].op # "ev"
    <3>1. LinkIndex(i) = VeIndex(E, V) /\ LinkIndex(i)' = VeIndex(E, V)'
      BY <1>6, <1>7, <2>2, Zenon
    <3> QED
      BY <1>5, <3>1, Zenon
  <2> QED
    BY <2>1, <2>2, Zenon
<1>9. LinkBound(i)'
  BY <1>1, <1>2, Zenon DEF LinkBound
<1> QED
  BY <1>8, <1>9, Zenon

\* The calls are for what callers and visitors ask.
LEMMA CallsNext ==
  ASSUME CallsType, [BuilderNext]_builderVars
  PROVE  CallsType'
<1>0. calls \in Seq(Asked) /\ (CallsType' <=> calls' \in Seq(Asked))
  BY Zenon DEF CallsType, Asked, Left, Right, Compounds, Links, Ids
<1>1. ASSUME calls' = calls PROVE CallsType'
  BY <1>0, <1>1, Zenon
<1>2. ASSUME NEW k \in Asked, calls' = <<k>> PROVE CallsType'
  <2>1. <<k>> \in Seq(Asked)
    OBVIOUS
  <2> QED
    BY <1>0, <1>2, <2>1, Zenon
<1>3. ASSUME calls # <<>>, calls' = Tail(calls) PROVE CallsType'
  <2>1. Tail(calls) \in Seq(Asked)
    BY <1>0, <1>3
  <2> QED
    BY <1>0, <1>3, <2>1, Zenon
<1>4. ASSUME NEW k \in Asked, calls' = <<k>> \o calls PROVE CallsType'
  <2>1. <<k>> \o calls \in Seq(Asked)
    BY <1>0
  <2> QED
    BY <1>0, <1>4, <2>1, Zenon
<1>5. ASSUME calls' = <<>> PROVE CallsType'
  BY <1>0, <1>5
<1>6. Asks \subseteq Asked
  BY Zenon DEF Asked
<1>7. CASE VisitOperand
  BY <1>4, <1>7, AskedAre, Zenon DEF VisitOperand
<1>8. CASE \E k \in Asks : BuildSegmented(k)
  BY <1>2, <1>6, <1>8, Zenon DEF BuildSegmented
<1>9. CASE ReturnMemoised \/ ReturnBuilt
  BY <1>3, <1>9, Zenon DEF ReturnMemoised, ReturnBuilt, OperandsBuilt
<1>10. CASE Throw
  BY <1>5, <1>10, Zenon DEF Throw
<1>11. CASE (\E n \in Names : \E s \in SetsFor(n) : Bind(n, s)) \/ UNCHANGED builderVars
  BY <1>1, <1>11, Zenon DEF Bind, builderVars
<1> QED
  BY <1>7, <1>8, <1>9, <1>10, <1>11, Zenon DEF BuilderNext, SetsFor

\* Only the visitor's result changes the memo.
LEMMA MemoGrows ==
  ASSUME MemoDomain, CallsType, [BuilderNext]_builderVars
  PROVE  \/ pathIndices' = pathIndices
         \/ \E j \in Asked :
              /\ j = Top /\ OperandsBuilt /\ bindings' = bindings
              /\ \A n \in NamesOf(j[1]) : bindings[n] # None
              /\ pathIndices' = [s \in Slots |-> IF s = Slot[j] THEN Visited(j[1]) ELSE pathIndices[s]]
<1>1. CASE ReturnBuilt
  <2>1. Top \in Asked
    <3>1. calls \in Seq(Asked) /\ calls # <<>>
      BY <1>1, Zenon DEF CallsType, ReturnBuilt, OperandsBuilt
    <3>2. calls[1] \in Asked
      BY <3>1
    <3> QED
      BY <3>2, Zenon DEF Top
  <2>2. PICK j \in Asked : j = Top
    BY <2>1, Zenon
  <2>3. /\ OperandsBuilt /\ bindings' = bindings
        /\ \A n \in NamesOf(j[1]) : bindings[n] # None
        /\ pathIndices' = [pathIndices EXCEPT ![Slot[j]] = Visited(j[1])]
    BY <1>1, <2>2, Zenon DEF ReturnBuilt
  <2>4. pathIndices' = [s \in Slots |-> IF s = Slot[j] THEN Visited(j[1]) ELSE pathIndices[s]]
    <3>1. DOMAIN pathIndices = Slots
      BY Zenon DEF MemoDomain
    <3>2. DOMAIN pathIndices' = Slots
      BY <2>3, <3>1, Zenon
    <3>3. \A s \in Slots : pathIndices'[s] = IF s = Slot[j] THEN Visited(j[1]) ELSE pathIndices[s]
      BY <2>3, <3>1, Zenon
    <3> QED
      BY <2>3, <3>1, <3>3, Zenon
  <2> QED
    BY <2>2, <2>3, <2>4, Zenon
<1>2. CASE ~ReturnBuilt
  BY <1>2, Zenon DEF BuilderNext, Bind, BuildSegmented, ReturnMemoised, VisitOperand, Throw, builderVars
<1> QED
  BY <1>1, <1>2, Zenon

\* What does not depend on the state.
LEMMA ConstantsKept ==
  /\ Slot' = Slot /\ Slots' = Slots /\ NamesIn' = NamesIn /\ Asked' = Asked /\ Lookups' = Lookups
  /\ \A i, ep : End(i, ep)' = End(i, ep)
<1>1. Lookups' = Lookups /\ \A i, ep : End(i, ep)' = End(i, ep)
  BY Zenon DEF Lookups, Ids, End
<1>2. Asked' = Asked
  BY Zenon DEF Asked, Left, Right, Compounds, Links, Ids
<1>3. NamesIn' = NamesIn
  BY Zenon DEF NamesIn, Links, Ids
<1>4. Shape' = Shape
  BY Zenon DEF Shape, Links, Ids, End
<1>5. Slot' = Slot
  BY <1>4, Zenon DEF Slot, Lookups, KeyOf, Links, Ids, End
<1>6. Slots' = Slots
  BY <1>5, Zenon DEF Slots, Lookups, Ids
<1> QED
  BY <1>1, <1>2, <1>3, <1>5, <1>6, Zenon

\* Every step keeps the links transposed.
LEMMA LinksNext == LinksInv /\ [BuilderNext]_builderVars => LinksInv'
<1> SUFFICES ASSUME LinksInv, [BuilderNext]_builderVars PROVE LinksInv'
  OBVIOUS
<1>1. Kept /\ graph' = graph /\ BindingsType' /\ BindingsType
  BY NextKeeps, Zenon DEF LinksInv
<1>2. GraphType' /\ CallsType'
  BY <1>1, CallsNext, Zenon DEF LinksInv, GraphType
<1>3. ASSUME NEW k \in Lookups, k[1] \in Links, LinkBound(k[1]), pathIndices'[Slot[k]] = LinkIndex(k[1])
      PROVE  LinkBound(k[1])' /\ pathIndices'[Slot[k]] = LinkIndex(k[1])'
  BY <1>1, <1>3, LinkKept, Zenon
<1>4. ASSUME pathIndices' = pathIndices,
             NEW k \in Lookups, k[1] \in Links, pathIndices'[Slot[k]] # None
      PROVE  LinkBound(k[1])' /\ pathIndices'[Slot[k]] = LinkIndex(k[1])'
  BY <1>3, <1>4, Zenon DEF LinksInv, LinksBuilt, Missing
<1>5. ASSUME NEW j \in Asked, \A n \in NamesOf(j[1]) : bindings[n] # None,
             pathIndices' = [s \in Slots |-> IF s = Slot[j] THEN Visited(j[1]) ELSE pathIndices[s]],
             NEW k \in Lookups, k[1] \in Links, pathIndices'[Slot[k]] # None
      PROVE  LinkBound(k[1])' /\ pathIndices'[Slot[k]] = LinkIndex(k[1])'
  <2>1. CASE Slot[j] = Slot[k]
    <3>1. /\ j \in Lookups /\ j[1] \in Links /\ Exprs[j[1]].op = Exprs[k[1]].op
          /\ Exprs[j[1]].edges = Exprs[k[1]].edges /\ Exprs[j[1]].verts = Exprs[k[1]].verts
      BY <1>5, <2>1, AskedAre, SameSlot, Zenon
    <3>2. LinkBound(k[1])
      <4>1. NamesOf(j[1]) = {Exprs[j[1]].edges, Exprs[j[1]].verts}
        BY <3>1, Zenon DEF NamesOf
      <4> QED
        BY <1>5, <3>1, <4>1, Zenon DEF LinkBound
    <3>3. Visited(j[1]) = LinkIndex(k[1])
      BY <3>1, Zenon DEF Visited, LinkIndex
    <3>4. pathIndices'[Slot[k]] = LinkIndex(k[1])
      BY <1>5, <2>1, <3>3, SlotsAre, Zenon
    <3> QED
      BY <1>3, <1>5, <3>2, <3>4, Zenon
  <2>2. CASE Slot[j] # Slot[k]
    <3>1. pathIndices'[Slot[k]] = pathIndices[Slot[k]]
      BY <1>5, <2>2, SlotsAre, Zenon
    <3> QED
      BY <1>3, <1>5, <3>1, Zenon DEF LinksInv, LinksBuilt, Missing
  <2> QED
    BY <2>1, <2>2, Zenon
<1>6. ASSUME NEW k \in Lookups, k[1] \in Links, pathIndices'[Slot[k]] # None
      PROVE  LinkBound(k[1])' /\ pathIndices'[Slot[k]] = LinkIndex(k[1])'
  BY <1>4, <1>5, <1>6, MemoGrows, Zenon DEF LinksInv
<1>7. LinksBuilt'
  BY <1>6, ConstantsKept, Zenon DEF LinksBuilt, Missing, Links, Ids
<1>8. MemoDomain'
  <2>1. pathIndices' = [s \in Slots |-> pathIndices'[s]]
    BY MemoGrows, Zenon DEF LinksInv, MemoDomain
  <2> QED
    BY <2>1, ConstantsKept, Zenon DEF MemoDomain
<1> QED
  BY <1>1, <1>2, <1>7, <1>8, Zenon DEF LinksInv

\* Link ev and link ve between the same sets are transposes, element by element
\* and with multiplicity.
LEMMA LinksImply == LinksInv => LinksTransposed
<1> SUFFICES ASSUME LinksInv, NEW i \in Links, NEW j \in Links,
                    Exprs[i].op = "ev", Exprs[j].op = "ve",
                    Exprs[i].edges = Exprs[j].edges, Exprs[i].verts = Exprs[j].verts,
                    pathIndices[Slot[<<i, 0>>]] # None, pathIndices[Slot[<<j, 0>>]] # None,
                    NEW a \in 0..(pathIndices[Slot[<<i, 0>>]].n - 1),
                    NEW b \in 0..(pathIndices[Slot[<<j, 0>>]].n - 1)
             PROVE  Occurrences(Neighbors(pathIndices[Slot[<<i, 0>>]], a), b)
                      = Occurrences(Neighbors(pathIndices[Slot[<<j, 0>>]], b), a)
  BY Zenon DEF LinksTransposed
<1>1. <<i, 0>> \in Lookups /\ <<j, 0>> \in Lookups /\ <<i, 0>>[1] = i /\ <<j, 0>>[1] = j
  BY DEF Lookups, Links
<1>2. /\ LinkBound(i) /\ LinkBound(j)
      /\ pathIndices[Slot[<<i, 0>>]] = LinkIndex(i) /\ pathIndices[Slot[<<j, 0>>]] = LinkIndex(j)
  BY <1>1, Zenon DEF LinksInv, LinksBuilt, Missing
<1>3. PICK E \in EdgeSets, V \in VertexSets :
        E = bindings[Exprs[i].edges] /\ V = bindings[Exprs[i].verts]
  BY <1>2, LinkSets, Zenon DEF LinksInv
<1>4. pathIndices[Slot[<<i, 0>>]] = EvIndex(E, V)
  BY <1>2, <1>3, Zenon DEF LinkIndex
<1>5. pathIndices[Slot[<<j, 0>>]] = VeIndex(E, V)
  <2>1. Exprs[j].op # "ev"
    OBVIOUS
  <2> QED
    BY <1>2, <1>3, <2>1, Zenon DEF LinkIndex
<1>6. GraphType
  BY Zenon DEF LinksInv
<1>7. /\ EvIndex(E, V).n = Len(graph[E])
      /\ \A e \in 0..(Len(graph[E]) - 1) : Neighbors(EvIndex(E, V), e) = EndpointsIn(E, V, e)
  BY <1>6, EvIs, Zenon
<1>8. /\ VeIndex(E, V).n = Size[V]
      /\ \A v \in 0..(Size[V] - 1) : \A e \in 0..(Len(graph[E]) - 1) :
           Occurrences(Neighbors(VeIndex(E, V), v), e) = Occurrences(EndpointsIn(E, V, e), v)
  BY <1>6, VeIs, Zenon
<1>9. a \in 0..(Len(graph[E]) - 1) /\ b \in 0..(Size[V] - 1)
  BY <1>4, <1>5, <1>7, <1>8, Zenon
<1> QED
  BY <1>4, <1>5, <1>7, <1>8, <1>9, Zenon

\* The links between the same two sets that the builder has memoised are
\* transposes of each other with multiplicity, whatever was bound and built and
\* in whatever order, for every graph and every set of path expressions.
THEOREM LinksAlwaysTransposed == BuilderSpec => []LinksTransposed
<1>1. BuilderSpec => []LinksInv
  BY LinksInit, LinksNext, PTL DEF BuilderSpec
<1> QED
  BY <1>1, LinksImply, PTL

-----------------------------------------------------------------------------
(* What a path expression means, from its operands.                        *)

RelatedAt(k, L, R) ==
  LET rel == IF k[1] \in Links
             THEN IF Exprs[k[1]].op = "ev" THEN Linked(k[1]) ELSE Flipped(Linked(k[1]))
             ELSE Combined(k[1], L, R)
  IN IF k[2] = 0 THEN rel ELSE Flipped(rel)

IsRelated(f, Dom) == f = [k \in Dom |-> RelatedAt(k, f[Left(k[1])], f[Right(k[1])])]

\* The relations of the first expressions exist.
LEMMA RelatedExists == \A m \in Nat : \E f : IsRelated(f, LookupsTo(m))
<1> DEFINE S == {m \in Nat : \E f : IsRelated(f, LookupsTo(m))}
<1>1. 0 \in S
  <2>1. LookupsTo(0) = {}
    BY LookupsAre DEF LookupsTo
  <2> DEFINE f == [k \in {} |-> 0]
  <2>2. f = [k \in {} |-> RelatedAt(k, f[Left(k[1])], f[Right(k[1])])]
    OBVIOUS
  <2>3. IsRelated(f, {})
    BY <2>2, Zenon DEF IsRelated
  <2>4. 0 \in Nat
    OBVIOUS
  <2> QED
    BY <2>1, <2>3, <2>4, Zenon
<1>2. ASSUME NEW m \in Nat, m \in S PROVE m + 1 \in S
  <2>1. PICK f : IsRelated(f, LookupsTo(m))
    BY <1>2, Zenon
  <2> DEFINE g == [k \in LookupsTo(m + 1) |-> RelatedAt(k, f[Left(k[1])], f[Right(k[1])])]
  <2>2. ASSUME NEW k \in LookupsTo(m) PROVE g[k] = f[k]
    <3>1. k \in LookupsTo(m + 1)
      BY LookupsAre DEF LookupsTo
    <3>2. f[k] = RelatedAt(k, f[Left(k[1])], f[Right(k[1])])
      BY <2>1, Zenon DEF IsRelated
    <3> QED
      BY <3>1, <3>2, Zenon
  <2>3. ASSUME NEW k \in LookupsTo(m + 1)
        PROVE  RelatedAt(k, f[Left(k[1])], f[Right(k[1])]) = RelatedAt(k, g[Left(k[1])], g[Right(k[1])])
    <3>1. k \in Lookups /\ k[1] <= m + 1
      BY Zenon DEF LookupsTo
    <3>2. CASE k[1] \in Links
      BY <3>2, Zenon DEF RelatedAt
    <3>3. CASE k[1] \notin Links
      <4>1. Left(k[1]) \in LookupsTo(m) /\ Right(k[1]) \in LookupsTo(m)
        BY <3>1, <3>3, OperandLookups, LookupsAre DEF LookupsTo
      <4>2. g[Left(k[1])] = f[Left(k[1])] /\ g[Right(k[1])] = f[Right(k[1])]
        BY <2>2, <4>1, Zenon
      <4> QED
        BY <4>2, Zenon
    <3> QED
      BY <3>2, <3>3, Zenon
  <2>4. g = [k \in LookupsTo(m + 1) |-> RelatedAt(k, g[Left(k[1])], g[Right(k[1])])]
    BY <2>3, Zenon
  <2>5. IsRelated(g, LookupsTo(m + 1))
    BY <2>4, Zenon DEF IsRelated
  <2>6. m + 1 \in Nat
    OBVIOUS
  <2> HIDE DEF g
  <2> QED
    BY <2>5, <2>6, Zenon
<1> HIDE DEF S
<1>3. \A m \in Nat : m \in S
  BY <1>1, <1>2, InductionOnNat, Zenon
<1> QED
  BY <1>3, Zenon DEF S

\* The relation of an expression is made of those of its operands.
LEMMA RelatedIs ==
  \A k \in Lookups : Related[k] = RelatedAt(k, Related[Left(k[1])], Related[Right(k[1])])
<1>1. \E f : IsRelated(f, Lookups)
  BY RelatedExists, LookupsAre, Zenon
<1>2. PICK b : b = Related
  OBVIOUS
<1>3. b = CHOOSE f : IsRelated(f, Lookups)
  BY <1>2, Zenon DEF Related, IsRelated, RelatedAt
<1>4. IsRelated(b, Lookups)
  BY <1>1, <1>3, Zenon
<1> QED
  BY <1>2, <1>4, Zenon DEF IsRelated

-----------------------------------------------------------------------------
(* An index of n elements lists, for each of them, what a relation to m    *)
(* elements relates it to.                                                 *)

Indexes(ix, n, m, rel) ==
  /\ n \in Nat /\ m \in Nat /\ ix.n = n
  /\ rel \subseteq (0..(n - 1)) \X (0..(m - 1))
  /\ \A i \in 0..(n - 1) :
       /\ Neighbors(ix, i) \in Seq(0..(m - 1))
       /\ \A b : b \in NeighborSet(ix, i) <=> <<i, b>> \in rel

\* An index of a relation holds the pairs of the relation.
LEMMA IndexesPairs ==
  ASSUME NEW ix, NEW n, NEW m, NEW rel, Indexes(ix, n, m, rel)
  PROVE  Pairs(ix) = rel
<1>1. ASSUME NEW p \in Pairs(ix) PROVE p \in rel
  <2>1. PICK a \in 0..(n - 1) : p \in {<<a, b>> : b \in NeighborSet(ix, a)}
    BY Zenon DEF Pairs, Indexes
  <2>2. PICK b \in NeighborSet(ix, a) : p = <<a, b>>
    BY <2>1, Zenon
  <2> QED
    BY <2>2, Zenon DEF Indexes
<1>2. ASSUME NEW p \in rel PROVE p \in Pairs(ix)
  <2>1. p[1] \in 0..(n - 1) /\ p = <<p[1], p[2]>>
    <3>1. p \in (0..(n - 1)) \X (0..(m - 1))
      BY Zenon DEF Indexes
    <3> QED
      BY <3>1
  <2>2. p[2] \in NeighborSet(ix, p[1])
    BY <2>1, Zenon DEF Indexes
  <2>3. p \in {<<p[1], b>> : b \in NeighborSet(ix, p[1])}
    BY <2>1, <2>2, Zenon
  <2>4. p[1] \in 0..(ix.n - 1)
    BY <2>1, Zenon DEF Indexes
  <2> QED
    BY <2>3, <2>4, Zenon DEF Pairs
<1> QED
  BY <1>1, <1>2, Zenon

\* What a neighbour set holds.
LEMMA NeighborIn ==
  ASSUME NEW ix, NEW n, NEW m, NEW rel, Indexes(ix, n, m, rel), NEW i \in 0..(n - 1)
  PROVE  /\ NeighborSet(ix, i) \subseteq 0..(m - 1)
         /\ Neighbors(ix, i) # <<>> <=> \E b : <<i, b>> \in rel
<1>1. PICK q \in Seq(0..(m - 1)) : q = Neighbors(ix, i)
  BY Zenon DEF Indexes
<1>2. NeighborSet(ix, i) = {q[k] : k \in 1..Len(q)}
  BY <1>1, Zenon DEF NeighborSet
<1>3. /\ {q[k] : k \in 1..Len(q)} = Range(q) /\ Range(q) \subseteq 0..(m - 1)
      /\ q = <<>> <=> Range(q) = {}
  BY RangeIs, ZenonT(60)
<1>4. /\ NeighborSet(ix, i) \subseteq 0..(m - 1)
      /\ Neighbors(ix, i) = <<>> <=> NeighborSet(ix, i) = {}
  BY <1>1, <1>2, <1>3, Zenon
<1>5. \A b : b \in NeighborSet(ix, i) <=> <<i, b>> \in rel
  BY Zenon DEF Indexes
<1> QED
  BY <1>4, <1>5, Zenon

\* Packing the neighbours a relation gives each element.
Lines(nbrs, n, m, rel) ==
  \A i \in 0..(n - 1) :
    /\ nbrs[i] \subseteq 0..(m - 1)
    /\ \A b \in 0..(m - 1) : b \in nbrs[i] <=> <<i, b>> \in rel

\* Packing the lines of a relation makes an index of it.
LEMMA PackRelation ==
  ASSUME NEW n \in Nat, NEW m \in Nat, NEW nbrs, NEW rel,
         rel \subseteq (0..(n - 1)) \X (0..(m - 1)), Lines(nbrs, n, m, rel)
  PROVE  Indexes(PackSets(n, nbrs), n, m, rel)
<1>1. PICK S : S = 0..(m - 1)
  OBVIOUS
<1>2. S \in SUBSET Int /\ IsFiniteSet(S)
  BY <1>1, FS_Interval
<1>3. SetsIn(n, S, nbrs)
  BY <1>1, <1>2, FS_Subset, Zenon DEF Lines, SetsIn
<1>4. Holds(PackSets(n, nbrs), n, S, nbrs)
  BY <1>3, PackSetsIs, Zenon
<1>5. ASSUME NEW i \in 0..(n - 1), NEW b PROVE b \in nbrs[i] <=> <<i, b>> \in rel
  <2>1. <<i, b>> \in rel => b \in 0..(m - 1)
    OBVIOUS
  <2> QED
    BY <2>1, Zenon DEF Lines
<1> QED
  BY <1>1, <1>4, <1>5, Zenon DEF Indexes, Holds

\* And: the neighbours by both operands.
LEMMA AndIs ==
  ASSUME NEW L, NEW R, NEW n, NEW m, NEW A, NEW B, Indexes(L, n, m, A), Indexes(R, n, m, B)
  PROVE  Indexes(AndIndex(L, R), n, m, A \cap B)
<1> DEFINE nbrs == [i \in 0..(R.n - 1) |-> NeighborSet(L, i) \cap NeighborSet(R, i)]
<1>1. n \in Nat /\ m \in Nat /\ R.n = n
  BY Zenon DEF Indexes
<1>2. AndIndex(L, R) = PackSets(R.n, nbrs)
  BY Zenon DEF AndIndex
<1>3. A \cap B \subseteq (0..(n - 1)) \X (0..(m - 1))
  BY Zenon DEF Indexes
<1>4. ASSUME NEW i \in 0..(n - 1)
      PROVE  /\ nbrs[i] \subseteq 0..(m - 1)
             /\ \A b \in 0..(m - 1) : b \in nbrs[i] <=> <<i, b>> \in A \cap B
  <2>1. nbrs[i] = NeighborSet(L, i) \cap NeighborSet(R, i)
    BY <1>1, Zenon
  <2>2. NeighborSet(L, i) \subseteq 0..(m - 1)
    BY NeighborIn, Zenon
  <2> HIDE DEF nbrs
  <2> QED
    BY <2>1, <2>2, Zenon DEF Indexes
<1>5. Lines(nbrs, n, m, A \cap B)
  BY <1>4, Zenon DEF Lines
<1> HIDE DEF nbrs
<1> QED
  BY <1>1, <1>2, <1>3, <1>5, PackRelation, Zenon

\* Or: the neighbours by either operand.
LEMMA OrIs ==
  ASSUME NEW L, NEW R, NEW n, NEW m, NEW A, NEW B, Indexes(L, n, m, A), Indexes(R, n, m, B)
  PROVE  Indexes(OrIndex(L, R), n, m, A \cup B)
<1> DEFINE nbrs == [i \in 0..(L.n - 1) |->
                      NeighborSet(L, i) \cup (IF i < R.n THEN NeighborSet(R, i) ELSE {})]
<1>1. n \in Nat /\ m \in Nat /\ L.n = n /\ R.n = n
  BY Zenon DEF Indexes
<1>2. OrIndex(L, R) = PackSets(L.n, nbrs)
  BY Zenon DEF OrIndex
<1>3. A \cup B \subseteq (0..(n - 1)) \X (0..(m - 1))
  BY Zenon DEF Indexes
<1>4. ASSUME NEW i \in 0..(n - 1)
      PROVE  /\ nbrs[i] \subseteq 0..(m - 1)
             /\ \A b \in 0..(m - 1) : b \in nbrs[i] <=> <<i, b>> \in A \cup B
  <2>0. i < n
    BY <1>1
  <2>1. nbrs[i] = NeighborSet(L, i) \cup NeighborSet(R, i)
    BY <1>1, <2>0, Zenon
  <2>2. NeighborSet(L, i) \subseteq 0..(m - 1) /\ NeighborSet(R, i) \subseteq 0..(m - 1)
    BY NeighborIn, Zenon
  <2> HIDE DEF nbrs
  <2> QED
    BY <2>1, <2>2, Zenon DEF Indexes
<1>5. Lines(nbrs, n, m, A \cup B)
  BY <1>4, Zenon DEF Lines
<1> HIDE DEF nbrs
<1> QED
  BY <1>1, <1>2, <1>3, <1>5, PackRelation, Zenon

\* Quantified and: the neighbours by r of the neighbours by l.
Composed(n, m, A, B) ==
  {p \in (0..(n - 1)) \X (0..(m - 1)) : \E l \in A : l[1] = p[1] /\ <<l[2], p[2]>> \in B}

\* The index of a conjunction is an index of the composition.
LEMMA ExistsAndIs ==
  ASSUME NEW L, NEW R, NEW n, NEW q, NEW m, NEW A, NEW B,
         Indexes(L, n, q, A), Indexes(R, q, m, B)
  PROVE  Indexes(ExistsAndIndex(L, R), n, m, Composed(n, m, A, B))
<1> DEFINE nbrs == [i \in 0..(L.n - 1) |-> UNION {NeighborSet(R, x) : x \in NeighborSet(L, i)}]
           rel == Composed(n, m, A, B)
<1>1. n \in Nat /\ m \in Nat /\ L.n = n
  BY Zenon DEF Indexes
<1>2. ExistsAndIndex(L, R) = PackSets(L.n, nbrs)
  BY Zenon DEF ExistsAndIndex
<1>3. rel \subseteq (0..(n - 1)) \X (0..(m - 1))
  BY Zenon DEF Composed
<1>4. ASSUME NEW i \in 0..(n - 1)
      PROVE  /\ nbrs[i] \subseteq 0..(m - 1)
             /\ \A b \in 0..(m - 1) : b \in nbrs[i] <=> <<i, b>> \in rel
  <2>1. nbrs[i] = UNION {NeighborSet(R, x) : x \in NeighborSet(L, i)}
    BY <1>1, Zenon
  <2>2. NeighborSet(L, i) \subseteq 0..(q - 1)
    BY NeighborIn, Zenon
  <2>3. \A x \in 0..(q - 1) : NeighborSet(R, x) \subseteq 0..(m - 1)
    BY NeighborIn, Zenon
  <2>4. ASSUME NEW b \in 0..(m - 1), b \in nbrs[i] PROVE <<i, b>> \in rel
    <3>1. PICK x \in NeighborSet(L, i) : b \in NeighborSet(R, x)
      BY <2>1, <2>4, Zenon
    <3>2. <<i, x>> \in A /\ <<x, b>> \in B
      BY <2>2, <3>1, Zenon DEF Indexes
    <3>3. PICK l \in A : l[1] = i /\ l[2] = x
      BY <3>2
    <3>4. <<i, b>> \in (0..(n - 1)) \X (0..(m - 1)) /\ <<i, b>>[1] = i /\ <<i, b>>[2] = b
      OBVIOUS
    <3> QED
      BY <3>2, <3>3, <3>4, Zenon DEF Composed
  <2>5. ASSUME NEW b \in 0..(m - 1), <<i, b>> \in rel PROVE b \in nbrs[i]
    <3>1. <<i, b>>[1] = i /\ <<i, b>>[2] = b
      OBVIOUS
    <3>2. PICK l \in A : l[1] = i /\ <<l[2], b>> \in B
      BY <2>5, <3>1, Zenon DEF Composed
    <3>3. A \subseteq (0..(n - 1)) \X (0..(q - 1))
      BY Zenon DEF Indexes
    <3>4. l = <<l[1], l[2]>> /\ l[2] \in 0..(q - 1)
      <4>1. l \in (0..(n - 1)) \X (0..(q - 1))
        BY <3>3, Zenon
      <4> QED
        BY <4>1
    <3>5. PICK x : x = l[2] /\ <<i, x>> \in A /\ <<x, b>> \in B /\ x \in 0..(q - 1)
      BY <3>2, <3>4, Zenon
    <3>6. x \in NeighborSet(L, i) /\ b \in NeighborSet(R, x)
      BY <3>5, Zenon DEF Indexes
    <3> QED
      BY <2>1, <3>6, Zenon
  <2>6. nbrs[i] \subseteq 0..(m - 1)
    BY <2>1, <2>2, <2>3, Zenon
  <2> QED
    BY <2>4, <2>5, <2>6, Zenon
<1>5. Lines(nbrs, n, m, rel)
  BY <1>4, Zenon DEF Lines
<1> HIDE DEF nbrs, rel
<1>6. Indexes(PackSets(n, nbrs), n, m, rel)
  BY <1>1, <1>3, <1>5, PackRelation, Zenon
<1> QED
  BY <1>1, <1>2, <1>6, Zenon DEF rel

\* Quantified or: everything, of an element that has a neighbour by l; what r
\* reaches, of all.
Spread(n, m, A, B) ==
  {p \in (0..(n - 1)) \X (0..(m - 1)) : (\E l \in A : l[1] = p[1]) \/ (\E y \in B : y[2] = p[2])}

\* The index of a disjunction is an index of its relation.
LEMMA ExistsOrIs ==
  ASSUME NEW L, NEW R, NEW n, NEW q, NEW m, NEW A, NEW B,
         Indexes(L, n, q, A), Indexes(R, q, m, B)
  PROVE  Indexes(ExistsOrIndex(L, R, m), n, m, Spread(n, m, A, B))
<1> DEFINE reached == UNION {NeighborSet(R, x) : x \in 0..(R.n - 1)}
           nbrs == [i \in 0..(L.n - 1) |->
                      reached \cup (IF Neighbors(L, i) # <<>> THEN 0..(m - 1) ELSE {})]
           rel == Spread(n, m, A, B)
<1>1. n \in Nat /\ m \in Nat /\ L.n = n /\ R.n = q
  BY Zenon DEF Indexes
<1>2. ExistsOrIndex(L, R, m) = PackSets(L.n, nbrs)
  BY Zenon DEF ExistsOrIndex
<1>3. rel \subseteq (0..(n - 1)) \X (0..(m - 1))
  BY Zenon DEF Spread
<1>4. \A b : b \in reached <=> \E y \in B : y[2] = b
  <2>1. ASSUME NEW b, b \in reached PROVE \E y \in B : y[2] = b
    <3>1. PICK x \in 0..(q - 1) : b \in NeighborSet(R, x)
      BY <1>1, <2>1, Zenon
    <3>2. <<x, b>> \in B
      BY <3>1, Zenon DEF Indexes
    <3> QED
      BY <3>2
  <2>2. ASSUME NEW y \in B PROVE y[2] \in reached
    <3>1. B \subseteq (0..(q - 1)) \X (0..(m - 1))
      BY Zenon DEF Indexes
    <3>2. y = <<y[1], y[2]>> /\ y[1] \in 0..(q - 1)
      <4>1. y \in (0..(q - 1)) \X (0..(m - 1))
        BY <3>1, Zenon
      <4> QED
        BY <4>1
    <3>3. y[2] \in NeighborSet(R, y[1])
      BY <3>2, Zenon DEF Indexes
    <3> QED
      BY <1>1, <3>2, <3>3, Zenon
  <2> QED
    BY <2>1, <2>2, Zenon
<1>5. reached \subseteq 0..(m - 1)
  <2>1. \A x \in 0..(q - 1) : NeighborSet(R, x) \subseteq 0..(m - 1)
    BY NeighborIn, Zenon
  <2> QED
    BY <1>1, <2>1, Zenon
<1>6. ASSUME NEW i \in 0..(n - 1)
      PROVE  /\ nbrs[i] \subseteq 0..(m - 1)
             /\ \A b \in 0..(m - 1) : b \in nbrs[i] <=> <<i, b>> \in rel
  <2>1. nbrs[i] = reached \cup (IF Neighbors(L, i) # <<>> THEN 0..(m - 1) ELSE {})
    BY <1>1, Zenon
  <2>2. Neighbors(L, i) # <<>> <=> \E b : <<i, b>> \in A
    BY NeighborIn, Zenon
  <2>3. (\E b : <<i, b>> \in A) <=> \E l \in A : l[1] = i
    <3>1. A \subseteq (0..(n - 1)) \X (0..(q - 1))
      BY Zenon DEF Indexes
    <3>2. ASSUME NEW l \in A PROVE l = <<l[1], l[2]>>
      <4>1. l \in (0..(n - 1)) \X (0..(q - 1))
        BY <3>1, Zenon
      <4> QED
        BY <4>1
    <3>3. \A b : <<i, b>>[1] = i
      OBVIOUS
    <3> QED
      BY <3>2, <3>3, Zenon
  <2> HIDE DEF reached, nbrs
  <2>4. ASSUME NEW b \in 0..(m - 1) PROVE b \in nbrs[i] <=> <<i, b>> \in rel
    <3>1. <<i, b>> \in (0..(n - 1)) \X (0..(m - 1)) /\ <<i, b>>[1] = i /\ <<i, b>>[2] = b
      OBVIOUS
    <3>2. <<i, b>> \in rel <=> (\E l \in A : l[1] = i) \/ (\E y \in B : y[2] = b)
      BY <3>1, Zenon DEF Spread
    <3> QED
      BY <1>4, <2>1, <2>2, <2>3, <3>2, Zenon
  <2> QED
    BY <1>5, <2>1, <2>4, Zenon
<1>7. Lines(nbrs, n, m, rel)
  BY <1>6, Zenon DEF Lines
<1> HIDE DEF nbrs, rel
<1>8. Indexes(PackSets(n, nbrs), n, m, rel)
  BY <1>1, <1>3, <1>7, PackRelation, Zenon
<1> QED
  BY <1>1, <1>2, <1>8, Zenon DEF rel

-----------------------------------------------------------------------------
(* The names an expression is about.                                       *)

Rows(i) == SizeOf(bindings[End(i, 0)])
Cols(i) == SizeOf(bindings[End(i, 1)])

\* Both ends of an expression are among its names.
LEMMA EndsNamed ==
  \A i \in Ids : NamesIn[i] \subseteq Names /\ \A ep \in {0, 1} : End(i, ep) \in NamesIn[i]
<1> DEFINE Fine(i) == NamesIn[i] \subseteq Names /\ \A ep \in {0, 1} : End(i, ep) \in NamesIn[i]
           S == {m \in Nat : \A i \in Ids : i = m => Fine(i)}
<1>1. ASSUME NEW m \in Nat, \A x \in 0..(m - 1) : x \in S PROVE m \in S
  <2> SUFFICES ASSUME NEW i \in Ids, i = m PROVE Fine(i)
    BY Zenon
  <2>1. CASE i \in Links
    BY <2>1, LinkEnds, ExprsAssumption, Zenon
  <2>2. CASE i \notin Links
    <3>1. PICK x : x = Exprs[i]
      OBVIOUS
    <3>2. PICK l \in Ids, r \in Ids : l = x.l /\ r = x.r /\ l < i /\ r < i /\ i \in Compounds
      BY <2>2, <3>1, OperandsBefore, Zenon
    <3>3. l \in 0..(m - 1) /\ r \in 0..(m - 1)
      <4>1. l \in Nat /\ r \in Nat /\ l < m /\ r < m
        BY <3>2, IdsAre, Zenon
      <4> QED
        BY <4>1
    <3>4. Fine(x.l) /\ Fine(x.r)
      BY <1>1, <3>2, <3>3, Zenon
    <3>5. NamesIn[i] = NamesIn[x.l] \cup NamesIn[x.r]
      BY <2>2, <3>1, NamesAre, Zenon DEF NamesAt
    <3>6. /\ x.op \in {"and", "or"} /\ {x.lEp, x.rEp} \subseteq {0, 1}
          /\ x.sources = End(x.l, x.lEp) /\ x.sinks = End(x.r, 1 - x.rEp)
      BY <3>1, <3>2, ExprsAssumption, Zenon
    <3>7. 1 - x.rEp \in {0, 1} /\ x.lEp \in {0, 1}
      BY <3>6
    <3>8. End(i, 0) = x.sources /\ End(i, 1) = x.sinks
      BY <3>1, <3>6 DEF End
    <3>9. End(i, 0) \in NamesIn[i] /\ End(i, 1) \in NamesIn[i]
      BY <3>4, <3>5, <3>6, <3>7, <3>8, Zenon
    <3> QED
      BY <3>4, <3>5, <3>9, Zenon
  <2> QED
    BY <2>1, <2>2, Zenon
<1> HIDE DEF S
<1>2. \A m \in Nat : m \in S
  BY <1>1, StrongInductionOnNat, Zenon
<1> QED
  BY <1>2, IdsAre, Zenon DEF S

\* The operands of a bound expression are bound, and it is when they are.
LEMMA BoundOperands ==
  ASSUME NEW i \in Ids, i \notin Links
  PROVE  Bound(i) <=> Bound(Exprs[i].l) /\ Bound(Exprs[i].r)
<1>1. NamesIn[i] = NamesIn[Exprs[i].l] \cup NamesIn[Exprs[i].r]
  BY NamesAre, Zenon DEF NamesAt
<1> QED
  BY <1>1, Zenon DEF Bound

\* The sets of both path variables of a bound expression are bound.
LEMMA EndsBound ==
  \A i \in Ids : Bound(i) =>
    \A ep \in {0, 1} : End(i, ep) \in Names /\ bindings[End(i, ep)] # None
  BY EndsNamed, Zenon DEF Bound

\* A bound link has both its names bound.
LEMMA LinkIsBound == \A i \in Links : Bound(i) => LinkBound(i)
  BY LinkEnds, Zenon DEF Bound, LinkBound

\* The size of a bound set is a number.
LEMMA SizeIsNat ==
  ASSUME GraphType, BindingsType, NEW n \in Names, bindings[n] # None
  PROVE  SizeOf(bindings[n]) \in Nat
<1>1. bindings[n] \in VertexSets \cup EdgeSets
  BY Zenon DEF BindingsType, SetsFor
<1>2. CASE bindings[n] \in VertexSets
  BY <1>2, GraphAssumption, Zenon DEF SizeOf
<1>3. CASE bindings[n] \notin VertexSets
  BY <1>1, <1>3, Zenon DEF SizeOf, GraphType
<1> QED
  BY <1>2, <1>3, Zenon

-----------------------------------------------------------------------------
(* The index of a link lists the neighbours it describes.                  *)

\* What ev lists for an edge.
LEMMA EvNeighbors ==
  ASSUME GraphType, NEW E \in EdgeSets, NEW V \in VertexSets,
         NEW e \in 0..(Len(graph[E]) - 1)
  PROVE  /\ Neighbors(EvIndex(E, V), e) \in Seq(0..(Size[V] - 1))
         /\ NeighborSet(EvIndex(E, V), e) = Range(EndpointsIn(E, V, e))
         /\ Range(EndpointsIn(E, V, e)) \subseteq 0..(Size[V] - 1)
<1>1. PICK q \in Seq(0..(Size[V] - 1)) : q = EndpointsIn(E, V, e)
  BY EndpointsInIs, Zenon
<1>2. Neighbors(EvIndex(E, V), e) = q
  BY <1>1, EvIs, Zenon
<1>3. {q[k] : k \in 1..Len(q)} = Range(q) /\ Range(q) \subseteq 0..(Size[V] - 1)
  BY RangeIs, ZenonT(60)
<1> QED
  BY <1>1, <1>2, <1>3, Zenon DEF NeighborSet

\* What ve lists for a vertex.
LEMMA VeNeighbors ==
  ASSUME GraphType, NEW E \in EdgeSets, NEW V \in VertexSets,
         NEW v \in 0..(Size[V] - 1)
  PROVE  /\ Neighbors(VeIndex(E, V), v) \in Seq(0..(Len(graph[E]) - 1))
         /\ NeighborSet(VeIndex(E, V), v) \subseteq 0..(Len(graph[E]) - 1)
         /\ \A e \in 0..(Len(graph[E]) - 1) :
              e \in NeighborSet(VeIndex(E, V), v) <=> v \in Range(EndpointsIn(E, V, e))
<1>1. PICK q \in Seq(0..(Len(graph[E]) - 1)) : q = Neighbors(VeIndex(E, V), v)
  BY VeIs, Zenon
<1>2. {q[k] : k \in 1..Len(q)} = Range(q) /\ Range(q) \subseteq 0..(Len(graph[E]) - 1)
  BY RangeIs
<1>3. NeighborSet(VeIndex(E, V), v) = Range(q)
  BY <1>1, <1>2, Zenon DEF NeighborSet
<1>4. ASSUME NEW e \in 0..(Len(graph[E]) - 1)
      PROVE  e \in Range(q) <=> v \in Range(EndpointsIn(E, V, e))
  <2>1. Occurrences(q, e) = Occurrences(EndpointsIn(E, V, e), v)
    BY <1>1, VeIs, Zenon
  <2>2. EndpointsIn(E, V, e) \in Seq(0..(Size[V] - 1))
    BY EndpointsInIs, Zenon
  <2>3. Occurrences(q, e) = 0 <=> e \notin Range(q)
    BY OccurrencesType, Zenon
  <2>4. Occurrences(EndpointsIn(E, V, e), v) = 0 <=> v \notin Range(EndpointsIn(E, V, e))
    BY <2>2, OccurrencesType, Zenon
  <2> QED
    BY <2>1, <2>3, <2>4, Zenon
<1> QED
  BY <1>1, <1>2, <1>3, <1>4, Zenon

\* The pairs of a link are the endpoints of its edges.
LEMMA LinkedIs ==
  ASSUME GraphType, NEW i \in Links, NEW E \in EdgeSets, NEW V \in VertexSets,
         E = bindings[Exprs[i].edges], V = bindings[Exprs[i].verts]
  PROVE  /\ Linked(i) \subseteq (0..(Len(graph[E]) - 1)) \X (0..(Size[V] - 1))
         /\ \A e \in 0..(Len(graph[E]) - 1), b \in 0..(Size[V] - 1) :
              <<e, b>> \in Linked(i) <=> b \in Range(EndpointsIn(E, V, e))
<1>1. SizeOf(E) = Len(graph[E]) /\ SizeOf(V) = Size[V]
  BY GraphAssumption, Zenon DEF SizeOf
<1>2. Linked(i) = {c \in (0..(Len(graph[E]) - 1)) \X (0..(Size[V] - 1)) :
                     \E p \in 1..Len(EndpointSets[E]) :
                       EndpointSets[E][p] = V /\ graph[E][c[1] + 1][p] = c[2]}
  BY <1>1, Zenon DEF Linked
<1>3. ASSUME NEW e \in 0..(Len(graph[E]) - 1), NEW b \in 0..(Size[V] - 1)
      PROVE  <<e, b>> \in Linked(i) <=> b \in Range(EndpointsIn(E, V, e))
  <2>1. <<e, b>>[1] = e /\ <<e, b>>[2] = b
        /\ <<e, b>> \in (0..(Len(graph[E]) - 1)) \X (0..(Size[V] - 1))
    OBVIOUS
  <2>2. <<e, b>> \in Linked(i) <=> \E p \in 1..Len(EndpointSets[E]) :
                                     EndpointSets[E][p] = V /\ graph[E][e + 1][p] = b
    BY <1>2, <2>1, Zenon
  <2> QED
    <3>1. \A x : x \in Range(EndpointsIn(E, V, e))
                   <=> \E p \in 1..Len(EndpointSets[E]) :
                         EndpointSets[E][p] = V /\ graph[E][e + 1][p] = x
      BY EndpointsInIs, ZenonT(60)
    <3> QED
      BY <2>2, <3>1, Zenon
<1> QED
  BY <1>2, <1>3, Zenon

\* The index of a link is an index of its relation.
LEMMA LinkIndexes ==
  ASSUME GraphType, BindingsType, NEW k \in Lookups, k[1] \in Links, k[2] = 0, LinkBound(k[1])
  PROVE  Indexes(LinkIndex(k[1]), Rows(k[1]), Cols(k[1]), Related[k])
<1>1. PICK i \in Links : i = k[1]
  OBVIOUS
<1>2. PICK E \in EdgeSets, V \in VertexSets :
        E = bindings[Exprs[i].edges] /\ V = bindings[Exprs[i].verts]
  BY <1>1, LinkSets, Zenon
<1>3. PICK n \in Nat, m \in Nat : n = Len(graph[E]) /\ m = Size[V]
  BY GraphAssumption, Zenon DEF GraphType
<1>4. SizeOf(E) = n /\ SizeOf(V) = m
  BY <1>3, GraphAssumption, Zenon DEF SizeOf
<1>5. PICK rel : rel = Linked(i)
  OBVIOUS
<1>6. /\ rel \subseteq (0..(n - 1)) \X (0..(m - 1))
      /\ \A e \in 0..(n - 1), b \in 0..(m - 1) :
           <<e, b>> \in rel <=> b \in Range(EndpointsIn(E, V, e))
  <2>1. /\ Linked(i) \subseteq (0..(Len(graph[E]) - 1)) \X (0..(Size[V] - 1))
        /\ \A e \in 0..(Len(graph[E]) - 1), b \in 0..(Size[V] - 1) :
             <<e, b>> \in Linked(i) <=> b \in Range(EndpointsIn(E, V, e))
    BY <1>2, LinkedIs
  <2> QED
    BY <1>3, <1>5, <2>1, Zenon
<1>7. Related[k] = IF Exprs[i].op = "ev" THEN rel ELSE Flipped(rel)
  BY <1>1, <1>5, RelatedIs, Zenon DEF RelatedAt
<1>8. CASE Exprs[i].op = "ev"
  <2>1. Rows(i) = n /\ Cols(i) = m
    <3>1. End(i, 0) = Exprs[i].edges /\ End(i, 1) = Exprs[i].verts
      BY <1>8 DEF End
    <3> QED
      BY <1>2, <1>4, <3>1, Zenon DEF Rows, Cols
  <2>2. LinkIndex(i) = EvIndex(E, V)
    BY <1>2, <1>8, Zenon DEF LinkIndex
  <2>3. ASSUME NEW e \in 0..(n - 1)
        PROVE  /\ Neighbors(EvIndex(E, V), e) \in Seq(0..(m - 1))
               /\ \A b : b \in NeighborSet(EvIndex(E, V), e) <=> <<e, b>> \in rel
    <3>1. /\ Neighbors(EvIndex(E, V), e) \in Seq(0..(m - 1))
          /\ NeighborSet(EvIndex(E, V), e) = Range(EndpointsIn(E, V, e))
          /\ Range(EndpointsIn(E, V, e)) \subseteq 0..(m - 1)
      BY <1>3, EvNeighbors, Zenon
    <3>2. ASSUME NEW b, <<e, b>> \in rel PROVE b \in 0..(m - 1)
      BY <1>6, <3>2
    <3> QED
      BY <1>6, <3>1, <3>2, Zenon
  <2>4. EvIndex(E, V).n = n
    BY <1>3, EvIs, Zenon
  <2>5. Indexes(EvIndex(E, V), n, m, rel)
    BY <1>6, <2>3, <2>4, Zenon DEF Indexes
  <2> QED
    BY <1>1, <1>7, <1>8, <2>1, <2>2, <2>5, Zenon
<1>9. CASE Exprs[i].op # "ev"
  <2>0. Exprs[i].op = "ve"
    BY <1>9, Zenon DEF Links
  <2>1. Rows(i) = m /\ Cols(i) = n
    <3>1. End(i, 0) = Exprs[i].verts /\ End(i, 1) = Exprs[i].edges
      BY <2>0 DEF End
    <3> QED
      BY <1>2, <1>4, <3>1, Zenon DEF Rows, Cols
  <2>2. LinkIndex(i) = VeIndex(E, V)
    BY <1>2, <1>9, Zenon DEF LinkIndex
  <2>3. /\ Flipped(rel) \subseteq (0..(m - 1)) \X (0..(n - 1))
        /\ \A a, b : <<b, a>> \in Flipped(rel) <=> <<a, b>> \in rel
    BY <1>6 DEF Flipped
  <2>4. ASSUME NEW v \in 0..(m - 1)
        PROVE  /\ Neighbors(VeIndex(E, V), v) \in Seq(0..(n - 1))
               /\ \A e : e \in NeighborSet(VeIndex(E, V), v) <=> <<v, e>> \in Flipped(rel)
    <3>1. /\ Neighbors(VeIndex(E, V), v) \in Seq(0..(n - 1))
          /\ NeighborSet(VeIndex(E, V), v) \subseteq 0..(n - 1)
          /\ \A e \in 0..(n - 1) :
               e \in NeighborSet(VeIndex(E, V), v) <=> v \in Range(EndpointsIn(E, V, e))
      BY <1>3, VeNeighbors, Zenon
    <3>2. ASSUME NEW e, <<e, v>> \in rel PROVE e \in 0..(n - 1)
      BY <1>6, <3>2
    <3> QED
      BY <1>6, <2>3, <3>1, <3>2, Zenon
  <2>5. VeIndex(E, V).n = m
    BY <1>3, VeIs, Zenon
  <2>6. Indexes(VeIndex(E, V), m, n, Flipped(rel))
    BY <2>3, <2>4, <2>5, Zenon DEF Indexes
  <2> QED
    BY <1>1, <1>7, <1>9, <2>1, <2>2, <2>6, Zenon
<1> QED
  BY <1>8, <1>9, Zenon

-----------------------------------------------------------------------------
(* The index of `and` and `or` lists what the operands' relations make.    *)

\* The sizes of the sets at the endpoint a lookup starts from and at the other.
From(k) == SizeOf(bindings[End(k[1], k[2])])
To(k) == SizeOf(bindings[End(k[1], 1 - k[2])])

\* The index of a compound is an index of the relation it stands for.
LEMMA CompoundIndexes ==
  ASSUME NEW i \in Compounds, NEW L, NEW R, NEW A, NEW B,
         Indexes(L, From(Left(i)), To(Left(i)), A),
         Indexes(R, From(Right(i)), To(Right(i)), B)
  PROVE  Indexes(CompoundIndex(i, L, R), Rows(i), Cols(i), Combined(i, A, B))
<1>1. PICK x : x = Exprs[i]
  OBVIOUS
<1>2. /\ x.op \in {"and", "or"} /\ x.quantified \in BOOLEAN
      /\ x.sources = End(x.l, x.lEp) /\ x.sinks = End(x.r, 1 - x.rEp)
      /\ IF x.quantified THEN End(x.l, 1 - x.lEp) = End(x.r, x.rEp)
         ELSE End(x.r, x.rEp) = x.sources /\ End(x.l, 1 - x.lEp) = x.sinks
  BY <1>1, ExprsAssumption, Zenon
<1>3. Left(i)[1] = x.l /\ Left(i)[2] = x.lEp /\ Right(i)[1] = x.r /\ Right(i)[2] = x.rEp
  BY <1>1 DEF Left, Right
<1>6. End(i, 0) = x.sources /\ End(i, 1) = x.sinks
  BY <1>1, <1>2 DEF End
<1>7. PICK n, m, p, q : n = From(Left(i)) /\ m = To(Right(i)) /\ p = To(Left(i)) /\ q = From(Right(i))
  OBVIOUS
<1>8. Indexes(L, n, p, A) /\ Indexes(R, q, m, B)
  BY <1>7, Zenon
<1>9. /\ n = SizeOf(bindings[x.sources]) /\ m = SizeOf(bindings[x.sinks])
      /\ Rows(i) = n /\ Cols(i) = m
  BY <1>2, <1>3, <1>6, <1>7, Zenon DEF Rows, Cols, From, To
<1>10. CASE x.quantified
  <2>1. p = q
    BY <1>2, <1>3, <1>7, <1>10, Zenon DEF From, To
  <2>2. CASE x.op = "and"
    <3>1. CompoundIndex(i, L, R) = ExistsAndIndex(L, R)
      BY <1>1, <1>10, <2>2, Zenon DEF CompoundIndex
    <3>2. Combined(i, A, B) = Composed(n, m, A, B)
      BY <1>1, <1>9, <1>10, <2>2, Zenon DEF Combined, Composed
    <3>3. Indexes(ExistsAndIndex(L, R), n, m, Composed(n, m, A, B))
      BY <1>8, <2>1, ExistsAndIs, Zenon
    <3> QED
      BY <1>9, <3>1, <3>2, <3>3, Zenon
  <2>3. CASE x.op # "and"
    <3>1. CompoundIndex(i, L, R) = ExistsOrIndex(L, R, m)
      BY <1>1, <1>9, <1>10, <2>3, Zenon DEF CompoundIndex
    <3>2. Combined(i, A, B) = Spread(n, m, A, B)
      BY <1>1, <1>9, <1>10, <2>3, Zenon DEF Combined, Spread
    <3>3. Indexes(ExistsOrIndex(L, R, m), n, m, Spread(n, m, A, B))
      BY <1>8, <2>1, ExistsOrIs, Zenon
    <3> QED
      BY <1>9, <3>1, <3>2, <3>3, Zenon
  <2> QED
    BY <2>2, <2>3, Zenon
<1>11. CASE ~x.quantified
  <2>1. p = m /\ q = n
    BY <1>2, <1>3, <1>7, <1>9, <1>11, Zenon DEF From, To
  <2>2. CASE x.op = "and"
    <3>1. CompoundIndex(i, L, R) = AndIndex(L, R)
      BY <1>1, <1>11, <2>2, Zenon DEF CompoundIndex
    <3>2. Combined(i, A, B) = A \cap B
      BY <1>1, <1>11, <2>2, Zenon DEF Combined
    <3>3. Indexes(AndIndex(L, R), n, m, A \cap B)
      BY <1>8, <2>1, AndIs, Zenon
    <3> QED
      BY <1>9, <3>1, <3>2, <3>3, Zenon
  <2>3. CASE x.op # "and"
    <3>1. CompoundIndex(i, L, R) = OrIndex(L, R)
      BY <1>1, <1>11, <2>3, Zenon DEF CompoundIndex
    <3>2. Combined(i, A, B) = A \cup B
      BY <1>1, <1>11, <2>3, Zenon DEF Combined
    <3>3. Indexes(OrIndex(L, R), n, m, A \cup B)
      BY <1>8, <2>1, OrIs, Zenon
    <3> QED
      BY <1>9, <3>1, <3>2, <3>3, Zenon
  <2> QED
    BY <2>2, <2>3, Zenon
<1> QED
  BY <1>10, <1>11, Zenon

-----------------------------------------------------------------------------
(* What an expression means does not change once its names are bound.      *)

\* Binding more names keeps the relations of bound expressions.
LEMMA RelatedKept ==
  ASSUME BindingsType, Kept, graph' = graph
  PROVE  \A k \in Lookups : Bound(k[1]) => Bound(k[1])' /\ Related'[k] = Related[k]
<1> DEFINE S == {m \in Nat : \A k \in Lookups : k[1] = m /\ Bound(k[1]) => Related'[k] = Related[k]}
<1>0. \A k \in Lookups : Related'[k] = RelatedAt(k, Related[Left(k[1])], Related[Right(k[1])])'
  <2>1. (\A k \in Lookups : Related[k] = RelatedAt(k, Related[Left(k[1])], Related[Right(k[1])]))'
    BY RelatedIs, PTL
  <2> QED
    BY <2>1, Zenon
<1>1. ASSUME NEW m \in Nat, \A x \in 0..(m - 1) : x \in S PROVE m \in S
  <2> SUFFICES ASSUME NEW k \in Lookups, k[1] = m, Bound(k[1]) PROVE Related'[k] = Related[k]
    BY Zenon
  <2>1. CASE k[1] \in Links
    <3>1. LinkBound(k[1])
      BY <2>1, LinkIsBound, Zenon
    <3>2. /\ bindings'[Exprs[k[1]].edges] = bindings[Exprs[k[1]].edges]
          /\ bindings'[Exprs[k[1]].verts] = bindings[Exprs[k[1]].verts]
      BY <2>1, <3>1, LinkSets, Zenon DEF Kept, LinkBound
    <3>3. Linked(k[1])' = Linked(k[1])
      BY <3>2, Zenon DEF Linked, SizeOf
    <3> QED
      BY <1>0, <2>1, <3>3, RelatedIs, Zenon DEF RelatedAt, Flipped
  <2>2. CASE k[1] \notin Links
    <3>1. PICK l \in Lookups, r \in Lookups :
            /\ l = Left(k[1]) /\ r = Right(k[1]) /\ l[1] < k[1] /\ r[1] < k[1]
            /\ l[1] = Exprs[k[1]].l /\ r[1] = Exprs[k[1]].r /\ k[1] \in Ids /\ k[1] \in Compounds
      BY <2>2, LookupsAre, OperandsBefore, Zenon
    <3>2. l[1] \in 0..(m - 1) /\ r[1] \in 0..(m - 1)
      BY <3>1, LookupsAre
    <3>3. Bound(l[1]) /\ Bound(r[1])
      BY <2>2, <3>1, BoundOperands, Zenon
    <3>4. Related'[l] = Related[l] /\ Related'[r] = Related[r]
      BY <1>1, <3>2, <3>3, Zenon
    <3>5. End(k[1], 0) = Exprs[k[1]].sources /\ End(k[1], 1) = Exprs[k[1]].sinks
      <4>2. Exprs[k[1]].op \in {"and", "or"}
        BY <3>1, ExprsAssumption, Zenon
      <4> QED
        BY <4>2 DEF End
    <3>6. /\ bindings'[Exprs[k[1]].sources] = bindings[Exprs[k[1]].sources]
          /\ bindings'[Exprs[k[1]].sinks] = bindings[Exprs[k[1]].sinks]
      BY <3>1, <3>5, EndsBound, Zenon DEF Kept
    <3>7. PICK A, B : A = Related[l] /\ B = Related[r]
      OBVIOUS
    <3>8. Combined(k[1], A, B)' = Combined(k[1], A, B)
      BY <3>6, Zenon DEF Combined, SizeOf
    <3>9. Related[k] = IF k[2] = 0 THEN Combined(k[1], A, B) ELSE Flipped(Combined(k[1], A, B))
      BY <2>2, <3>1, <3>7, RelatedIs, Zenon DEF RelatedAt
    <3>10. Related'[k] = IF k[2] = 0 THEN Combined(k[1], A, B)' ELSE Flipped(Combined(k[1], A, B)')
      BY <1>0, <2>2, <3>1, <3>4, <3>7, Zenon DEF RelatedAt, Flipped
    <3>11. CASE k[2] = 0
      BY <3>8, <3>9, <3>10, <3>11, Zenon
    <3>12. CASE k[2] # 0
      BY <3>8, <3>9, <3>10, <3>12, Zenon
    <3> QED
      BY <3>11, <3>12, Zenon
  <2> QED
    BY <2>1, <2>2, Zenon
<1> HIDE DEF S
<1>2. \A m \in Nat : m \in S
  BY <1>1, StrongInductionOnNat, Zenon
<1>3. ASSUME NEW k \in Lookups, Bound(k[1]) PROVE Related'[k] = Related[k]
  BY <1>2, <1>3, LookupsAre, Zenon DEF S
<1>4. ASSUME NEW k \in Lookups, Bound(k[1]) PROVE Bound(k[1])'
  <2>1. k[1] \in Ids
    BY LookupsAre, Zenon
  <2>2. \A n \in NamesIn[k[1]] : bindings'[n] # None
    BY <1>4, <2>1, EndsNamed, Zenon DEF Bound, Kept
  <2> QED
    BY <2>2, ConstantsKept, Zenon DEF Bound
<1> QED
  BY <1>3, <1>4, Zenon

\* Lookups that are unambiguous after a step were so before it: what is bound
\* keeps its meaning.
LEMMA UnambiguousBefore ==
  ASSUME BindingsType, Kept, graph' = graph, Unambiguous'
  PROVE  Unambiguous
<1>1. \A k \in Asked, j \in Asked : Slot[j] = Slot[k] /\ Bound(j[1])' =>
        /\ End(j[1], 0) = End(k[1], k[2]) /\ End(j[1], 1) = End(k[1], 1 - k[2])
        /\ Related'[<<j[1], 0>>] = Related'[k]
  BY ConstantsKept, Zenon DEF Unambiguous
<1>2. ASSUME NEW k \in Asked, NEW j \in Asked, Slot[j] = Slot[k], Bound(j[1])
      PROVE  /\ End(j[1], 0) = End(k[1], k[2]) /\ End(j[1], 1) = End(k[1], 1 - k[2])
             /\ Related[<<j[1], 0>>] = Related[k]
  <2>1. j \in Lookups /\ k \in Lookups
    BY AskedAre, Zenon
  <2>2. <<j[1], 0>> \in Lookups /\ <<j[1], 0>>[1] = j[1]
    BY <2>1, LookupsAre DEF Lookups
  <2>3. Bound(k[1])
    BY <1>2, <2>1, SameSlot, Zenon DEF Bound
  <2>4. Bound(j[1])' /\ Related'[<<j[1], 0>>] = Related[<<j[1], 0>>] /\ Related'[k] = Related[k]
    BY <1>2, <2>1, <2>2, <2>3, RelatedKept, Zenon
  <2> QED
    BY <1>1, <1>2, <2>4, Zenon
<1> QED
  BY <1>2, Zenon DEF Unambiguous

-----------------------------------------------------------------------------
(* The invariant: whoever filled an entry of the memo had its names bound  *)
(* and, when lookups are unambiguous, left the index of its relation.      *)

Describes(i, ix) == Indexes(ix, Rows(i), Cols(i), Related[<<i, 0>>])

MemoRight ==
  \A s \in Slots : pathIndices[s] # None =>
    \E j \in Asked : /\ Slot[j] = s /\ Bound(j[1])
                     /\ Unambiguous => Describes(j[1], pathIndices[s])

MemoInv == LinksInv /\ MemoRight

\* What the memo answers a lookup with.
LEMMA Answered ==
  ASSUME MemoInv, NEW k \in Asked, ~Missing(k)
  PROVE  /\ Bound(k[1])
         /\ Unambiguous => Indexes(pathIndices[Slot[k]], From(k), To(k), Related[k])
<1>1. k \in Lookups
  BY AskedAre, Zenon
<1>2. Slot[k] \in Slots /\ pathIndices[Slot[k]] # None
  BY <1>1, SlotsAre, Zenon DEF Missing
<1>3. PICK j \in Asked : /\ Slot[j] = Slot[k] /\ Bound(j[1])
                         /\ Unambiguous => Describes(j[1], pathIndices[Slot[k]])
  BY <1>2, Zenon DEF MemoInv, MemoRight
<1>4. Bound(k[1])
  BY <1>1, <1>3, AskedAre, SameSlot, Zenon DEF Bound
<1>5. ASSUME Unambiguous PROVE Indexes(pathIndices[Slot[k]], From(k), To(k), Related[k])
  <2>1. /\ End(j[1], 0) = End(k[1], k[2]) /\ End(j[1], 1) = End(k[1], 1 - k[2])
        /\ Related[<<j[1], 0>>] = Related[k]
    BY <1>3, <1>5, Zenon DEF Unambiguous
  <2>2. Rows(j[1]) = From(k) /\ Cols(j[1]) = To(k)
    BY <2>1, Zenon DEF Rows, Cols, From, To
  <2> QED
    BY <1>3, <1>5, <2>1, <2>2, Zenon DEF Describes
<1> QED
  BY <1>4, <1>5, Zenon

\* The visitor computes the index of the relation from the memo's answers.
LEMMA VisitedRight ==
  ASSUME MemoInv, NEW j \in Asked, j = Top, OperandsBuilt,
         \A n \in NamesOf(j[1]) : bindings[n] # None
  PROVE  Bound(j[1]) /\ (Unambiguous => Describes(j[1], Visited(j[1])))
<1>1. PICK i \in Ids : i = j[1] /\ <<i, 0>> \in Lookups /\ <<i, 0>>[1] = i /\ <<i, 0>>[2] = 0
  <2>1. j[1] \in Ids
    BY AskedAre, LookupsAre, Zenon
  <2> QED
    BY <2>1 DEF Lookups
<1>2. CASE i \in Links
  <2>1. LinkBound(i) /\ Bound(i)
    <3>1. NamesOf(i) = {Exprs[i].edges, Exprs[i].verts} /\ NamesIn[i] = {Exprs[i].edges, Exprs[i].verts}
      BY <1>2, LinkEnds, Zenon DEF NamesOf
    <3> QED
      BY <1>1, <3>1, Zenon DEF Bound, LinkBound
  <2>2. Indexes(LinkIndex(i), Rows(i), Cols(i), Related[<<i, 0>>])
    BY <1>1, <1>2, <2>1, LinkIndexes, Zenon DEF MemoInv, LinksInv
  <2> QED
    BY <1>1, <1>2, <2>1, <2>2, Zenon DEF Visited, Describes
<1>3. CASE i \notin Links
  <2>1. /\ i \in Compounds /\ Left(i)[1] = Exprs[i].l /\ Right(i)[1] = Exprs[i].r
        /\ Left(i) \in Asked /\ Right(i) \in Asked
    BY <1>3, OperandsBefore, AskedAre, Zenon
  <2>2. PICK l \in Asked, r \in Asked : l = Left(i) /\ r = Right(i)
    BY <2>1, Zenon
  <2>3. ~Missing(l) /\ ~Missing(r)
    BY <1>1, <2>1, <2>2, Zenon DEF OperandsBuilt
  <2>4. Bound(l[1]) /\ Bound(r[1])
    BY <2>3, Answered, Zenon
  <2>5. Bound(i)
    BY <1>3, <2>1, <2>2, <2>4, BoundOperands, Zenon
  <2>6. ASSUME Unambiguous PROVE Describes(i, Visited(i))
    <3>1. PICK L, R : L = pathIndices[Slot[l]] /\ R = pathIndices[Slot[r]]
      OBVIOUS
    <3>2. Indexes(L, From(l), To(l), Related[l]) /\ Indexes(R, From(r), To(r), Related[r])
      BY <2>3, <2>6, <3>1, Answered, Zenon
    <3>3. Indexes(CompoundIndex(i, L, R), Rows(i), Cols(i), Combined(i, Related[l], Related[r]))
      BY <2>1, <2>2, <3>2, CompoundIndexes, Zenon
    <3>4. Visited(i) = CompoundIndex(i, L, R)
      BY <1>3, <2>2, <3>1, Zenon DEF Visited
    <3>5. Related[<<i, 0>>] = Combined(i, Related[l], Related[r])
      BY <1>1, <1>3, <2>2, RelatedIs, Zenon DEF RelatedAt
    <3> QED
      BY <3>3, <3>4, <3>5, Zenon DEF Describes
  <2> QED
    BY <1>1, <2>5, <2>6, Zenon
<1> QED
  BY <1>2, <1>3, Zenon

\* An index that describes an expression keeps describing it.
LEMMA DescribesKept ==
  ASSUME BindingsType, Kept, graph' = graph, NEW i \in Ids, Bound(i), NEW ix, Describes(i, ix)
  PROVE  Indexes(ix, Rows(i)', Cols(i)', Related'[<<i, 0>>])
<1>1. <<i, 0>> \in Lookups /\ <<i, 0>>[1] = i
  BY DEF Lookups
<1>2. Related'[<<i, 0>>] = Related[<<i, 0>>]
  BY <1>1, RelatedKept, Zenon
<1>3. bindings'[End(i, 0)] = bindings[End(i, 0)] /\ bindings'[End(i, 1)] = bindings[End(i, 1)]
  BY EndsBound, Zenon DEF Kept
<1>4. Rows(i)' = Rows(i) /\ Cols(i)' = Cols(i)
  BY <1>3, Zenon DEF Rows, Cols, SizeOf, End
<1> QED
  BY <1>2, <1>4, Zenon DEF Describes

\* The memo is right at the start.
LEMMA MemoInit == BuilderInit => MemoInv
<1> SUFFICES ASSUME BuilderInit PROVE MemoInv
  OBVIOUS
<1>1. \A s \in Slots : pathIndices[s] = None
  BY Zenon DEF BuilderInit
<1> QED
  BY <1>1, LinksInit, Zenon DEF MemoInv, MemoRight

\* Every step keeps the memo right.
LEMMA MemoNext == MemoInv /\ [BuilderNext]_builderVars => MemoInv'
<1> SUFFICES ASSUME MemoInv, [BuilderNext]_builderVars PROVE MemoInv'
  OBVIOUS
<1>1. LinksInv'
  BY LinksNext, Zenon DEF MemoInv
<1>2. Kept /\ graph' = graph /\ BindingsType
  BY NextKeeps, Zenon DEF MemoInv, LinksInv
<1>3. ASSUME NEW j \in Asked, Bound(j[1]), NEW ix, Unambiguous => Describes(j[1], ix)
      PROVE  /\ Bound(j[1])'
             /\ Unambiguous' => Indexes(ix, Rows(j[1])', Cols(j[1])', Related'[<<j[1], 0>>])
  <2>1. j \in Lookups /\ j[1] \in Ids
    BY AskedAre, LookupsAre, Zenon
  <2>2. Bound(j[1])'
    BY <1>2, <1>3, <2>1, RelatedKept, Zenon
  <2>3. Unambiguous' => Unambiguous
    BY <1>2, UnambiguousBefore, Zenon
  <2>4. Describes(j[1], ix) => Indexes(ix, Rows(j[1])', Cols(j[1])', Related'[<<j[1], 0>>])
    BY <1>2, <1>3, <2>1, DescribesKept, Zenon
  <2> QED
    BY <1>3, <2>2, <2>3, <2>4, Zenon
<1>4. ASSUME NEW s \in Slots, pathIndices'[s] = pathIndices[s], pathIndices'[s] # None
      PROVE  \E j \in Asked : /\ Slot[j] = s /\ Bound(j[1])'
                              /\ Unambiguous' => Indexes(pathIndices'[s], Rows(j[1])', Cols(j[1])', Related'[<<j[1], 0>>])
  <2>1. PICK j \in Asked : /\ Slot[j] = s /\ Bound(j[1])
                           /\ Unambiguous => Describes(j[1], pathIndices[s])
    BY <1>4, Zenon DEF MemoInv, MemoRight
  <2> QED
    BY <1>3, <1>4, <2>1, Zenon
<1>5. ASSUME NEW s \in Slots, pathIndices'[s] # None, pathIndices'[s] # pathIndices[s]
      PROVE  \E j \in Asked : /\ Slot[j] = s /\ Bound(j[1])'
                              /\ Unambiguous' => Indexes(pathIndices'[s], Rows(j[1])', Cols(j[1])', Related'[<<j[1], 0>>])
  <2>1. PICK j \in Asked :
          /\ j = Top /\ OperandsBuilt
          /\ \A n \in NamesOf(j[1]) : bindings[n] # None
          /\ pathIndices' = [y \in Slots |-> IF y = Slot[j] THEN Visited(j[1]) ELSE pathIndices[y]]
    BY <1>5, MemoGrows, Zenon DEF MemoInv, LinksInv
  <2>2. s = Slot[j] /\ pathIndices'[s] = Visited(j[1])
    BY <1>5, <2>1, Zenon
  <2>3. Bound(j[1]) /\ (Unambiguous => Describes(j[1], Visited(j[1])))
    BY <2>1, VisitedRight, Zenon
  <2> QED
    BY <1>3, <2>2, <2>3, Zenon
<1>6. MemoRight'
  BY <1>4, <1>5, ConstantsKept, Zenon DEF MemoRight, Describes
<1> QED
  BY <1>1, <1>6, Zenon DEF MemoInv

\* Every index the memo answers a lookup with lists exactly the neighbours the
\* lookup's expression describes from the endpoint it names, over the sets bound
\* now: for every graph, every nesting of path expressions and every order of
\* binding, building and failing, as long as whatever fills an entry of the memo
\* means the same as whatever is answered from it.
THEOREM MemoIsAlwaysRelation == BuilderSpec => []MemoIsRelation
<1>1. MemoInv => MemoIsRelation
  <2> SUFFICES ASSUME MemoInv, Unambiguous, NEW k \in Asked, ~Missing(k)
               PROVE  Pairs(pathIndices[Slot[k]]) = Related[k]
    BY Zenon DEF MemoIsRelation
  <2>1. Indexes(pathIndices[Slot[k]], From(k), To(k), Related[k])
    BY Answered, Zenon
  <2> QED
    BY <2>1, IndexesPairs, Zenon
<1>2. BuilderSpec => []MemoInv
  BY MemoInit, MemoNext, PTL DEF BuilderSpec
<1> QED
  BY <1>1, <1>2, PTL
=============================================================================
