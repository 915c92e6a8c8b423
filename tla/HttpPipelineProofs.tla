------------------------- MODULE HttpPipelineProofs -------------------------
(***************************************************************************)
(* Proofs about the request pipeline, for every script of every client     *)
(* and every size of the buffers.  The units a client sends are numbered   *)
(* through; what is buffered, in st.in and on its way are runs of          *)
(* consecutive numbers, one behind the other, and a request is found in    *)
(* the buffer by its numbers.                                              *)
(***************************************************************************)
EXTENDS HttpPipeline, WellFoundedInduction, TLAPS

(* Induction, for a set of numbers. *)
LEMMA FromZero ==
  ASSUME NEW S, 0 \in S, \A n \in Nat : n \in S => n + 1 \in S
  PROVE  Nat \subseteq S
<1> SUFFICES ASSUME Nat \ S # {} PROVE FALSE
  OBVIOUS
<1> DEFINE T == Nat \ S
           R == OpToRel(<, Nat)
<1>1. IsWellFoundedOn(R, Nat) BY NatLessThanWellFounded
<1>2. T \subseteq Nat /\ T # {} OBVIOUS
<1>3. R = {p \in Nat \X Nat : p[1] < p[2]} BY DEF OpToRel
<1> HIDE DEF R
<1>4. PICK x \in T : \A y \in T : <<y, x>> \notin R BY <1>1, <1>2, WFMin
<1>5. x \in Nat /\ x # 0 /\ x - 1 \in Nat BY <1>4
<1>6. x - 1 \in T
  <2>1. (x - 1) + 1 = x BY <1>5
  <2> QED BY <1>4, <1>5, <2>1
<1>7. <<x - 1, x>> \in R BY <1>3, <1>5
<1> QED BY <1>4, <1>6, <1>7

-----------------------------------------------------------------------------
(* The units of a script, numbered through. *)

SizeIn(s, r) == s[r].head + s[r].body
Pairs == Nat \X Nat

(* off[r] units come before those of request r. *)
IsOffsets(off, s, n) ==
  /\ off \in [1..n + 1 -> Nat] /\ off[1] = 0
  /\ \A r \in 1..n : off[r + 1] = off[r] + SizeIn(s, r)
  /\ \A i, j \in 1..n + 1 : i < j => off[i] + SizeIn(s, i) <= off[j]
Offsets(s) == CHOOSE off : IsOffsets(off, s, Len(s))

At(s, u) == Offsets(s)[u[1]] + u[2]

IsUnit(s, u) == u \in Pairs /\ u[1] \in 1..Len(s) /\ 1 <= u[2] /\ u[2] <= SizeIn(s, u[1])
IsPoint(s, u) == IsUnit(s, u) \/ u = <<Len(s) + 1, 1>>

LEMMA SizeFacts ==
  ASSUME NEW s \in Seq(Request), NEW r \in 1..Len(s)
  PROVE  /\ s[r] \in Request /\ s[r].head \in Nat \ {0} /\ s[r].body \in Nat
         /\ SizeIn(s, r) \in Nat \ {0} /\ s[r].head <= SizeIn(s, r)
<1>1. s[r] \in Request OBVIOUS
<1>2. s[r].head \in Nat \ {0} /\ s[r].body \in Nat BY <1>1 DEF Request
<1> QED BY <1>1, <1>2 DEF SizeIn

LEMMA OffsetsExist ==
  ASSUME NEW s \in Seq(Request)
  PROVE  IsOffsets(Offsets(s), s, Len(s))
<1> DEFINE S == {n \in Nat : n <= Len(s) => \E off : IsOffsets(off, s, n)}
<1>1. 0 \in S
  <2> DEFINE off == [r \in 1..0 + 1 |-> 0]
  <2>1. IsOffsets(off, s, 0) BY DEF IsOffsets
  <2> QED BY <2>1
<1>2. ASSUME NEW n \in Nat, n \in S PROVE n + 1 \in S
  <2> SUFFICES ASSUME n + 1 <= Len(s) PROVE \E off : IsOffsets(off, s, n + 1)
    OBVIOUS
  <2>1. PICK off : IsOffsets(off, s, n) BY <1>2
  <2>2. n + 1 \in 1..Len(s) BY DEF IsOffsets
  <2>3. \A r \in 1..n + 1 : SizeIn(s, r) \in Nat \ {0} BY <2>2, SizeFacts
  <2> DEFINE m == SizeIn(s, n + 1)
             new == [r \in 1..(n + 1) + 1 |-> IF r = n + 2 THEN off[n + 1] + m ELSE off[r]]
  <2>4. m \in Nat BY <2>3
  <2> HIDE DEF m
  <2>5. /\ off \in [1..n + 1 -> Nat] /\ off[1] = 0
        /\ \A r \in 1..n : off[r + 1] = off[r] + SizeIn(s, r)
        /\ \A i, j \in 1..n + 1 : i < j => off[i] + SizeIn(s, i) <= off[j]
    BY <2>1 DEF IsOffsets
  <2>6. /\ new \in [1..(n + 1) + 1 -> Nat] /\ new[n + 2] = off[n + 1] + m
        /\ \A r \in 1..n + 1 : new[r] = off[r]
    BY <2>4, <2>5
  <2> HIDE DEF new
  <2>7. new[1] = 0 BY <2>5, <2>6
  <2>8. ASSUME NEW r \in 1..n + 1 PROVE new[r + 1] = new[r] + SizeIn(s, r)
    <3>1. CASE r = n + 1 BY <2>6, <3>1 DEF m
    <3>2. CASE r \in 1..n BY <2>5, <2>6, <3>2
    <3> QED BY <3>1, <3>2
  <2>9. ASSUME NEW i \in 1..(n + 1) + 1, NEW j \in 1..(n + 1) + 1, i < j
        PROVE  new[i] + SizeIn(s, i) <= new[j]
    <3>1. i \in 1..n + 1 /\ new[i] = off[i] /\ off[i] \in Nat BY <2>5, <2>6, <2>9
    <3>2. CASE j \in 1..n + 1 BY <2>5, <2>6, <2>9, <3>1, <3>2
    <3>3. CASE j = n + 2
      <4>1. new[j] = off[n + 1] + m /\ off[n + 1] \in Nat BY <2>5, <2>6, <3>3
      <4>2. CASE i = n + 1
        <5>1. SizeIn(s, i) = m BY <4>2 DEF m
        <5> QED BY <2>4, <3>1, <4>1, <4>2, <5>1
      <4>3. CASE i # n + 1
        <5>1. off[i] + SizeIn(s, i) <= off[n + 1] BY <2>5, <3>1, <4>3
        <5>2. SizeIn(s, i) \in Nat BY <2>3, <3>1
        <5> QED BY <2>4, <3>1, <4>1, <5>1, <5>2
      <4> QED BY <4>2, <4>3
    <3> QED BY <3>2, <3>3
  <2>10. IsOffsets(new, s, n + 1) BY <2>6, <2>7, <2>8, <2>9 DEF IsOffsets
  <2> QED BY <2>10
<1> HIDE DEF S
<1>3. Nat \subseteq S BY <1>1, <1>2, FromZero
<1>4. Len(s) \in Nat OBVIOUS
<1>5. \E off : IsOffsets(off, s, Len(s)) BY <1>3, <1>4 DEF S
<1> QED BY <1>5 DEF Offsets

(* What the lemmas need to know of the numbers. *)
LEMMA OffsetsFacts ==
  ASSUME NEW s \in Seq(Request)
  PROVE  /\ Offsets(s) \in [1..Len(s) + 1 -> Nat] /\ Offsets(s)[1] = 0
         /\ \A r \in 1..Len(s) : Offsets(s)[r + 1] = Offsets(s)[r] + SizeIn(s, r)
         /\ \A i, j \in 1..Len(s) + 1 : i < j => Offsets(s)[i] + SizeIn(s, i) <= Offsets(s)[j]
BY OffsetsExist DEF IsOffsets

(* A number is that of one unit. *)
LEMMA UnitAt ==
  ASSUME NEW s \in Seq(Request), NEW u, IsUnit(s, u),
         NEW r \in 1..Len(s), NEW k \in Nat \ {0}, k <= SizeIn(s, r),
         At(s, u) = Offsets(s)[r] + k
  PROVE  u = <<r, k>>
<1> DEFINE o == Offsets(s)
           n == Len(s)
           a == u[1]
           b == u[2]
<1>1. /\ o \in [1..n + 1 -> Nat] /\ n \in Nat
      /\ \A i, j \in 1..n + 1 : i < j => o[i] + SizeIn(s, i) <= o[j]
  BY OffsetsFacts
<1>2. /\ u = <<a, b>> /\ a \in 1..n /\ b \in Nat \ {0} /\ b <= SizeIn(s, a)
      /\ o[a] + b = o[r] + k
  BY DEF IsUnit, At, Pairs
<1>3. SizeIn(s, a) \in Nat /\ SizeIn(s, r) \in Nat BY <1>2, SizeFacts
<1> HIDE DEF o, n, a, b
<1>4. r \in 1..n /\ o[a] \in Nat /\ o[r] \in Nat BY <1>1, <1>2 DEF n
<1>5. ~(a < r)
  <2>1. a < r => o[a] + SizeIn(s, a) <= o[r] BY <1>1, <1>2, <1>4
  <2> QED BY <1>2, <1>3, <1>4, <2>1, SMTT(60)
<1>6. ~(r < a)
  <2>1. r < a => o[r] + SizeIn(s, r) <= o[a] BY <1>1, <1>2, <1>4
  <2> QED BY <1>2, <1>3, <1>4, <2>1, SMTT(60)
<1>7. a = r BY <1>2, <1>4, <1>5, <1>6
<1> QED BY <1>1, <1>2, <1>7

LEMMA PointAt ==
  ASSUME NEW s \in Seq(Request), NEW u, IsPoint(s, u),
         NEW r \in 1..Len(s) + 1, At(s, u) = Offsets(s)[r] + 1
  PROVE  u = <<r, 1>>
<1> DEFINE o == Offsets(s)
           n == Len(s)
<1>1. /\ o \in [1..n + 1 -> Nat] /\ n \in Nat
      /\ \A i, j \in 1..n + 1 : i < j => o[i] + SizeIn(s, i) <= o[j]
  BY OffsetsFacts
<1>2. CASE IsUnit(s, u)
  <2>1. CASE r <= n
    <3>1. 1 <= SizeIn(s, r) BY <2>1, SizeFacts
    <3> QED BY <1>2, <2>1, <3>1, UnitAt
  <2>2. CASE r = n + 1
    <3>1. /\ u[1] \in 1..n /\ u[2] \in Nat /\ u[2] <= SizeIn(s, u[1])
          /\ o[u[1]] + u[2] = o[n + 1] + 1
      BY <1>2, <2>2 DEF IsUnit, At, Pairs
    <3>2. o[u[1]] + SizeIn(s, u[1]) <= o[n + 1] BY <1>1, <3>1
    <3>3. SizeIn(s, u[1]) \in Nat BY <3>1, SizeFacts
    <3>4. o[u[1]] \in Nat /\ o[n + 1] \in Nat BY <1>1, <3>1
    <3> HIDE DEF o
    <3> QED BY <3>1, <3>2, <3>3, <3>4
  <2> QED BY <2>1, <2>2, <1>1
<1>3. CASE u = <<n + 1, 1>>
  <2>1. o[n + 1] = o[r] BY <1>1, <1>3, SMTT(60) DEF At
  <2>2. CASE r = n + 1 BY <1>3, <2>2
  <2>3. CASE r <= n
    <3>1. SizeIn(s, r) \in Nat \ {0} BY <2>3, SizeFacts
    <3>2. o[r] + SizeIn(s, r) <= o[n + 1] BY <1>1, <2>3
    <3>3. o[r] \in Nat BY <1>1
    <3> HIDE DEF o
    <3> QED BY <2>1, <3>1, <3>2, <3>3
  <2> QED BY <2>2, <2>3, <1>1
<1> QED BY <1>2, <1>3 DEF IsPoint

LEMMA AtFacts ==
  ASSUME NEW s \in Seq(Request), NEW u, IsPoint(s, u)
  PROVE  At(s, u) \in Nat /\ u[1] \in 1..Len(s) + 1 /\ u[2] \in Nat /\ u \in Pairs
BY OffsetsFacts DEF At, IsPoint, IsUnit, Pairs

-----------------------------------------------------------------------------
(* Runs of units, and lines of segments. *)

Run(s, q, p) == \A i \in 1..Len(q) : IsUnit(s, q[i]) /\ At(s, q[i]) = p + i

(* Segments that follow one another, from behind number p to number e. *)
Marks(s, q, m) ==
  /\ m \in [1..Len(q) + 1 -> Int]
  /\ \A j \in 1..Len(q) : Run(s, q[j], m[j]) /\ m[j + 1] = m[j] + Len(q[j])
Line(s, q, p, e) == \E m : Marks(s, q, m) /\ m[1] = p /\ m[Len(q) + 1] = e

LEMMA RunConcat ==
  ASSUME NEW s, NEW q \in Seq(Pairs), NEW r \in Seq(Pairs), NEW p \in Int,
         Run(s, q, p), Run(s, r, p + Len(q))
  PROVE  Run(s, q \o r, p)
<1> DEFINE a == Len(q)
           b == Len(r)
           w == q \o r
<1>1. /\ a \in Nat /\ b \in Nat /\ Len(w) = a + b
      /\ \A i \in 1..a : w[i] = q[i]
      /\ \A i \in 1..a + b : i > a => i - a \in 1..b /\ w[i] = r[i - a]
  OBVIOUS
<1>2. \A i \in 1..a : IsUnit(s, q[i]) /\ At(s, q[i]) = p + i BY DEF Run
<1>3. \A i \in 1..b : IsUnit(s, r[i]) /\ At(s, r[i]) = p + a + i BY DEF Run
<1> HIDE DEF a, b, w
<1>4. ASSUME NEW i \in 1..a + b PROVE IsUnit(s, w[i]) /\ At(s, w[i]) = p + i
  <2>1. CASE i \in 1..a BY <1>1, <1>2, <2>1
  <2>2. CASE i > a
    <3>1. i - a \in 1..b /\ w[i] = r[i - a] BY <1>1, <2>2
    <3>2. p + a + (i - a) = p + i BY <1>1
    <3> QED BY <1>3, <3>1, <3>2
  <2> QED BY <1>1, <2>1, <2>2
<1> QED BY <1>1, <1>4 DEF Run, w

LEMMA DropFacts ==
  ASSUME NEW T, NEW q \in Seq(T), NEW n \in 0..Len(q)
  PROVE  /\ DropFirst(q, n) \in Seq(T) /\ Len(DropFirst(q, n)) = Len(q) - n
         /\ \A i \in 1..Len(q) - n : DropFirst(q, n)[i] = q[i + n]
BY DEF DropFirst

LEMMA RunDrop ==
  ASSUME NEW s, NEW q \in Seq(Pairs), NEW n \in 0..Len(q), NEW p \in Int, Run(s, q, p)
  PROVE  Run(s, DropFirst(q, n), p + n)
<1> DEFINE w == DropFirst(q, n)
<1>1. /\ Len(w) = Len(q) - n
      /\ \A i \in 1..Len(q) - n : w[i] = q[i + n]
  BY DropFacts
<1> HIDE DEF w
<1>2. ASSUME NEW i \in 1..Len(w) PROVE IsUnit(s, w[i]) /\ At(s, w[i]) = (p + n) + i
  <2>1. i + n \in 1..Len(q) /\ w[i] = q[i + n] /\ p + (i + n) = (p + n) + i BY <1>1
  <2> QED BY <2>1 DEF Run
<1> QED BY <1>2 DEF Run, w

LEMMA LineTypes ==
  ASSUME NEW s, NEW q \in Seq(Seq(Pairs)), NEW p, NEW e, Line(s, q, p, e)
  PROVE  p \in Int /\ e \in Int /\ (q = <<>> => p = e)
<1>1. PICK m : Marks(s, q, m) /\ m[1] = p /\ m[Len(q) + 1] = e BY DEF Line
<1>2. m \in [1..Len(q) + 1 -> Int] BY <1>1 DEF Marks
<1>3. 1 \in 1..Len(q) + 1 /\ Len(q) + 1 \in 1..Len(q) + 1 OBVIOUS
<1>4. q = <<>> => Len(q) + 1 = 1 OBVIOUS
<1> QED BY <1>1, <1>2, <1>3, <1>4

LEMMA LineAppend ==
  ASSUME NEW s, NEW q \in Seq(Seq(Pairs)), NEW r \in Seq(Pairs), NEW p, NEW e,
         Line(s, q, p, e), Run(s, r, e)
  PROVE  Line(s, Append(q, r), p, e + Len(r))
<1>1. PICK m : Marks(s, q, m) /\ m[1] = p /\ m[Len(q) + 1] = e BY DEF Line
<1> DEFINE n == Len(q)
           c == Len(r)
           w == Append(q, r)
           k == [j \in 1..(n + 1) + 1 |-> IF j = n + 2 THEN e + c ELSE m[j]]
<1>2. /\ n \in Nat /\ c \in Nat /\ Len(w) = n + 1 /\ w[n + 1] = r
      /\ \A j \in 1..n : w[j] = q[j]
  OBVIOUS
<1>3. /\ m \in [1..n + 1 -> Int] /\ m[1] = p /\ m[n + 1] = e
      /\ \A j \in 1..n : Run(s, q[j], m[j]) /\ m[j + 1] = m[j] + Len(q[j])
  BY <1>1 DEF Marks
<1>c. c = Len(r) OBVIOUS
<1> HIDE DEF n, c, w
<1>4. /\ k \in [1..(n + 1) + 1 -> Int] /\ k[n + 2] = e + c
      /\ \A j \in 1..n + 1 : k[j] = m[j]
  BY <1>2, <1>3
<1> HIDE DEF k
<1>5. ASSUME NEW j \in 1..n + 1 PROVE Run(s, w[j], k[j]) /\ k[j + 1] = k[j] + Len(w[j])
  <2>1. CASE j = n + 1
    <3>1. w[j] = r /\ k[j] = e /\ k[j + 1] = e + c BY <1>2, <1>3, <1>4, <2>1
    <3> QED BY <3>1, <1>c
  <2>2. CASE j \in 1..n
    <3>1. j \in 1..n + 1 /\ j + 1 \in 1..n + 1 BY <1>2, <2>2
    <3>2. w[j] = q[j] /\ k[j] = m[j] /\ k[j + 1] = m[j + 1] BY <1>2, <1>4, <2>2, <3>1
    <3> QED BY <1>3, <2>2, <3>2
  <2> QED BY <1>2, <2>1, <2>2
<1>6. Marks(s, w, k) BY <1>2, <1>4, <1>5 DEF Marks
<1>7. k[1] = p /\ k[Len(w) + 1] = e + c BY <1>2, <1>3, <1>4
<1> QED BY <1>6, <1>7, <1>c DEF Line, w

LEMMA LineDrop ==
  ASSUME NEW s, NEW q \in Seq(Seq(Pairs)), NEW n \in 0..Len(q), NEW m, Marks(s, q, m)
  PROVE  Line(s, DropFirst(q, n), m[n + 1], m[Len(q) + 1])
<1> DEFINE w == DropFirst(q, n)
           c == Len(q)
           k == [j \in 1..(c - n) + 1 |-> m[j + n]]
<1>1. /\ c \in Nat /\ n \in 0..c /\ Len(w) = c - n
      /\ \A i \in 1..c - n : w[i] = q[i + n]
  BY DropFacts
<1>2. /\ m \in [1..c + 1 -> Int]
      /\ \A j \in 1..c : Run(s, q[j], m[j]) /\ m[j + 1] = m[j] + Len(q[j])
  BY DEF Marks
<1> HIDE DEF w, c
<1>3. \A j \in 1..(c - n) + 1 : j + n \in 1..c + 1 BY <1>1
<1>4. k \in [1..(c - n) + 1 -> Int] /\ \A j \in 1..(c - n) + 1 : k[j] = m[j + n]
  BY <1>2, <1>3
<1> HIDE DEF k
<1>5. ASSUME NEW j \in 1..c - n PROVE Run(s, w[j], k[j]) /\ k[j + 1] = k[j] + Len(w[j])
  <2>1. j + n \in 1..c /\ (j + 1) + n = (j + n) + 1 /\ j + 1 \in 1..(c - n) + 1
        /\ j \in 1..(c - n) + 1
    BY <1>1
  <2>2. w[j] = q[j + n] /\ k[j] = m[j + n] /\ k[j + 1] = m[(j + n) + 1] BY <1>1, <1>4, <2>1
  <2> QED BY <1>2, <2>1, <2>2
<1>6. Marks(s, w, k) BY <1>1, <1>4, <1>5 DEF Marks
<1>7. k[1] = m[n + 1] /\ k[Len(w) + 1] = m[c + 1]
  <2>1. 1 \in 1..(c - n) + 1 /\ (c - n) + 1 \in 1..(c - n) + 1 /\ ((c - n) + 1) + n = c + 1
        /\ 1 + n = n + 1
    BY <1>1
  <2> QED BY <1>1, <1>4, <2>1
<1> QED BY <1>6, <1>7 DEF Line, w, c

LEMMA LineTail ==
  ASSUME NEW s, NEW q \in Seq(Seq(Pairs)), q # <<>>, NEW p, NEW e, Line(s, q, p, e)
  PROVE  Run(s, Head(q), p) /\ Line(s, Tail(q), p + Len(Head(q)), e)
<1>1. PICK m : Marks(s, q, m) /\ m[1] = p /\ m[Len(q) + 1] = e BY DEF Line
<1>2. 1 \in 0..Len(q) /\ 1 \in 1..Len(q) /\ Head(q) = q[1] OBVIOUS
<1>3. Line(s, DropFirst(q, 1), m[1 + 1], e) BY <1>1, <1>2, LineDrop
<1>4. DropFirst(q, 1) = Tail(q) BY <1>2 DEF DropFirst
<1>5. Run(s, q[1], p) /\ m[1 + 1] = p + Len(q[1]) BY <1>1, <1>2 DEF Marks
<1> QED BY <1>2, <1>3, <1>4, <1>5

(* Segments of one unit each, on a plain connection. *)
LEMMA LineUnits ==
  ASSUME NEW s, NEW q \in Seq(Seq(Pairs)), NEW n \in 0..Len(q), NEW p, NEW e, Line(s, q, p, e),
         \A i \in 1..n : q[i] # <<>>, \A i \in 1..Len(q) : Len(q[i]) <= 1
  PROVE  /\ [i \in 1..n |-> q[i][1]] \in Seq(Pairs)
         /\ Run(s, [i \in 1..n |-> q[i][1]], p)
         /\ Line(s, DropFirst(q, n), p + n, e)
<1>1. PICK m : Marks(s, q, m) /\ m[1] = p /\ m[Len(q) + 1] = e BY DEF Line
<1>2. /\ m \in [1..Len(q) + 1 -> Int] /\ n \in Nat /\ p \in Int
      /\ \A j \in 1..Len(q) : Run(s, q[j], m[j]) /\ m[j + 1] = m[j] + Len(q[j])
  BY <1>1 DEF Marks
<1>3. ASSUME NEW i \in 1..n PROVE i \in 1..Len(q) /\ Len(q[i]) = 1 /\ q[i][1] \in Pairs
  <2>1. i \in 1..Len(q) OBVIOUS
  <2>2. q[i] \in Seq(Pairs) BY <2>1
  <2>3. q[i] # <<>> /\ Len(q[i]) <= 1 BY <2>1
  <2>4. Len(q[i]) \in Nat /\ Len(q[i]) # 0 BY <2>2, <2>3
  <2>5. Len(q[i]) = 1
    <3> DEFINE c == Len(q[i])
    <3>1. c \in Nat /\ c # 0 /\ c <= 1 BY <2>3, <2>4
    <3> HIDE DEF c
    <3>2. c = 1 BY ONLY <3>1
    <3> QED BY <3>2 DEF c
  <2> QED BY <2>1, <2>2, <2>5
<1> DEFINE S == {i \in Nat : i <= n => m[i + 1] = p + i}
<1>4. 0 \in S BY <1>1, <1>2
<1>5. ASSUME NEW i \in Nat, i \in S PROVE i + 1 \in S
  <2>1. CASE i + 1 <= n
    <3>1. i + 1 \in 1..n /\ i <= n BY <2>1, <1>2
    <3>2. m[i + 1] = p + i BY <3>1, <1>5
    <3>3. m[(i + 1) + 1] = m[i + 1] + 1 BY <3>1, <1>2, <1>3
    <3> QED BY <3>2, <3>3, <1>2
  <2>2. CASE ~(i + 1 <= n) BY <2>2, <1>2
  <2> QED BY <2>1, <2>2
<1> HIDE DEF S
<1>6. Nat \subseteq S BY <1>4, <1>5, FromZero
<1>7. \A i \in 0..n : m[i + 1] = p + i BY <1>6, <1>2 DEF S
<1> DEFINE w == [i \in 1..n |-> q[i][1]]
<1>8. w \in Seq(Pairs) /\ Len(w) = n /\ \A i \in 1..n : w[i] = q[i][1] BY <1>2, <1>3
<1> HIDE DEF w
<1>9. ASSUME NEW i \in 1..n PROVE IsUnit(s, w[i]) /\ At(s, w[i]) = p + i
  <2>1. Run(s, q[i], m[i]) /\ Len(q[i]) = 1 BY <1>2, <1>3
  <2>2. IsUnit(s, q[i][1]) /\ At(s, q[i][1]) = m[i] + 1 BY <2>1 DEF Run
  <2>3. i - 1 \in 0..n /\ (i - 1) + 1 = i BY <1>2
  <2>4. m[i] = p + (i - 1) BY <1>7, <2>3
  <2> QED BY <2>2, <2>4, <1>2, <1>8
<1>10. Run(s, w, p) BY <1>8, <1>9 DEF Run
<1>11. n \in 0..n /\ m[n + 1] = p + n BY <1>2, <1>7
<1>12. Line(s, DropFirst(q, n), p + n, e) BY <1>1, <1>11, LineDrop
<1> QED BY <1>8, <1>10, <1>12 DEF w

-----------------------------------------------------------------------------
(* Answers in order. *)

Responses == [req : Nat, part : {"full", "head", "chunk", "end"}, close : BOOLEAN]

Follows(x, y) ==
  \/ /\ y.req = x.req
     /\ x.part \in {"head", "chunk"} /\ y.part \in {"chunk", "end"}
  \/ /\ y.req = x.req + 1
     /\ x.part \in {"full", "end"} /\ y.part \in {"full", "head"}
Ordered(a) ==
  /\ a # <<>> => a[1].req = 1 /\ a[1].part \in {"full", "head"}
  /\ \A i \in 1..(Len(a) - 1) : Follows(a[i], a[i + 1])

Handled(a) == IF a = <<>> THEN 0 ELSE a[Len(a)].req
Whole(a) == a # <<>> => a[Len(a)].part \in {"full", "end"}

LEMMA AppendFacts ==
  ASSUME NEW T, NEW a \in Seq(T), NEW x \in T
  PROVE  /\ Append(a, x) \in Seq(T) /\ Len(Append(a, x)) = Len(a) + 1 /\ Append(a, x) # <<>>
         /\ Append(a, x)[Len(a) + 1] = x /\ Len(a) \in Nat
         /\ \A i \in 1..Len(a) : Append(a, x)[i] = a[i]
OBVIOUS

LEMMA OrderedMore ==
  ASSUME NEW a \in Seq(Responses), NEW x \in Responses, Ordered(a),
         a = <<>> => x.req = 1 /\ x.part \in {"full", "head"},
         a # <<>> => Follows(a[Len(a)], x)
  PROVE  Ordered(Append(a, x)) /\ Handled(Append(a, x)) = x.req
         /\ (Whole(Append(a, x)) <=> x.part \in {"full", "end"})
<1> DEFINE w == Append(a, x)
           n == Len(a)
<1>1. /\ w \in Seq(Responses) /\ Len(w) = n + 1 /\ w # <<>> /\ w[n + 1] = x /\ n \in Nat
      /\ \A i \in 1..n : w[i] = a[i]
      /\ (a = <<>> <=> n = 0)
  BY AppendFacts
<1>2. Handled(w) = x.req /\ (Whole(w) <=> x.part \in {"full", "end"})
  BY <1>1 DEF Handled, Whole
<1>3. /\ n # 0 => a[1].req = 1 /\ a[1].part \in {"full", "head"}
      /\ \A i \in 1..n - 1 : Follows(a[i], a[i + 1])
  BY <1>1 DEF Ordered
<1>4. (n = 0 => x.req = 1 /\ x.part \in {"full", "head"}) /\ (n # 0 => Follows(a[n], x)) BY <1>1
<1> HIDE DEF w, n
<1>5. w[1].req = 1 /\ w[1].part \in {"full", "head"}
  <2>1. CASE n = 0 BY <1>1, <1>4, <2>1
  <2>2. CASE n # 0
    <3>1. 1 \in 1..n BY <1>1, <2>2
    <3> QED BY <1>1, <1>3, <2>2, <3>1
  <2> QED BY <2>1, <2>2
<1>6. ASSUME NEW i \in 1..(n + 1) - 1 PROVE Follows(w[i], w[i + 1])
  <2>1. i \in 1..n /\ w[i] = a[i] BY <1>1
  <2>2. CASE i = n
    <3>1. w[i + 1] = x /\ n # 0 BY <1>1, <2>1, <2>2
    <3> QED BY <1>4, <2>1, <2>2, <3>1
  <2>3. CASE i # n
    <3>1. i \in 1..n - 1 /\ i + 1 \in 1..n BY <1>1, <2>1, <2>3
    <3>2. w[i + 1] = a[i + 1] BY <1>1, <3>1
    <3> QED BY <1>3, <2>1, <3>1, <3>2
  <2> QED BY <2>2, <2>3
<1>7. Ordered(w) BY <1>1, <1>5, <1>6 DEF Ordered
<1> QED BY <1>2, <1>7 DEF w

LEMMA LastFacts ==
  ASSUME NEW a \in Seq(Responses), a # <<>>
  PROVE  Len(a) \in Nat \ {0} /\ a[Len(a)] \in Responses
OBVIOUS

(* The first part of the answer to the next request. *)
LEMMA OrderedNext ==
  ASSUME NEW a \in Seq(Responses), NEW x \in Responses, Ordered(a), Whole(a),
         x.req = Handled(a) + 1, x.part \in {"full", "head"}
  PROVE  Ordered(Append(a, x)) /\ Handled(Append(a, x)) = x.req
         /\ (Whole(Append(a, x)) <=> x.part \in {"full", "end"})
<1>1. a = <<>> => x.req = 1 /\ x.part \in {"full", "head"} BY DEF Handled
<1>2. a # <<>> => Follows(a[Len(a)], x) BY DEF Handled, Whole, Follows
<1> QED BY <1>1, <1>2, OrderedMore

(* A further part of a streamed one. *)
LEMMA OrderedPart ==
  ASSUME NEW a \in Seq(Responses), NEW x \in Responses, Ordered(a),
         a # <<>>, a[Len(a)].req = x.req, a[Len(a)].part \in {"head", "chunk"},
         x.part \in {"chunk", "end"}
  PROVE  Ordered(Append(a, x)) /\ Handled(Append(a, x)) = x.req
         /\ (Whole(Append(a, x)) <=> x.part \in {"full", "end"})
<1>1. Follows(a[Len(a)], x) BY DEF Follows
<1> QED BY <1>1, OrderedMore

-----------------------------------------------------------------------------
LEMMA UnitBelow ==
  ASSUME NEW s \in Seq(Request), NEW u, IsUnit(s, u)
  PROVE  At(s, u) <= Offsets(s)[Len(s) + 1]
<1> DEFINE o == Offsets(s)
           n == Len(s)
           a == u[1]
           k == u[2]
<1>1. a \in 1..n /\ k \in Nat /\ k <= SizeIn(s, a) /\ At(s, u) = o[a] + k
  BY DEF IsUnit, Pairs, At
<1>2. SizeIn(s, a) \in Nat /\ o[a] \in Nat BY <1>1, SizeFacts, OffsetsFacts
<1>3. a \in 1..n + 1 /\ n + 1 \in 1..n + 1 /\ a < n + 1 BY <1>1
<1>4. o[a] + SizeIn(s, a) <= o[n + 1] /\ o[n + 1] \in Nat BY <1>1, <1>3, OffsetsFacts
<1> HIDE DEF o, n, a, k
<1>5. At(s, u) <= o[n + 1] BY <1>1, <1>2, <1>4
<1> QED BY <1>5 DEF o, n

(* Where the requests are: buffer b holds the units from those of request   *)
(* th + 1 on, after mk units of requests that are handled; segments q come  *)
(* behind, and behind them what the client sends next.  An overflow buffer  *)
(* holds one request, whole or not: it has the size of that request, or     *)
(* there is none after it.                                                  *)

Placed(s, b, q, ov, th, mk, nx) ==
  /\ th \in 0..Len(s) /\ mk \in 0..Len(b)
  /\ Run(s, b, Offsets(s)[th + 1] - mk)
  /\ Line(s, q, Offsets(s)[th + 1] - mk + Len(b), At(s, nx) - 1)
  /\ ov # 0 => \/ /\ mk = 0 /\ th < Len(s) /\ ov >= SizeIn(s, th + 1)
                  /\ ov = SizeIn(s, th + 1) \/ th + 1 = Len(s)
               \/ mk > 0 /\ Len(b) = mk

LEMMA BaseInt ==
  ASSUME NEW s \in Seq(Request), NEW th \in 0..Len(s), NEW mk \in Nat
  PROVE  /\ Offsets(s)[th + 1] \in Nat /\ Offsets(s)[th + 1] - mk \in Int
         /\ th < Len(s) => Offsets(s)[th + 2] = Offsets(s)[th + 1] + SizeIn(s, th + 1)
<1>1. th + 1 \in 1..Len(s) + 1 OBVIOUS
<1>2. Offsets(s)[th + 1] \in Nat BY <1>1, OffsetsFacts
<1>3. ASSUME th < Len(s) PROVE Offsets(s)[th + 2] = Offsets(s)[th + 1] + SizeIn(s, th + 1)
  <2>1. th + 1 \in 1..Len(s) /\ (th + 1) + 1 = th + 2 BY <1>3
  <2>2. Offsets(s)[(th + 1) + 1] = Offsets(s)[th + 1] + SizeIn(s, th + 1) BY <2>1, OffsetsFacts
  <2> QED BY <2>1, <2>2
<1> QED BY <1>2, <1>3

(* The client's end, an empty segment, is the last it sends. *)
EndsLast(q) == \A j \in 1..Len(q) - 1 : q[j] # <<>>
Idle(q) == q = <<>> \/ (Len(q) = 1 /\ q[1] = <<>>)

LEMMA EndsAppend ==
  ASSUME NEW T, NEW q \in Seq(T), NEW x \in T, EndsLast(q), q # <<>> => q[Len(q)] # <<>>
  PROVE  EndsLast(Append(q, x))
<1> DEFINE w == Append(q, x)
<1>1. Len(w) = Len(q) + 1 /\ Len(q) \in Nat /\ \A j \in 1..Len(q) : w[j] = q[j] BY AppendFacts
<1> HIDE DEF w
<1>2. ASSUME NEW j \in 1..Len(w) - 1 PROVE w[j] # <<>>
  <2>1. j \in 1..Len(q) /\ (j \in 1..Len(q) - 1 \/ j = Len(q)) BY <1>1
  <2>2. q # <<>> BY <2>1
  <2> QED BY <1>1, <2>1, <2>2 DEF EndsLast
<1> QED BY <1>2 DEF EndsLast, w

LEMMA EndsDrop ==
  ASSUME NEW T, NEW q \in Seq(T), NEW n \in 0..Len(q), EndsLast(q)
  PROVE  EndsLast(DropFirst(q, n))
<1> DEFINE w == DropFirst(q, n)
<1>1. /\ Len(w) = Len(q) - n /\ Len(q) \in Nat
      /\ \A i \in 1..Len(q) - n : w[i] = q[i + n]
  BY DropFacts
<1> HIDE DEF w
<1>2. ASSUME NEW j \in 1..Len(w) - 1 PROVE w[j] # <<>>
  <2>1. j + n \in 1..Len(q) - 1 /\ j \in 1..Len(q) - n BY <1>1
  <2> QED BY <1>1, <2>1 DEF EndsLast
<1> QED BY <1>2 DEF EndsLast, w

LEMMA EndsTail ==
  ASSUME NEW T, NEW q \in Seq(T), q # <<>>, EndsLast(q)
  PROVE  EndsLast(Tail(q))
<1> DEFINE w == Tail(q)
<1>1. /\ Len(w) = Len(q) - 1 /\ Len(q) \in Nat
      /\ \A j \in 1..Len(w) : j + 1 \in 1..Len(q) /\ w[j] = q[j + 1]
  OBVIOUS
<1> HIDE DEF w
<1>2. ASSUME NEW j \in 1..Len(w) - 1 PROVE w[j] # <<>>
  <2>1. j + 1 \in 1..Len(q) - 1 /\ j \in 1..Len(w) BY <1>1
  <2> QED BY <1>1, <2>1 DEF EndsLast
<1> QED BY <1>2 DEF EndsLast, w

(* Behind the last request there is nothing but the client's end. *)
LEMMA NothingBehind ==
  ASSUME NEW s \in Seq(Request), NEW b, NEW q \in Seq(Seq(Pairs)), NEW ov, NEW nx, NEW mk,
         Placed(s, b, q, ov, Len(s), mk, nx), Len(b) \in Nat, EndsLast(q)
  PROVE  Idle(q)
<1> SUFFICES ASSUME q # <<>> PROVE Idle(q)
  BY DEF Idle
<1> DEFINE o == Offsets(s)[Len(s) + 1]
           p == o - mk + Len(b)
<1>1. mk \in 0..Len(b) /\ Line(s, q, p, At(s, nx) - 1) BY DEF Placed
<1>2. o \in Nat
  <2>1. Len(s) + 1 \in 1..Len(s) + 1 OBVIOUS
  <2> QED BY <2>1, OffsetsFacts
<1>3. 1 \in 1..Len(q) /\ Len(q) \in Nat /\ q[1] \in Seq(Pairs) OBVIOUS
<1>4. Run(s, q[1], p)
  <2>1. PICK m : Marks(s, q, m) /\ m[1] = p BY <1>1 DEF Line
  <2> QED BY <1>3, <2>1 DEF Marks
<1>5. q[1] = <<>>
  <2> SUFFICES ASSUME q[1] # <<>> PROVE FALSE
    OBVIOUS
  <2>1. 1 \in 1..Len(q[1]) BY <1>3
  <2>2. IsUnit(s, q[1][1]) /\ At(s, q[1][1]) = p + 1 BY <1>4, <2>1 DEF Run
  <2>3. p + 1 <= o BY <2>2, UnitBelow
  <2> DEFINE n == Len(b)
  <2>4. n \in Nat /\ mk \in 0..n /\ (o - mk + n) + 1 <= o BY <1>1, <2>3
  <2> HIDE DEF n, o
  <2> QED BY <1>2, <2>4
<1>6. Len(q) = 1
  <2>1. ~(1 \in 1..Len(q) - 1) BY <1>5 DEF EndsLast
  <2> DEFINE n == Len(q)
  <2>2. n \in Nat /\ 1 \in 1..n /\ ~(1 \in 1..n - 1) BY <1>3, <2>1
  <2> HIDE DEF n
  <2>3. n = 1 BY ONLY <2>2
  <2> QED BY <2>3 DEF n
<1> QED BY <1>5, <1>6 DEF Idle

LEMMA IdleSplit ==
  ASSUME NEW T, NEW q \in Seq(T), NEW r \in Seq(T), Idle(q \o r)
  PROVE  Idle(q)
<1> SUFFICES ASSUME q # <<>> PROVE Idle(q)
  BY DEF Idle
<1>1. /\ Len(q \o r) = Len(q) + Len(r) /\ Len(q) \in Nat \ {0} /\ Len(r) \in Nat
      /\ (q \o r)[1] = q[1]
  OBVIOUS
<1>2. Len(q \o r) = 1 /\ (q \o r)[1] = <<>>
  <2>1. Len(q \o r) # 0 BY <1>1
  <2>2. q \o r # <<>> BY <2>1
  <2> QED BY <2>2 DEF Idle
<1>3. Len(q) = 1
  <2> DEFINE n == Len(q)
             l == Len(r)
  <2>1. n \in Nat \ {0} /\ l \in Nat /\ n + l = 1 BY <1>1, <1>2
  <2> HIDE DEF n, l
  <2>2. n = 1 BY ONLY <2>1
  <2> QED BY <2>2 DEF n
<1>4. q[1] = <<>> BY <1>1, <1>2
<1> QED BY <1>3, <1>4 DEF Idle

(* The next request is found by its numbers. *)
LEMMA NextInBuffer ==
  ASSUME NEW s \in Seq(Request), NEW b \in Seq(Pairs), NEW th \in 0..Len(s), NEW mk \in 0..Len(b),
         Run(s, b, Offsets(s)[th + 1] - mk)
  PROVE  /\ mk < Len(b) => th < Len(s)
         /\ \A k \in 1..Len(b) - mk :
              k <= SizeIn(s, th + 1) => b[mk + k] = <<th + 1, k>>
<1> DEFINE n == Len(b)
           o == Offsets(s)
<1>1. n \in Nat /\ mk \in 0..n /\ o[th + 1] \in Nat BY BaseInt
<1>2. \A i \in 1..n : IsUnit(s, b[i]) /\ At(s, b[i]) = o[th + 1] - mk + i BY DEF Run
<1> HIDE DEF n, o
<1>3. ASSUME mk < n PROVE th < Len(s)
  <2>1. mk + 1 \in 1..n /\ o[th + 1] - mk + (mk + 1) = o[th + 1] + 1 BY <1>1, <1>3
  <2>2. IsUnit(s, b[mk + 1]) /\ At(s, b[mk + 1]) = o[th + 1] + 1 BY <1>2, <2>1
  <2>3. b[mk + 1] = <<th + 1, 1>>
    <3>1. IsPoint(s, b[mk + 1]) /\ th + 1 \in 1..Len(s) + 1 BY <2>2 DEF IsPoint
    <3> QED BY <2>2, <3>1, PointAt DEF o
  <2> QED BY <2>2, <2>3 DEF IsUnit
<1>4. ASSUME NEW k \in 1..n - mk, k <= SizeIn(s, th + 1) PROVE b[mk + k] = <<th + 1, k>>
  <2>1. mk + k \in 1..n /\ o[th + 1] - mk + (mk + k) = o[th + 1] + k /\ k \in Nat \ {0} /\ mk < n
    BY <1>1
  <2>2. IsUnit(s, b[mk + k]) /\ At(s, b[mk + k]) = o[th + 1] + k BY <1>2, <2>1
  <2>3. th + 1 \in 1..Len(s) BY <1>3, <2>1
  <2> QED BY <1>4, <2>1, <2>2, <2>3, UnitAt DEF o
<1> QED BY <1>3, <1>4 DEF n

(* A request is handled where it is. *)
LEMMA PlacedAdvance ==
  ASSUME NEW s \in Seq(Request), NEW b \in Seq(Pairs), NEW q, NEW ov \in Nat, NEW nx,
         NEW th, NEW mk, Placed(s, b, q, ov, th, mk, nx),
         th < Len(s), mk + SizeIn(s, th + 1) <= Len(b), ov # 0 => Len(b) <= ov
  PROVE  Placed(s, b, q, ov, th + 1, mk + SizeIn(s, th + 1), nx)
<1> DEFINE z == SizeIn(s, th + 1)
           o == Offsets(s)
           n == Len(b)
<1>1. /\ th \in 0..Len(s) /\ mk \in 0..n /\ n \in Nat
      /\ Run(s, b, o[th + 1] - mk)
      /\ Line(s, q, o[th + 1] - mk + n, At(s, nx) - 1)
      /\ ov # 0 => \/ mk = 0 /\ (ov = z \/ th + 1 = Len(s))
                   \/ n = mk
  BY DEF Placed
<1>2. o[th + 2] = o[th + 1] + z /\ o[th + 1] \in Nat BY <1>1, BaseInt
<1>3. th + 1 \in 1..Len(s) BY <1>1
<1>4. z \in Nat \ {0} BY <1>3, SizeFacts
<1>5. mk + z <= n /\ (ov # 0 => n <= ov) OBVIOUS
<1>a. th + 1 = Len(s) => n - mk <= z
  <2> SUFFICES ASSUME th + 1 = Len(s), n > mk PROVE n - mk <= z
    BY <1>1, <1>4
  <2>1. n \in 1..n /\ IsUnit(s, b[n]) /\ At(s, b[n]) = o[th + 1] - mk + n
    <3>1. n \in 1..n BY <1>1
    <3> QED BY <1>1, <3>1 DEF Run
  <2>2. At(s, b[n]) <= o[th + 2]
    <3>1. At(s, b[n]) <= o[Len(s) + 1] BY <2>1, UnitBelow
    <3>2. Len(s) + 1 = th + 2 BY <1>1
    <3> QED BY <3>1, <3>2
  <2> DEFINE k == At(s, b[n])
  <2>3. k = o[th + 1] - mk + n /\ k <= o[th + 2] BY <2>1, <2>2
  <2> DEFINE e == o[th + 1]
             f == o[th + 2]
  <2>4. /\ e \in Nat /\ f = e + z /\ z \in Nat /\ n \in Nat /\ mk \in Nat
        /\ k = e - mk + n /\ k <= f
    BY <1>1, <1>2, <1>4, <2>3
  <2> HIDE DEF k, z, o, n, e, f
  <2> QED BY ONLY <2>4
<1> HIDE DEF z, o, n
<1>6. (th + 1) + 1 = th + 2 /\ o[th + 2] - (mk + z) = o[th + 1] - mk BY <1>1, <1>2, <1>4
<1>7. mk + z \in 0..n /\ th + 1 \in 0..Len(s) BY <1>1, <1>3, <1>4, <1>5
<1>8. ov # 0 => mk + z > 0 /\ n = mk + z BY <1>1, <1>4, <1>5, <1>a
<1>9. Placed(s, b, q, ov, th + 1, mk + z, nx) BY <1>1, <1>6, <1>7, <1>8 DEF Placed, o, n
<1> QED BY <1>9 DEF z

(* finishRequest: what was handled leaves the buffer. *)
LEMMA PlacedFinish ==
  ASSUME NEW s \in Seq(Request), NEW b \in Seq(Pairs), NEW q, NEW ov \in Nat, NEW nx,
         NEW th, NEW mk, Placed(s, b, q, ov, th, mk, nx), mk > 0
  PROVE  Placed(s, IF ov # 0 THEN <<>> ELSE DropFirst(b, mk), q, 0, th, 0, nx)
<1> DEFINE o == Offsets(s)
           n == Len(b)
           w == IF ov # 0 THEN <<>> ELSE DropFirst(b, mk)
<1>1. /\ th \in 0..Len(s) /\ mk \in 0..n /\ n \in Nat
      /\ Run(s, b, o[th + 1] - mk)
      /\ Line(s, q, o[th + 1] - mk + n, At(s, nx) - 1)
      /\ ov # 0 => n = mk
  BY DEF Placed
<1>2. o[th + 1] \in Nat BY <1>1, BaseInt
<1>3. w \in Seq(Pairs) /\ Len(w) = n - mk /\ Run(s, w, o[th + 1] - 0)
  <2>1. CASE ov # 0
    <3>1. w = <<>> /\ Len(w) = 0 /\ w \in Seq(Pairs) BY <2>1
    <3> QED BY <1>1, <2>1, <3>1 DEF Run
  <2>2. CASE ov = 0
    <3>1. w = DropFirst(b, mk) BY <2>2
    <3>a. o[th + 1] - mk \in Int /\ mk \in 0..Len(b) BY <1>1, <1>2
    <3>b. \A p \in Int : Run(s, b, p) => Run(s, DropFirst(b, mk), p + mk) BY <3>a, RunDrop
    <3>2. Run(s, DropFirst(b, mk), (o[th + 1] - mk) + mk) BY <1>1, <3>a, <3>b
    <3>3. (o[th + 1] - mk) + mk = o[th + 1] - 0 BY <1>1, <1>2
    <3> QED BY <1>1, <3>1, <3>2, <3>3, DropFacts
  <2> QED BY <2>1, <2>2
<1> HIDE DEF w, n, o
<1>4. o[th + 1] - 0 + Len(w) = o[th + 1] - mk + n BY <1>1, <1>2, <1>3
<1>5. 0 \in 0..Len(w) BY <1>1, <1>3
<1> QED BY <1>1, <1>3, <1>4, <1>5 DEF Placed, w, o

LEMMA PlacedGrow ==
  ASSUME NEW s \in Seq(Request), NEW b \in Seq(Pairs), NEW q, NEW nx,
         NEW th, NEW mk, Placed(s, b, q, 0, th, mk, nx), th < Len(s),
         NEW ov, ov >= SizeIn(s, th + 1), ov = SizeIn(s, th + 1) \/ th + 1 = Len(s)
  PROVE  Placed(s, DropFirst(b, mk), q, ov, th, 0, nx)
<1> DEFINE o == Offsets(s)
           n == Len(b)
           w == DropFirst(b, mk)
<1>1. /\ th \in 0..Len(s) /\ mk \in 0..n /\ n \in Nat
      /\ Run(s, b, o[th + 1] - mk)
      /\ Line(s, q, o[th + 1] - mk + n, At(s, nx) - 1)
  BY DEF Placed
<1>2. o[th + 1] \in Nat /\ o[th + 1] - mk \in Int /\ mk \in 0..Len(b) BY <1>1, BaseInt
<1>3. Len(w) = n - mk BY <1>1, DropFacts
<1>4. Run(s, w, o[th + 1] - 0)
  <2>1. \A p \in Int : Run(s, b, p) => Run(s, w, p + mk) BY <1>2, RunDrop
  <2>2. Run(s, w, (o[th + 1] - mk) + mk) BY <1>1, <1>2, <2>1
  <2>3. (o[th + 1] - mk) + mk = o[th + 1] - 0 BY <1>1, <1>2
  <2> QED BY <2>2, <2>3
<1> HIDE DEF w, n, o
<1>5. o[th + 1] - 0 + Len(w) = o[th + 1] - mk + n /\ 0 \in 0..Len(w) BY <1>1, <1>2, <1>3
<1> QED BY <1>1, <1>4, <1>5 DEF Placed, w, o

LEMMA PlacedRead ==
  ASSUME NEW s \in Seq(Request), NEW b \in Seq(Pairs), NEW q, NEW ov, NEW nx,
         NEW th, Placed(s, b, q, ov, th, 0, nx),
         NEW x \in Seq(Pairs), NEW q2, Run(s, x, Offsets(s)[th + 1] + Len(b)),
         Line(s, q2, Offsets(s)[th + 1] + Len(b) + Len(x), At(s, nx) - 1),
         ov # 0 => Len(b) + Len(x) <= ov
  PROVE  Placed(s, b \o x, q2, ov, th, 0, nx)
<1> DEFINE p == Offsets(s)[th + 1]
           w == b \o x
<1>1. /\ th \in 0..Len(s) /\ Run(s, b, p - 0)
      /\ (ov # 0 => /\ th < Len(s) /\ ov >= SizeIn(s, th + 1)
                    /\ ov = SizeIn(s, th + 1) \/ th + 1 = Len(s))
  BY DEF Placed
<1>2. p \in Nat BY <1>1, BaseInt
<1>3. Len(w) = Len(b) + Len(x) /\ Len(b) \in Nat /\ Len(x) \in Nat OBVIOUS
<1>4. Run(s, x, p + Len(b)) /\ Line(s, q2, p + Len(b) + Len(x), At(s, nx) - 1) OBVIOUS
<1> HIDE DEF p
<1>5. p - 0 = p /\ p \in Int BY <1>2
<1>6. Run(s, w, p - 0) BY <1>1, <1>4, <1>5, RunConcat
<1> HIDE DEF w
<1>7. p - 0 + Len(w) = p + Len(b) + Len(x) /\ 0 \in 0..Len(w) BY <1>2, <1>3
<1> QED BY <1>1, <1>4, <1>6, <1>7 DEF Placed, p, w

LEMMA PlacedSend ==
  ASSUME NEW s \in Seq(Request), NEW b, NEW q \in Seq(Seq(Pairs)), NEW ov, NEW nx,
         NEW th, NEW mk, Placed(s, b, q, ov, th, mk, nx),
         NEW x \in Seq(Pairs), NEW ny, Run(s, x, At(s, nx) - 1), At(s, nx) \in Nat,
         At(s, ny) = At(s, nx) + Len(x)
  PROVE  Placed(s, b, Append(q, x), ov, th, mk, ny)
<1> DEFINE p == Offsets(s)[th + 1] - mk + Len(b)
           e == At(s, nx) - 1
           c == Len(x)
<1>1. Line(s, q, p, e) /\ Run(s, x, e) BY DEF Placed
<1>2. c \in Nat OBVIOUS
<1> HIDE DEF p
<1>3. Line(s, Append(q, x), p, e + c) BY <1>1, LineAppend
<1> HIDE DEF c
<1>4. e + c = At(s, ny) - 1 BY <1>2 DEF c
<1> QED BY <1>3, <1>4 DEF Placed, p

-----------------------------------------------------------------------------
(* What a client sends. *)

SuccIn(s, u) == IF u[2] < SizeIn(s, u[1]) THEN <<u[1], u[2] + 1>> ELSE <<u[1] + 1, 1>>

LEMMA SuccFacts ==
  ASSUME NEW s \in Seq(Request), NEW u, IsUnit(s, u)
  PROVE  IsPoint(s, SuccIn(s, u)) /\ At(s, SuccIn(s, u)) = At(s, u) + 1
<1> DEFINE a == u[1]
           b == u[2]
           o == Offsets(s)
<1>1. a \in 1..Len(s) /\ b \in Nat /\ 1 <= b /\ b <= SizeIn(s, a) BY DEF IsUnit, Pairs
<1>2. SizeIn(s, a) \in Nat BY <1>1, SizeFacts
<1>3. o[a] \in Nat /\ o[a + 1] = o[a] + SizeIn(s, a) BY <1>1, OffsetsFacts
<1>4. CASE b < SizeIn(s, a)
  <2>1. SuccIn(s, u) = <<a, b + 1>> BY <1>4 DEF SuccIn
  <2>2. IsUnit(s, <<a, b + 1>>) BY <1>1, <1>2, <1>4 DEF IsUnit, Pairs
  <2>3. At(s, <<a, b + 1>>) = o[a] + (b + 1) /\ At(s, u) = o[a] + b BY DEF At
  <2>4. IsPoint(s, <<a, b + 1>>) BY <2>2 DEF IsPoint
  <2>5. At(s, <<a, b + 1>>) = At(s, u) + 1
    <3> HIDE DEF a, b, o
    <3> QED BY <1>1, <1>3, <2>3, SMTT(60)
  <2> QED BY <2>1, <2>4, <2>5
<1>5. CASE b = SizeIn(s, a)
  <2>1. SuccIn(s, u) = <<a + 1, 1>> BY <1>2, <1>5 DEF SuccIn
  <2>2. IsPoint(s, <<a + 1, 1>>)
    <3>1. CASE a = Len(s) BY <3>1 DEF IsPoint
    <3>2. CASE a < Len(s)
      <4>1. a + 1 \in 1..Len(s) BY <1>1, <3>2
      <4>2. SizeIn(s, a + 1) \in Nat \ {0} BY <4>1, SizeFacts
      <4> QED BY <1>1, <4>1, <4>2 DEF IsPoint, IsUnit, Pairs
    <3> QED BY <1>1, <3>1, <3>2
  <2>3. At(s, <<a + 1, 1>>) = o[a + 1] + 1 /\ At(s, u) = o[a] + b BY DEF At
  <2> HIDE DEF a, b, o
  <2> QED BY <1>1, <1>2, <1>3, <1>5, <2>1, <2>2, <2>3
<1> QED BY <1>1, <1>2, <1>4, <1>5

LEMMA FunctionIsSeq ==
  ASSUME NEW T, NEW n \in Nat, NEW f \in [1..n -> T]
  PROVE  f \in Seq(T) /\ Len(f) = n
OBVIOUS

LEMMA SegmentRun ==
  ASSUME NEW s \in Seq(Request), NEW r \in 1..Len(s), NEW k \in Nat \ {0}, NEW n \in Nat \ {0},
         k + n <= SizeIn(s, r) + 1, NEW x, x = [i \in 1..n |-> x[i]],
         \A i \in 1..n : x[i] = <<r, k + i - 1>>
  PROVE  x \in Seq(Pairs) /\ Len(x) = n /\ Run(s, x, At(s, <<r, k>>) - 1)
<1> DEFINE z == SizeIn(s, r)
           p == Offsets(s)[r]
<1>1. z \in Nat BY SizeFacts
<1>2. p \in Nat
  <2>1. r \in 1..Len(s) + 1 OBVIOUS
  <2> QED BY <2>1, OffsetsFacts
<1>3. \A i \in 1..n : k + i - 1 \in Nat /\ 1 <= k + i - 1 /\ k + i - 1 <= z BY <1>1
<1>4. \A i \in 1..n : <<r, k + i - 1>> \in Pairs BY <1>3 DEF Pairs
<1>5. x \in Seq(Pairs) /\ Len(x) = n
  <2>1. x \in [1..n -> Pairs] BY <1>4
  <2>2. n \in Nat OBVIOUS
  <2> QED BY <2>1, <2>2, FunctionIsSeq
<1>6. ASSUME NEW i \in 1..n PROVE IsUnit(s, x[i]) /\ At(s, x[i]) = At(s, <<r, k>>) - 1 + i
  <2>1. IsUnit(s, <<r, k + i - 1>>) BY <1>3, <1>4 DEF IsUnit
  <2>2. At(s, <<r, k + i - 1>>) = p + (k + i - 1) /\ At(s, <<r, k>>) = p + k BY DEF At
  <2>3. p + (k + i - 1) = (p + k) - 1 + i
    <3> HIDE DEF p
    <3> QED BY <1>2
  <2>4. x[i] = <<r, k + i - 1>> OBVIOUS
  <2>5. IsUnit(s, x[i]) BY <2>1, <2>4
  <2>6. At(s, x[i]) = At(s, <<r, k>>) - 1 + i BY <2>2, <2>3, <2>4
  <2> QED BY <2>5, <2>6
<1>7. Run(s, x, At(s, <<r, k>>) - 1) BY <1>5, <1>6 DEF Run
<1> QED BY <1>5, <1>7

LEMMA PointIsUnit ==
  ASSUME NEW s \in Seq(Request), NEW u, IsPoint(s, u), u[1] \in 1..Len(s)
  PROVE  IsUnit(s, u)
BY DEF IsPoint

LEMMA PointUnique ==
  ASSUME NEW s \in Seq(Request), NEW u, NEW v, IsPoint(s, u), IsPoint(s, v), At(s, u) = At(s, v)
  PROVE  u = v
<1>1. Len(s) + 1 \in 1..Len(s) + 1 OBVIOUS
<1>2. CASE u = <<Len(s) + 1, 1>>
  <2>1. At(s, u) = Offsets(s)[Len(s) + 1] + 1 BY <1>2 DEF At
  <2> QED BY <1>1, <1>2, <2>1, PointAt
<1>3. CASE v = <<Len(s) + 1, 1>>
  <2>1. At(s, v) = Offsets(s)[Len(s) + 1] + 1 BY <1>3 DEF At
  <2> QED BY <1>1, <1>3, <2>1, PointAt
<1>4. CASE IsUnit(s, u) /\ IsUnit(s, v)
  <2>1. v[1] \in 1..Len(s) /\ v[2] \in Nat \ {0} /\ v[2] <= SizeIn(s, v[1]) /\ v = <<v[1], v[2]>>
    BY <1>4 DEF IsUnit, Pairs
  <2>2. At(s, u) = Offsets(s)[v[1]] + v[2] BY DEF At
  <2> QED BY <1>4, <2>1, <2>2, UnitAt
<1> QED BY <1>2, <1>3, <1>4 DEF IsPoint

LEMMA NextPoint ==
  ASSUME NEW s \in Seq(Request), NEW u, NEW v, IsUnit(s, u), IsPoint(s, v),
         At(s, v) = At(s, u) + 1
  PROVE  v = SuccIn(s, u)
<1>1. IsPoint(s, SuccIn(s, u)) /\ At(s, SuccIn(s, u)) = At(s, v) BY SuccFacts
<1> QED BY <1>1, PointUnique

LEMMA LineSplit ==
  ASSUME NEW s, NEW q \in Seq(Seq(Pairs)), NEW r \in Seq(Seq(Pairs)), NEW p, NEW e,
         Line(s, q \o r, p, e)
  PROVE  \E c \in Int : Line(s, q, p, c) /\ Line(s, r, c, e)
<1> DEFINE a == Len(q)
           w == q \o r
<1>1. PICK m : Marks(s, w, m) /\ m[1] = p /\ m[Len(w) + 1] = e BY DEF Line
<1>2. /\ a \in Nat /\ w \in Seq(Seq(Pairs)) /\ a \in 0..Len(w) /\ Len(w) \in Nat
      /\ \A i \in 1..a : w[i] = q[i]
  OBVIOUS
<1>3. DropFirst(w, a) = r BY DEF DropFirst
<1>a. a = Len(q) OBVIOUS
<1> HIDE DEF w, a
<1>4. Line(s, r, m[a + 1], e) BY <1>1, <1>2, <1>3, LineDrop
<1>5. /\ m \in [1..Len(w) + 1 -> Int]
      /\ \A j \in 1..Len(w) : Run(s, w[j], m[j]) /\ m[j + 1] = m[j] + Len(w[j])
  BY <1>1 DEF Marks
<1> DEFINE k == [j \in 1..a + 1 |-> m[j]]
<1>6. /\ \A j \in 1..a : j \in 1..Len(w) /\ j \in 1..a + 1 /\ j + 1 \in 1..a + 1
      /\ \A j \in 1..a + 1 : j \in 1..Len(w) + 1
      /\ 1 \in 1..a + 1 /\ a + 1 \in 1..a + 1
  BY <1>2
<1>7. k \in [1..a + 1 -> Int] /\ \A j \in 1..a + 1 : k[j] = m[j] BY <1>5, <1>6
<1> HIDE DEF k
<1>8. Marks(s, q, k)
  <2>1. ASSUME NEW j \in 1..a PROVE Run(s, q[j], k[j]) /\ k[j + 1] = k[j] + Len(q[j])
    <3>1. k[j] = m[j] /\ k[j + 1] = m[j + 1] /\ q[j] = w[j] BY <1>2, <1>6, <1>7
    <3> QED BY <1>5, <1>6, <3>1
  <2> QED BY <1>7, <1>a, <2>1 DEF Marks
<1>9. k[1] = p /\ k[a + 1] = m[a + 1] /\ m[a + 1] \in Int BY <1>1, <1>5, <1>6, <1>7
<1>10. Line(s, q, p, m[a + 1]) BY <1>8, <1>9, <1>a DEF Line
<1> QED BY <1>4, <1>9, <1>10

IsConcat(q, f, n) == f = [i \in 0..n |-> IF i = 0 THEN <<>> ELSE f[i - 1] \o q[i]]

LEMMA ConcatFacts ==
  ASSUME NEW q \in Seq(Seq(Pairs))
  PROVE  \E f : /\ f[0] = <<>> /\ Concat(q) = f[Len(q)]
                /\ \A i \in 1..Len(q) : f[i] = f[i - 1] \o q[i]
<1> DEFINE S == {n \in Nat : n <= Len(q) => \E f : IsConcat(q, f, n)}
<1>1. 0 \in S
  <2> DEFINE f == [i \in 0..0 |-> <<>>]
  <2>1. f = [i \in 0..0 |-> IF i = 0 THEN <<>> ELSE f[i - 1] \o q[i]]
    <3>1. \A i \in 0..0 : i = 0 OBVIOUS
    <3> QED BY <3>1
  <2> HIDE DEF f
  <2>2. IsConcat(q, f, 0) BY <2>1 DEF IsConcat
  <2> QED BY <2>2
<1>2. ASSUME NEW n \in Nat, n \in S PROVE n + 1 \in S
  <2> SUFFICES ASSUME n + 1 <= Len(q) PROVE \E f : IsConcat(q, f, n + 1)
    OBVIOUS
  <2>1. PICK f : IsConcat(q, f, n) BY <1>2
  <2>a. n + 1 \in 0..n + 1 /\ \A i \in 0..n : i \in 0..n + 1 /\ i # n + 1 OBVIOUS
  <2> DEFINE g == [i \in 0..n + 1 |-> IF i = n + 1 THEN f[n] \o q[n + 1] ELSE f[i]]
  <2>2. g[n + 1] = f[n] \o q[n + 1] /\ \A i \in 0..n : g[i] = f[i]
    BY <2>a
  <2>3. \A i \in 0..n : f[i] = IF i = 0 THEN <<>> ELSE f[i - 1] \o q[i] BY <2>1 DEF IsConcat
  <2>4. ASSUME NEW i \in 0..n + 1 PROVE g[i] = IF i = 0 THEN <<>> ELSE g[i - 1] \o q[i]
    <3> HIDE DEF g
    <3>1. CASE i = n + 1
      <4>1. i # 0 /\ i - 1 = n /\ n \in 0..n BY <3>1
      <4> QED BY <2>2, <3>1, <4>1
    <3>2. CASE i = 0 BY <2>2, <2>3, <3>2
    <3>3. CASE i \in 1..n
      <4>1. i # 0 /\ i - 1 \in 0..n /\ i \in 0..n BY <3>3
      <4> QED BY <2>2, <2>3, <4>1
    <3> QED BY <3>1, <3>2, <3>3
  <2>5. DOMAIN g = 0..n + 1 /\ g = [i \in 0..n + 1 |-> g[i]] OBVIOUS
  <2> HIDE DEF g
  <2>6. IsConcat(q, g, n + 1) BY <2>4, <2>5 DEF IsConcat
  <2> QED BY <2>6
<1> HIDE DEF S
<1>3. Len(q) \in S BY <1>1, <1>2, FromZero, SMTT(60)
<1>4. \E f : IsConcat(q, f, Len(q)) BY <1>3 DEF S
<1> DEFINE f == CHOOSE f : IsConcat(q, f, Len(q))
<1>5. IsConcat(q, f, Len(q)) BY <1>4
<1>6. Concat(q) = f[Len(q)] BY DEF Concat, IsConcat
<1> HIDE DEF f
<1>7. \A i \in 0..Len(q) : f[i] = IF i = 0 THEN <<>> ELSE f[i - 1] \o q[i] BY <1>5 DEF IsConcat
<1>8. \A i \in 1..Len(q) : i \in 0..Len(q) /\ i # 0 OBVIOUS
<1>9. 0 \in 0..Len(q) OBVIOUS
<1>10. f[0] = <<>> /\ \A i \in 1..Len(q) : f[i] = f[i - 1] \o q[i] BY <1>7, <1>8, <1>9
<1> QED BY <1>6, <1>10

LEMMA ConcatRun ==
  ASSUME NEW s, NEW q \in Seq(Seq(Pairs)), NEW p, NEW e, Line(s, q, p, e)
  PROVE  Concat(q) \in Seq(Pairs) /\ Run(s, Concat(q), p) /\ p + Len(Concat(q)) = e
<1>1. PICK m : Marks(s, q, m) /\ m[1] = p /\ m[Len(q) + 1] = e BY DEF Line
<1>2. PICK f : /\ f[0] = <<>> /\ Concat(q) = f[Len(q)]
               /\ \A i \in 1..Len(q) : f[i] = f[i - 1] \o q[i]
  BY ConcatFacts
<1>3. /\ m \in [1..Len(q) + 1 -> Int]
      /\ \A j \in 1..Len(q) : Run(s, q[j], m[j]) /\ m[j + 1] = m[j] + Len(q[j])
  BY <1>1 DEF Marks
<1>4. p \in Int BY LineTypes
<1> DEFINE S == {i \in Nat : i <= Len(q) =>
                   f[i] \in Seq(Pairs) /\ Run(s, f[i], p) /\ p + Len(f[i]) = m[i + 1]}
<1>5. 0 \in S
  <2>1. <<>> \in Seq(Pairs) OBVIOUS
  <2>2. Run(s, <<>>, p) BY DEF Run
  <2>3. p + Len(<<>>) = m[0 + 1] BY <1>1, <1>4
  <2> QED BY <1>2, <2>1, <2>2, <2>3
<1>6. ASSUME NEW i \in Nat, i \in S PROVE i + 1 \in S
  <2> SUFFICES ASSUME i + 1 <= Len(q)
               PROVE  /\ f[i + 1] \in Seq(Pairs) /\ Run(s, f[i + 1], p)
                      /\ p + Len(f[i + 1]) = m[(i + 1) + 1]
    OBVIOUS
  <2>1. f[i] \in Seq(Pairs) /\ Run(s, f[i], p) /\ p + Len(f[i]) = m[i + 1] BY <1>6
  <2>2. i + 1 \in 1..Len(q) /\ (i + 1) - 1 = i OBVIOUS
  <2>a. f[i + 1] = f[(i + 1) - 1] \o q[i + 1] BY <1>2, <2>2
  <2>3. f[i + 1] = f[i] \o q[i + 1] /\ q[i + 1] \in Seq(Pairs) BY <2>a, <2>2
  <2>4. Run(s, q[i + 1], m[i + 1]) /\ m[(i + 1) + 1] = m[i + 1] + Len(q[i + 1]) BY <1>3, <2>2
  <2>5. Run(s, q[i + 1], p + Len(f[i])) BY <2>1, <2>4
  <2>6. Run(s, f[i] \o q[i + 1], p) BY <1>4, <2>1, <2>3, <2>5, RunConcat
  <2>7. f[i + 1] \in Seq(Pairs) /\ Len(f[i + 1]) = Len(f[i]) + Len(q[i + 1])
        /\ Len(f[i]) \in Nat /\ Len(q[i + 1]) \in Nat
    BY <2>1, <2>3
  <2> DEFINE c == Len(f[i])
             d == Len(q[i + 1])
  <2>8. p + (c + d) = (p + c) + d
    <3>1. p \in Int /\ c \in Nat /\ d \in Nat BY <1>4, <2>7
    <3> HIDE DEF c, d
    <3> QED BY ONLY <3>1
  <2> QED BY <2>1, <2>3, <2>4, <2>6, <2>7, <2>8
<1> HIDE DEF S
<1>7. Len(q) \in S BY <1>5, <1>6, FromZero, SMTT(60)
<1>8. Len(q) \in Nat OBVIOUS
<1>9. /\ f[Len(q)] \in Seq(Pairs) /\ Run(s, f[Len(q)], p)
      /\ p + Len(f[Len(q)]) = m[Len(q) + 1]
  BY <1>7, <1>8 DEF S
<1> QED BY <1>1, <1>2, <1>9

(* A run of units up to a point is what NothingLost says of it. *)
LEMMA RunIsLine ==
  ASSUME NEW s \in Seq(Request), NEW w \in Seq(Pairs), NEW th \in 0..Len(s), NEW nx,
         IsPoint(s, nx), Run(s, w, Offsets(s)[th + 1]),
         Offsets(s)[th + 1] + Len(w) = At(s, nx) - 1
  PROVE  /\ Append(w, nx)[1] = <<th + 1, 1>>
         /\ \A i \in 1..Len(w) : Append(w, nx)[i + 1] = SuccIn(s, w[i])
<1> DEFINE p == Offsets(s)[th + 1]
           n == Len(w)
           t == Append(w, nx)
<1>1. p \in Nat BY BaseInt
<1>2. nx \in Pairs /\ At(s, nx) \in Nat BY AtFacts
<1>3. n \in Nat /\ t[n + 1] = nx /\ \A i \in 1..n : t[i] = w[i] BY <1>2, AppendFacts
<1>4. \A i \in 1..n : IsUnit(s, w[i]) /\ At(s, w[i]) = p + i BY DEF Run
<1>5. p + n = At(s, nx) - 1 OBVIOUS
<1>6. th + 1 \in 1..Len(s) + 1 OBVIOUS
<1> HIDE DEF t, n
<1>7. ASSUME NEW i \in 1..n + 1 PROVE IsPoint(s, t[i]) /\ At(s, t[i]) = p + i
  <2>1. CASE i = n + 1
    <3>1. At(s, nx) = p + (n + 1)
      <4> HIDE DEF p
      <4> QED BY <1>1, <1>2, <1>3, <1>5
    <3> QED BY <1>3, <2>1, <3>1
  <2>2. CASE i \in 1..n BY <1>3, <1>4, <2>2 DEF IsPoint
  <2> QED BY <1>3, <2>1, <2>2
<1>8. t[1] = <<th + 1, 1>>
  <2>1. 1 \in 1..n + 1 BY <1>3
  <2>2. IsPoint(s, t[1]) /\ At(s, t[1]) = p + 1 BY <1>7, <2>1
  <2> QED BY <1>6, <2>2, PointAt
<1>9. ASSUME NEW i \in 1..n PROVE t[i + 1] = SuccIn(s, w[i])
  <2>1. i + 1 \in 1..n + 1 BY <1>3
  <2>2. IsPoint(s, t[i + 1]) /\ At(s, t[i + 1]) = p + (i + 1) BY <1>7, <2>1
  <2>3. IsUnit(s, w[i]) /\ At(s, w[i]) = p + i BY <1>4
  <2>4. p + (i + 1) = (p + i) + 1
    <3> HIDE DEF p
    <3> QED BY <1>1
  <2> QED BY <2>2, <2>3, <2>4, NextPoint
<1> QED BY <1>8, <1>9 DEF t, n

(* What an answer adds to those before it, corked or written. *)
LEMMA CorkFacts ==
  ASSUME NEW a \in Seq(Responses), NEW b \in Seq(Responses), NEW x \in Responses
  PROVE  /\ a \o b \in Seq(Responses)
         /\ a \o Append(b, x) = Append(a \o b, x)
         /\ (a \o b) \o Append(<<>>, x) = Append(a \o b, x)
         /\ Append(a \o b, x) \o <<>> = Append(a \o b, x)
         /\ a \o <<>> = a
         /\ <<>> \in Seq(Responses) /\ Append(b, x) \in Seq(Responses)
         /\ Append(<<>>, x) \in Seq(Responses)
OBVIOUS

-----------------------------------------------------------------------------
(* The invariant.  While drain runs, what is in the cork is an answer too;  *)
(* Through is the last request whose place in the buffer is settled, and    *)
(* Mark the units buffered up to its end.                                   *)

Answers == IF pc \in {"drain", "exit"} THEN out \o frame.cork ELSE out
Through == IF conn.awaiting THEN pend.req ELSE Handled(Answers)
Mark == IF conn.awaiting THEN pend.consume ELSE frame.cursor

(* A connection that is closing reads, and answers, nothing more. *)
Tracked == ~conn.closing /\ ~(pc = "exit" /\ ~frame.keep_alive)

Incoming ==
  /\ [tls |-> tls, script |-> script] \in Clients
  /\ tls \in BOOLEAN /\ script \in Seq(Request) /\ IsPoint(script, next)
  /\ net \in Seq(Seq(Pairs)) /\ tlsin \in Seq(Seq(Pairs))
  /\ \A j \in 1..Len(net) : Len(net[j]) <= IF tls THEN InSize ELSE 1
  /\ \A j \in 1..Len(tlsin) : Len(tlsin[j]) <= InSize
  /\ ~tls => tlsin = <<>>
  /\ EndsLast(tlsin \o net)

Buffered ==
  /\ buf \in Seq(Pairs) /\ overflow \in Nat
  /\ Len(buf) <= activeLen /\ frame.cursor <= Len(buf)

Frames == [cursor : Nat, cork : Seq(Responses), keep_alive : BOOLEAN,
           ret : {"loop", "retry", "closed"}, space : Int]

Server ==
  /\ conn \in [awaiting : BOOLEAN, reading : BOOLEAN, closing : BOOLEAN]
  /\ pend \in [consume : Nat, keep_alive : BOOLEAN, req : Nat] /\ pend.req <= Len(script)
  /\ job \in {"none", "async", "stream", "chunks", "last"}
  /\ frame \in Frames
  /\ pc \in {"loop", "tls", "drain", "exit", "retry"}
  /\ out \in Seq(Responses) /\ dispatched \in Seq(Nat)

(* Where the thread can be, and what it returns to. *)
Phase ==
  /\ conn.closing \/ conn.awaiting => pc = "loop" /\ ~conn.reading
  /\ pc \in {"tls", "retry"} => tls
  /\ pc \in {"drain", "exit"} /\ frame.ret # "loop" => tls
  /\ ~conn.awaiting => job = "none"
  /\ ~conn.awaiting /\ pc \notin {"drain", "exit"} => frame.cursor = 0

(* How far the answer to the awaited request has come. *)
Progress ==
  conn.awaiting /\ ~conn.closing =>
    /\ \/ job \in {"async", "stream"} /\ Whole(out) /\ pend.req = Handled(out) + 1
       \/ /\ job \in {"chunks", "last"} /\ out # <<>>
          /\ out[Len(out)].req = pend.req /\ out[Len(out)].part \in {"head", "chunk"}
    /\ pend.consume > 0 /\ pend.req \in 1..Len(script)
    /\ job = "async" \/ script[pend.req].mode = "stream"

Order ==
  /\ Ordered(Answers)
  /\ ~conn.awaiting => Whole(Answers)
  /\ Progress
  /\ AwaitedIntact
  /\ DispatchOnce
  /\ \A i \in 1..Len(dispatched) : dispatched[i] <= Through

Place ==
  Tracked => Placed(script, buf, tlsin \o net, overflow, Through, Mark, next)

(* There is room for what is read next, and no record but the client's end  *)
(* waits for a read: the connection that reads on after a stream has left   *)
(* them waiting, and a stream is the last request then.                     *)
StreamLast == \A r \in 1..Len(script) : script[r].mode = "stream" => r = Len(script)
Space ==
  /\ pc = "exit" /\ frame.keep_alive => frame.cursor > 0 \/ Room > 0
  /\ pc = "loop" /\ conn.reading /\ ~tls => Room > 0
  /\ tls /\ StreamLast
       /\ ((pc \in {"drain", "exit"} /\ frame.ret = "loop") \/ (pc = "loop" /\ conn.reading))
         => Idle(tlsin)

IInv == Incoming /\ Buffered /\ Server /\ Phase /\ Order /\ Place /\ Space

(* What a client sends over TLS fits the inline buffer, but for its last    *)
(* request: one that spills over takes the start of the next with it (the   *)
(* run https_overflow).                                                     *)
NoSpill ==
  \A c \in Clients : c.tls =>
    \A r \in 1..Len(c.script) :
      c.script[r].body <= MaxBody => SizeIn(c.script, r) <= BufSize \/ r = Len(c.script)

-----------------------------------------------------------------------------
(* Facts of a state. *)

LEMMA SizesPositive == BufSize \in Nat \ {0} /\ InSize \in Nat \ {0} /\ InSize <= BufSize
BY SizesAssumption

LEMMA LengthFacts ==
  ASSUME IInv
  PROVE  /\ Len(buf) \in Nat /\ activeLen \in Nat \ {0} /\ Room \in Nat
         /\ Room = activeLen - Len(buf) /\ frame.cursor \in 0..Len(buf)
<1>1. Len(buf) \in Nat BY DEF IInv, Buffered
<1>2. activeLen \in Nat \ {0} BY SizesPositive DEF IInv, Buffered, activeLen
<1>3. frame.cursor \in Nat BY DEF IInv, Server, Frames
<1>4. Len(buf) <= activeLen /\ frame.cursor <= Len(buf) BY DEF IInv, Buffered
<1>5. Room = activeLen - Len(buf) BY DEF Room
<1> DEFINE n == Len(buf)
           a == activeLen
<1> HIDE DEF n, a
<1>6. n \in Nat /\ a \in Nat /\ n <= a => a - n \in Nat OBVIOUS
<1> QED BY <1>1, <1>2, <1>3, <1>4, <1>5, <1>6 DEF n, a

(* The requests drain meets. *)
LEMMA DrainFacts ==
  ASSUME IInv, pc = "drain"
  PROVE  /\ ~conn.awaiting /\ ~conn.closing /\ Tracked
         /\ Answers = out \o frame.cork /\ Answers \in Seq(Responses)
         /\ Through = Handled(Answers) /\ Ordered(Answers) /\ Whole(Answers)
         /\ Mark = frame.cursor
         /\ Placed(script, buf, tlsin \o net, overflow, Through, frame.cursor, next)
<1>1. ~conn.awaiting /\ ~conn.closing BY DEF IInv, Phase
<1>2. Tracked BY <1>1 DEF Tracked
<1>3. Answers = out \o frame.cork BY DEF Answers
<1>4. out \in Seq(Responses) /\ frame.cork \in Seq(Responses) BY DEF IInv, Server, Frames
<1>5. Answers \in Seq(Responses) BY <1>3, <1>4
<1>6. Through = Handled(Answers) /\ Mark = frame.cursor BY <1>1 DEF Through, Mark
<1>7. Ordered(Answers) /\ Whole(Answers) BY <1>1 DEF IInv, Order
<1>8. Placed(script, buf, tlsin \o net, overflow, Through, frame.cursor, next)
  BY <1>2, <1>6 DEF IInv, Place
<1> QED BY <1>1, <1>2, <1>3, <1>5, <1>6, <1>7, <1>8

LEMMA HeadFound ==
  ASSUME IInv, Draining
  PROVE  /\ Through \in Nat /\ Through + 1 \in 1..Len(script)
         /\ buf[frame.cursor + 1][1] = Through + 1
         /\ HeadEnds = {} => Len(buf) - frame.cursor < script[Through + 1].head
         /\ HeadEnds # {} =>
              /\ HeadEnd = frame.cursor + script[Through + 1].head /\ Req = Through + 1
              /\ Total = frame.cursor + SizeIn(script, Through + 1)
              /\ RequestLen = SizeIn(script, Through + 1)
              /\ Parses <=> script[Through + 1].mode # "bad"
              /\ Len(buf) - frame.cursor >= script[Through + 1].head
<1> DEFINE th == Through
           mk == frame.cursor
           n == Len(buf)
           h == script[th + 1].head
           z == SizeIn(script, th + 1)
<1>1. pc = "drain" /\ mk < n BY DEF Draining
<1>2. Placed(script, buf, tlsin \o net, overflow, th, mk, next) BY <1>1, DrainFacts
<1>3. th \in 0..Len(script) /\ mk \in 0..n /\ Run(script, buf, Offsets(script)[th + 1] - mk)
  BY <1>2 DEF Placed
<1>4. script \in Seq(Request) /\ buf \in Seq(Pairs) /\ n \in Nat BY DEF IInv, Incoming, Buffered
<1>5. /\ th < Len(script)
      /\ \A k \in 1..n - mk : k <= z => buf[mk + k] = <<th + 1, k>>
  BY <1>1, <1>3, <1>4, NextInBuffer
<1>6. th \in Nat /\ th + 1 \in 1..Len(script) BY <1>3, <1>5
<1>7. h \in Nat \ {0} /\ script[th + 1].body \in Nat /\ z \in Nat \ {0} /\ h <= z
      /\ z = h + script[th + 1].body
  BY <1>4, <1>6, SizeFacts DEF SizeIn
<1>8. HeadEnds = {p \in (mk + 1)..n : buf[p][2] = script[buf[p][1]].head} BY DEF HeadEnds
<1>n. n = Len(buf) /\ mk = frame.cursor OBVIOUS
<1> HIDE DEF th, mk, n, h, z
<1>9. ASSUME NEW p \in (mk + 1)..n, p <= mk + z
      PROVE  buf[p][1] = th + 1 /\ buf[p][2] = p - mk
  <2>1. p - mk \in 1..n - mk /\ p - mk <= z /\ mk + (p - mk) = p BY <1>1, <1>3, <1>4, <1>7, <1>9, SMTT(60)
  <2>2. buf[mk + (p - mk)] = <<th + 1, p - mk>> BY <1>5, <2>1
  <2> QED BY <2>1, <2>2
<1>10. ASSUME NEW p \in (mk + 1)..n, p < mk + h PROVE p \notin HeadEnds
  <2>1. p <= mk + z BY <1>3, <1>4, <1>7, <1>10, SMTT(60)
  <2>2. buf[p][1] = th + 1 /\ buf[p][2] = p - mk BY <1>9, <2>1
  <2>3. p - mk # h BY <1>3, <1>4, <1>7, <1>10
  <2> QED BY <1>8, <2>2, <2>3 DEF h
<1>11. buf[mk + 1][1] = th + 1
  <2>1. mk + 1 \in (mk + 1)..n /\ mk + 1 <= mk + z BY <1>1, <1>3, <1>4, <1>7, SMTT(60)
  <2> QED BY <1>9, <2>1
<1>12. ASSUME mk + h <= n PROVE mk + h \in HeadEnds
  <2>1. mk + h \in (mk + 1)..n /\ mk + h <= mk + z /\ (mk + h) - mk = h
    BY <1>3, <1>4, <1>7, <1>12
  <2>2. buf[mk + h][1] = th + 1 /\ buf[mk + h][2] = h BY <1>9, <2>1
  <2> QED BY <1>8, <2>1, <2>2 DEF h
<1>13. ASSUME HeadEnds = {} PROVE n - mk < h
  BY <1>3, <1>4, <1>7, <1>12, <1>13
<1>14. ASSUME HeadEnds # {}
       PROVE  /\ n - mk >= h /\ HeadEnd = mk + h /\ Req = th + 1 /\ Total = mk + z
              /\ RequestLen = z /\ (Parses <=> script[th + 1].mode # "bad")
  <2>1. \A p \in HeadEnds : p \in (mk + 1)..n /\ mk + h <= p
    <3>1. \A p \in HeadEnds : p \in (mk + 1)..n BY <1>8
    <3>2. \A p \in HeadEnds : ~(p < mk + h) BY <1>10, <3>1
    <3>3. mk \in Nat BY <1>3, <1>4
    <3> QED BY <1>7, <3>1, <3>2, <3>3
  <2>2. mk + h <= n
    <3>1. PICK p \in HeadEnds : TRUE BY <1>14
    <3>2. p \in (mk + 1)..n /\ mk + h <= p BY <2>1, <3>1
    <3> QED BY <1>3, <1>4, <1>7, <3>2
  <2>3. mk + h \in HeadEnds BY <1>12, <2>2
  <2>4. \A q \in HeadEnds : mk + h <= q BY <2>1
  <2>5. HeadEnd = mk + h
    <3>1. HeadEnd \in HeadEnds /\ \A q \in HeadEnds : HeadEnd <= q
      BY <2>3, <2>4 DEF HeadEnd
    <3>2. HeadEnd \in (mk + 1)..n /\ mk + h <= HeadEnd /\ HeadEnd <= mk + h BY <2>1, <2>3, <3>1
    <3>3. mk \in Nat BY <1>3, <1>4
    <3> QED BY <1>4, <1>7, <3>2, <3>3, SMTT(60)
  <2>6. Req = th + 1
    <3>1. mk + h \in (mk + 1)..n /\ mk + h <= mk + z BY <1>3, <1>4, <1>7, <2>2
    <3> QED BY <1>9, <2>5, <3>1 DEF Req
  <2>7. Total = mk + z
    <3>1. Total = (mk + h) + script[th + 1].body BY <2>5, <2>6 DEF Total
    <3> QED BY <1>3, <1>4, <1>7, <3>1, SMTT(60)
  <2>8. RequestLen = z BY <1>3, <1>4, <1>7, <1>n, <2>7 DEF RequestLen
  <2>9. HeadEnd - frame.cursor = h BY <1>3, <1>4, <1>7, <1>n, <2>5
  <2>10. Parses <=> script[th + 1].mode # "bad" BY <2>6, <2>9 DEF Parses, h
  <2> QED BY <1>3, <1>4, <1>7, <2>2, <2>5, <2>6, <2>7, <2>8, <2>10
<1> QED BY <1>6, <1>11, <1>13, <1>14 DEF th, mk, n, h, z

-----------------------------------------------------------------------------
(* The initial state, and the steps of the client. *)

LEMMA InitInv == Init => IInv
<1> SUFFICES ASSUME Init PROVE IInv
  OBVIOUS
<1>1. PICK c \in Clients : tls = c.tls /\ script = c.script BY DEF Init
<1>2. /\ next = <<1, 1>> /\ net = <<>> /\ buf = <<>> /\ overflow = 0 /\ tlsin = <<>>
      /\ conn = [awaiting |-> FALSE, reading |-> TRUE, closing |-> FALSE]
      /\ pend = [consume |-> 0, keep_alive |-> TRUE, req |-> 0]
      /\ job = "none" /\ frame = NewFrame("loop") /\ pc = "loop" /\ out = <<>>
      /\ dispatched = <<>>
  BY DEF Init
<1>3. c \in [tls : BOOLEAN, script : Seq(Request)] BY <1>1, ClientsAssumption
<1>4. script \in Seq(Request) /\ tls \in BOOLEAN /\ Len(script) \in Nat BY <1>1, <1>3
<1>5. [tls |-> tls, script |-> script] \in Clients
  <2>1. c = [tls |-> tls, script |-> script] BY <1>1, <1>3
  <2> QED BY <1>1, <2>1
<1>6. IsPoint(script, next)
  <2>1. CASE Len(script) = 0 BY <1>2, <2>1 DEF IsPoint
  <2>2. CASE Len(script) # 0
    <3>1. 1 \in 1..Len(script) BY <1>4, <2>2
    <3>2. SizeIn(script, 1) \in Nat \ {0} BY <1>4, <3>1, SizeFacts
    <3> QED BY <1>2, <3>1, <3>2 DEF IsPoint, IsUnit, Pairs
  <2> QED BY <2>1, <2>2
<1>7. /\ <<>> \in Seq(Seq(Pairs)) /\ <<>> \in Seq(Pairs) /\ <<>> \in Seq(Responses)
      /\ <<>> \in Seq(Nat)
  OBVIOUS
<1>8. Incoming
  <2>1. Len(tlsin \o net) = 0 BY <1>2
  <2>2. EndsLast(tlsin \o net)
    <3> DEFINE n == Len(tlsin \o net)
    <3>1. n = 0 BY <2>1
    <3>2. 1..n - 1 = {} BY <3>1
    <3> QED BY <3>2 DEF EndsLast
  <2> QED BY <1>2, <1>4, <1>5, <1>6, <1>7, <2>2 DEF Incoming
<1>9. frame = [cursor |-> 0, cork |-> <<>>, keep_alive |-> TRUE, ret |-> "loop", space |-> 0]
  BY <1>2 DEF NewFrame
<1>10. Buffered BY <1>2, <1>7, <1>9, SizesPositive DEF Buffered, activeLen
<1>11. Server
  <2>1. conn \in [awaiting : BOOLEAN, reading : BOOLEAN, closing : BOOLEAN] BY <1>2
  <2>2. pend \in [consume : Nat, keep_alive : BOOLEAN, req : Nat] /\ pend.req <= Len(script)
    BY <1>2, <1>4
  <2>3. frame \in Frames BY <1>7, <1>9 DEF Frames
  <2> QED BY <1>2, <1>7, <2>1, <2>2, <2>3 DEF Server
<1>12. Phase BY <1>2, <1>9 DEF Phase
<1>13. Answers = <<>> /\ Through = 0 /\ Mark = 0
  BY <1>2, <1>9 DEF Answers, Through, Mark, Handled
<1>14. Order BY <1>2, <1>13 DEF Order, Ordered, Whole, Progress, AwaitedIntact, DispatchOnce
<1>15. Place
  <2>1. Offsets(script)[1] = 0 BY <1>4, OffsetsFacts
  <2>2. At(script, next) = 1 BY <1>2, <2>1 DEF At
  <2>3. Run(script, buf, 0) BY <1>2 DEF Run
  <2>4. tlsin \o net = <<>> BY <1>2
  <2>5. Line(script, <<>>, 0, 0)
    <3> DEFINE m == [j \in 1..1 |-> 0]
    <3>1. m \in [1..Len(<<>>) + 1 -> Int] /\ m[1] = 0 OBVIOUS
    <3>2. Marks(script, <<>>, m) BY <3>1 DEF Marks
    <3> QED BY <3>1, <3>2 DEF Line
  <2>6. Placed(script, buf, tlsin \o net, overflow, 0, 0, next)
    BY <1>2, <1>4, <2>1, <2>2, <2>3, <2>4, <2>5 DEF Placed
  <2> QED BY <1>2, <1>13, <2>6 DEF Place
<1>16. Space BY <1>2, <1>9, SizesPositive DEF Space, Room, activeLen, Idle
<1> QED BY <1>8, <1>10, <1>11, <1>12, <1>14, <1>15, <1>16 DEF IInv

(* What a step of the client leaves alone. *)
server == <<tls, script, buf, overflow, tlsin, conn, pend, job, frame, pc, reply>>

LEMMA Sent ==
  ASSUME IInv, UNCHANGED server,
         NEW x \in Seq(Pairs), net' = Append(net, x), Len(x) <= IF tls THEN InSize ELSE 1,
         ~Ended, IsPoint(script, next'), Run(script, x, At(script, next) - 1),
         At(script, next') = At(script, next) + Len(x)
  PROVE  IInv'
<1>1. /\ UNCHANGED <<tls, script, buf, overflow, tlsin, conn, pend, job, frame, pc, out, dispatched>>
  BY DEF server, reply
<1>2. /\ net \in Seq(Seq(Pairs)) /\ tlsin \in Seq(Seq(Pairs)) /\ script \in Seq(Request)
      /\ IsPoint(script, next)
  BY DEF IInv, Incoming
<1>3. /\ net' \in Seq(Seq(Pairs)) /\ Len(net') = Len(net) + 1 /\ net'[Len(net) + 1] = x
      /\ Len(net) \in Nat /\ \A j \in 1..Len(net) : net'[j] = net[j]
  BY <1>2, AppendFacts
<1>4. \A j \in 1..Len(net') : Len(net'[j]) <= IF tls THEN InSize ELSE 1
  <2>1. \A j \in 1..Len(net) : Len(net[j]) <= IF tls THEN InSize ELSE 1 BY DEF IInv, Incoming
  <2>2. \A j \in 1..Len(net') : j \in 1..Len(net) \/ j = Len(net) + 1 BY <1>3
  <2> QED BY <1>3, <2>1, <2>2
<1>a. tlsin \o net \in Seq(Seq(Pairs)) /\ tlsin \o net' = Append(tlsin \o net, x)
  BY <1>2, SMTT(60)
<1>b. EndsLast(tlsin \o net')
  <2> DEFINE q == tlsin \o net
  <2>1. EndsLast(q) /\ q \in Seq(Seq(Pairs)) /\ tlsin \o net' = Append(q, x)
    BY <1>a DEF IInv, Incoming
  <2>2. q # <<>> => q[Len(q)] # <<>> BY DEF Ended
  <2> HIDE DEF q
  <2> QED BY <2>1, <2>2, EndsAppend
<1>5. Incoming' BY <1>1, <1>3, <1>4, <1>b DEF IInv, Incoming
<1>6. Buffered' BY <1>1 DEF IInv, Buffered, activeLen
<1>7. Server' BY <1>1 DEF IInv, Server
<1>8. Phase' BY <1>1 DEF IInv, Phase
<1>9. Answers' = Answers /\ Mark' = Mark BY <1>1 DEF Answers, Mark
<1>10. Through' = Through BY <1>1, <1>9 DEF Through
<1>11. Order' BY <1>1, <1>9, <1>10 DEF IInv, Order, Progress, AwaitedIntact, DispatchOnce, Units, Size
<1>12. Place'
  <2> SUFFICES ASSUME Tracked'
               PROVE  Placed(script, buf, tlsin \o net', overflow, Through, Mark, next')
    BY <1>1, <1>9, <1>10 DEF Place
  <2>1. Tracked BY <1>1 DEF Tracked
  <2>2. Placed(script, buf, tlsin \o net, overflow, Through, Mark, next)
    BY <2>1 DEF IInv, Place
  <2>4. At(script, next) \in Nat BY <1>2, AtFacts
  <2> QED BY <1>2, <1>a, <2>2, <2>4, PlacedSend
<1>13. Space' BY <1>1 DEF IInv, Space, Room, activeLen, StreamLast
<1> QED BY <1>5, <1>6, <1>7, <1>8, <1>11, <1>12, <1>13 DEF IInv

LEMMA ClientFacts ==
  ASSUME IInv
  PROVE  /\ script \in Seq(Request) /\ IsPoint(script, next) /\ At(script, next) \in Nat
         /\ \A r \in 1..Len(script) : Size(r) = SizeIn(script, r) /\ SizeIn(script, r) \in Nat \ {0}
         /\ Sendable(next) => /\ IsUnit(script, next) /\ next = <<next[1], next[2]>>
                              /\ next[1] \in 1..Len(script) /\ next[2] \in Nat \ {0}
                              /\ next[2] <= SizeIn(script, next[1])
<1>1. script \in Seq(Request) /\ IsPoint(script, next) BY DEF IInv, Incoming
<1>2. At(script, next) \in Nat BY <1>1, AtFacts
<1>3. \A r \in 1..Len(script) : Size(r) = SizeIn(script, r) /\ SizeIn(script, r) \in Nat \ {0}
  BY <1>1, SizeFacts DEF Size, SizeIn
<1>4. Sendable(next) => IsUnit(script, next) BY <1>1, PointIsUnit DEF Sendable
<1> QED BY <1>1, <1>2, <1>3, <1>4 DEF IsUnit, Pairs

LEMMA ClientSendKeeps == IInv /\ ClientSend => IInv'
<1> SUFFICES ASSUME IInv, ClientSend PROVE IInv'
  OBVIOUS
<1> DEFINE r == next[1]
           k == next[2]
<1>1. PICK n \in 1..Min2(Size(r) - k + 1, IF tls THEN InSize ELSE 1) :
        /\ net' = Append(net, [i \in 1..n |-> <<r, k + i - 1>>])
        /\ next' = Succ(<<r, k + n - 1>>)
  BY DEF ClientSend
<1>2. Sendable(next) /\ ~Ended /\ UNCHANGED server BY DEF ClientSend, server
<1>3. /\ script \in Seq(Request) /\ IsUnit(script, next) /\ next = <<r, k>>
      /\ r \in 1..Len(script) /\ k \in Nat \ {0} /\ k <= SizeIn(script, r)
      /\ Size(r) = SizeIn(script, r) /\ SizeIn(script, r) \in Nat /\ At(script, next) \in Nat
  BY <1>2, ClientFacts
<1> DEFINE x == [i \in 1..n |-> <<r, k + i - 1>>]
           z == SizeIn(script, r)
<1> HIDE DEF r, k
<1>4. n \in Nat \ {0} /\ k + n <= z + 1 /\ n <= IF tls THEN InSize ELSE 1
  <2> DEFINE c == IF tls THEN InSize ELSE 1
  <2>1. c \in Nat BY SizesPositive
  <2>2. z - k + 1 \in Int /\ Size(r) - k + 1 = z - k + 1 BY <1>3
  <2> HIDE DEF c, z
  <2>3. n \in 1..Min2(z - k + 1, c) BY <2>2 DEF c
  <2>4. z \in Nat BY <1>3 DEF z
  <2>5. n \in Nat \ {0} /\ n <= z - k + 1 /\ n <= c BY <1>3, <2>1, <2>2, <2>3 DEF Min2
  <2>6. k + n <= z + 1 BY <1>3, <2>4, <2>5
  <2> QED BY <2>5, <2>6 DEF c, z
<1>5. x \in Seq(Pairs) /\ Len(x) = n /\ Run(script, x, At(script, next) - 1)
  <2>1. k + n <= SizeIn(script, r) + 1 BY <1>4
  <2>2. x \in Seq(Pairs) /\ Len(x) = n /\ Run(script, x, At(script, <<r, k>>) - 1)
    <3>1. x = [i \in 1..n |-> x[i]] /\ \A i \in 1..n : x[i] = <<r, k + i - 1>> OBVIOUS
    <3> HIDE DEF x
    <3> QED BY <1>3, <1>4, <2>1, <3>1, SegmentRun
  <2> QED BY <1>3, <2>2
<1> HIDE DEF x
<1> DEFINE u == <<r, k + n - 1>>
<1>6. k + n - 1 \in Nat /\ 1 <= k + n - 1 /\ k + n - 1 <= z BY <1>3, <1>4
<1>7. IsUnit(script, u) BY <1>3, <1>6 DEF IsUnit, Pairs
<1>8. next' = SuccIn(script, u) BY <1>1 DEF Succ, SuccIn, Size, SizeIn
<1>9. At(script, u) + 1 = At(script, next) + n
  <2> DEFINE p == Offsets(script)[r]
  <2>1. p \in Nat
    <3>1. r \in 1..Len(script) + 1 BY <1>3
    <3> QED BY <1>3, <3>1, OffsetsFacts
  <2>2. At(script, u) = p + (k + n - 1) /\ At(script, next) = p + k BY <1>3 DEF At
  <2> HIDE DEF p, u
  <2> QED BY <1>3, <1>4, <2>1, <2>2
<1>10. IsPoint(script, next') /\ At(script, next') = At(script, next) + Len(x)
  BY <1>3, <1>5, <1>7, <1>8, <1>9, SuccFacts
<1>11. net' = Append(net, x) /\ Len(x) <= IF tls THEN InSize ELSE 1 BY <1>1, <1>4, <1>5 DEF x
<1> QED BY <1>2, <1>5, <1>10, <1>11, Sent

LEMMA ClientEndKeeps == IInv /\ ClientEnd => IInv'
<1> SUFFICES ASSUME IInv, ClientEnd PROVE IInv'
  OBVIOUS
<1>1. net' = Append(net, <<>>) /\ next' = next /\ ~Ended /\ UNCHANGED server
  BY DEF ClientEnd, client, server
<1>2. <<>> \in Seq(Pairs) /\ Len(<<>>) = 0 OBVIOUS
<1>3. 0 <= IF tls THEN InSize ELSE 1 BY SizesPositive
<1>4. IsPoint(script, next) /\ At(script, next) \in Nat BY ClientFacts
<1>5. Run(script, <<>>, At(script, next) - 1) BY DEF Run
<1>6. At(script, next') = At(script, next) + Len(<<>>) /\ IsPoint(script, next')
  BY <1>1, <1>2, <1>4
<1> QED BY <1>1, <1>2, <1>3, <1>5, <1>6, Sent

LEMMA ClientSendAcrossKeeps == IInv /\ ClientSendAcross => IInv'
<1> SUFFICES ASSUME IInv, ClientSendAcross PROVE IInv'
  OBVIOUS
<1> DEFINE r == next[1]
           k == next[2]
           z == SizeIn(script, r)
           y == SizeIn(script, r + 1)
           a == [i \in 1..(Size(r) - k + 1) |-> <<r, k + i - 1>>]
           b == Units(r + 1)
           n == z - k + 1
           p == Offsets(script)[r]
<1>1. /\ tls /\ Sendable(next) /\ Sendable(<<r + 1, 1>>) /\ Len(a \o b) <= InSize
      /\ net' = Append(net, a \o b) /\ next' = <<r + 2, 1>> /\ ~Ended /\ UNCHANGED server
  BY DEF ClientSendAcross, server
<1>2. /\ script \in Seq(Request) /\ IsUnit(script, next) /\ next = <<r, k>>
      /\ r \in 1..Len(script) /\ k \in Nat \ {0} /\ k <= z
      /\ Size(r) = z /\ z \in Nat \ {0} /\ At(script, next) \in Nat
  BY <1>1, ClientFacts
<1>3. r + 1 \in 1..Len(script) BY <1>1, <1>2 DEF Sendable
<1>4. Size(r + 1) = y /\ y \in Nat \ {0} BY <1>3, ClientFacts
<1>5. /\ p \in Nat /\ Offsets(script)[r + 1] = p + z
      /\ Offsets(script)[(r + 1) + 1] = (p + z) + y
  <2>1. r \in 1..Len(script) + 1 BY <1>2
  <2>2. p \in Nat BY <1>2, <2>1, OffsetsFacts
  <2>3. Offsets(script)[r + 1] = p + z BY <1>2, OffsetsFacts
  <2>4. Offsets(script)[(r + 1) + 1] = Offsets(script)[r + 1] + y BY <1>2, <1>3, OffsetsFacts
  <2> QED BY <2>2, <2>3, <2>4
<1>6. At(script, next) = p + k /\ At(script, <<r + 1, 1>>) = (p + z) + 1
  <2>1. At(script, <<r, k>>) = p + k BY DEF At
  <2>2. At(script, <<r + 1, 1>>) = Offsets(script)[r + 1] + 1 BY DEF At
  <2> QED BY <1>2, <1>5, <2>1, <2>2
<1>7. a = [i \in 1..n |-> a[i]] /\ \A i \in 1..n : a[i] = <<r, k + i - 1>> BY <1>2
<1>8. b = [i \in 1..y |-> b[i]] /\ \A i \in 1..y : b[i] = <<r + 1, i>> BY <1>4 DEF Units
<1> HIDE DEF r, k, z, y, a, b, p
<1>9. n \in Nat \ {0} /\ k + n <= z + 1 BY <1>2
<1>10. a \in Seq(Pairs) /\ Len(a) = n /\ Run(script, a, At(script, next) - 1)
  <2>1. k + n <= SizeIn(script, r) + 1 BY <1>9 DEF z
  <2> HIDE DEF n
  <2>2. a \in Seq(Pairs) /\ Len(a) = n /\ Run(script, a, At(script, <<r, k>>) - 1)
    BY <1>2, <1>7, <1>9, <2>1, SegmentRun
  <2> QED BY <1>2, <2>2
<1>11. b \in Seq(Pairs) /\ Len(b) = y /\ Run(script, b, At(script, <<r + 1, 1>>) - 1)
  <2>1. 1 + y <= SizeIn(script, r + 1) + 1 BY <1>4 DEF y
  <2>2. \A i \in 1..y : 1 + i - 1 = i BY <1>4
  <2>3. \A i \in 1..y : b[i] = <<r + 1, 1 + i - 1>> BY <1>8, <2>2
  <2>4. 1 \in Nat \ {0} OBVIOUS
  <2> DEFINE c == r + 1
             one == 1
  <2>5. /\ c \in 1..Len(script) /\ one \in Nat \ {0} /\ one + y <= SizeIn(script, c) + 1
        /\ \A i \in 1..y : b[i] = <<c, one + i - 1>>
    BY <1>3, <2>1, <2>3
  <2>6. b = [i \in 1..y |-> b[i]] BY <1>8
  <2> HIDE DEF c, one
  <2>7. b \in Seq(Pairs) /\ Len(b) = y /\ Run(script, b, At(script, <<c, one>>) - 1)
    <3>1. script \in Seq(Request) /\ y \in Nat \ {0} BY <1>2, <1>4
    <3> QED BY <2>5, <2>6, <3>1, SegmentRun
  <2> QED BY <2>7 DEF c, one
<1>12. At(script, <<r + 1, 1>>) - 1 = At(script, next) - 1 + Len(a)
       /\ At(script, next) - 1 \in Int
  BY <1>2, <1>5, <1>6, <1>10
<1>13. Run(script, a \o b, At(script, next) - 1)
  BY <1>10, <1>11, <1>12, RunConcat
<1>14. a \o b \in Seq(Pairs) /\ Len(a \o b) = n + y BY <1>4, <1>9, <1>10, <1>11
<1> DEFINE u == <<r + 1, y>>
<1>15. IsUnit(script, u)
  <2>1. u \in Pairs /\ u[1] = r + 1 /\ u[2] = y BY <1>3, <1>4 DEF Pairs
  <2> QED BY <1>3, <1>4, <2>1 DEF IsUnit, y
<1>16. SuccIn(script, u) = <<r + 2, 1>>
  <2>1. ~(u[2] < SizeIn(script, u[1])) BY <1>4 DEF y
  <2>2. (r + 1) + 1 = r + 2 BY <1>2
  <2> QED BY <2>1, <2>2 DEF SuccIn
<1>17. At(script, u) = (p + z) + y
  <2>1. At(script, u) = Offsets(script)[r + 1] + y BY DEF At
  <2> QED BY <1>5, <2>1
<1>18. IsPoint(script, next') /\ At(script, next') = At(script, u) + 1
  BY <1>1, <1>2, <1>15, <1>16, SuccFacts DEF r
<1>19. At(script, next') = At(script, next) + Len(a \o b)
  <2>1. ((p + z) + y) + 1 = (p + k) + (n + y) BY <1>2, <1>4, <1>5
  <2> QED BY <1>6, <1>14, <1>17, <1>18, <2>1
<1>20. net' = Append(net, a \o b) /\ Len(a \o b) <= IF tls THEN InSize ELSE 1
  BY <1>1 DEF a, b, r, k
<1> QED BY <1>1, <1>13, <1>14, <1>18, <1>19, <1>20, Sent

-----------------------------------------------------------------------------
(* Reads and records. *)

(* Outside drain, with no request awaited: nothing handled is buffered. *)
LEMMA LoopFacts ==
  ASSUME IInv, pc \notin {"drain", "exit"}, ~conn.awaiting
  PROVE  /\ Answers = out /\ Through = Handled(out) /\ Mark = 0 /\ frame.cursor = 0
         /\ Ordered(out) /\ Whole(out) /\ job = "none"
         /\ ~conn.closing => Placed(script, buf, tlsin \o net, overflow, Handled(out), 0, next)
<1>1. Answers = out BY DEF Answers
<1>2. frame.cursor = 0 /\ job = "none" BY DEF IInv, Phase
<1>3. Through = Handled(out) /\ Mark = 0 BY <1>1, <1>2 DEF Through, Mark
<1>4. Ordered(out) /\ Whole(out) BY <1>1 DEF IInv, Order
<1>5. ~conn.closing => Tracked BY DEF Tracked
<1> QED BY <1>1, <1>2, <1>3, <1>4, <1>5 DEF IInv, Place

(* Nothing is answered and nothing dispatched. *)
LEMMA OrderKept ==
  ASSUME IInv, ~conn.awaiting, ~conn'.awaiting, Answers' = Answers, Through' = Through,
         dispatched' = dispatched
  PROVE  Order'
BY DEF IInv, Order, Progress, AwaitedIntact, DispatchOnce

(* drain is entered: no request is handled yet, and the cork is empty. *)
LEMMA DrainEntered ==
  ASSUME pc' = "drain", ~conn'.awaiting, frame'.cork = <<>>, frame'.cursor = 0,
         out' \in Seq(Responses)
  PROVE  Answers' = out' /\ Through' = Handled(out') /\ Mark' = 0
<1>1. Answers' = out' \o frame'.cork BY DEF Answers
<1>2. out' \o <<>> = out' BY CorkFacts
<1>3. Answers' = out' BY <1>1, <1>2
<1> QED BY <1>3 DEF Through, Mark

LEMMA NewFrameFacts ==
  ASSUME NEW ret \in {"loop", "retry", "closed"}
  PROVE  /\ NewFrame(ret) \in Frames /\ NewFrame(ret).cork = <<>> /\ NewFrame(ret).cursor = 0
         /\ NewFrame(ret).ret = ret /\ NewFrame(ret).keep_alive
<1>1. <<>> \in Seq(Responses) OBVIOUS
<1> QED BY <1>1 DEF NewFrame, Frames

LEMMA OnReadKeeps == IInv /\ OnRead => IInv'
<1> SUFFICES ASSUME IInv, OnRead PROVE IInv'
  OBVIOUS
<1>1. PICK n \in 1..Min2(Room, Len(net)) :
        /\ \A i \in 1..n : net[i] # <<>>
        /\ buf' = buf \o [i \in 1..n |-> net[i][1]]
        /\ net' = DropFirst(net, n)
  BY DEF OnRead
<1>2. /\ ~tls /\ pc = "loop" /\ conn.reading /\ pc' = "drain" /\ frame' = NewFrame("loop")
      /\ UNCHANGED <<tls, script, next, overflow, tlsin, conn, pend, job, out, dispatched>>
  BY DEF OnRead, client, reply
<1>3. ~conn.awaiting /\ ~conn.closing BY <1>2 DEF IInv, Phase
<1>4. /\ script \in Seq(Request) /\ net \in Seq(Seq(Pairs)) /\ tlsin = <<>>
      /\ buf \in Seq(Pairs) /\ out \in Seq(Responses) /\ overflow \in Nat
  BY <1>2 DEF IInv, Incoming, Buffered, Server
<1>5. \A i \in 1..Len(net) : Len(net[i]) <= 1 BY <1>2 DEF IInv, Incoming
<1>6. /\ Placed(script, buf, tlsin \o net, overflow, Handled(out), 0, next)
      /\ Answers = out /\ Through = Handled(out)
  BY <1>2, <1>3, LoopFacts
<1>7. tlsin \o net = net BY <1>4
<1> DEFINE th == Handled(out)
           p == Offsets(script)[th + 1]
           x == [i \in 1..n |-> net[i][1]]
<1>8. /\ th \in 0..Len(script)
      /\ Line(script, net, p - 0 + Len(buf), At(script, next) - 1)
  BY <1>6, <1>7 DEF Placed
<1>9. p \in Nat BY <1>4, <1>8, BaseInt
<1>10. n \in Nat /\ n <= Len(net) /\ n <= Room /\ n \in 0..Len(net) /\ Len(net) \in Nat
  <2>1. Room \in Nat /\ Len(net) \in Nat BY <1>4, LengthFacts
  <2> QED BY <2>1 DEF Min2
<1>11. Len(buf) \in Nat /\ Room = activeLen - Len(buf) /\ activeLen \in Nat BY LengthFacts
<1>12. p - 0 + Len(buf) = p + Len(buf)
  <2> HIDE DEF p
  <2> QED BY <1>9, <1>11
<1>13. Line(script, net, p + Len(buf), At(script, next) - 1) BY <1>8, <1>12
<1> HIDE DEF p, th
<1>14. /\ x \in Seq(Pairs) /\ Run(script, x, p + Len(buf))
       /\ Line(script, DropFirst(net, n), p + Len(buf) + n, At(script, next) - 1)
  BY <1>1, <1>4, <1>5, <1>10, <1>13, LineUnits
<1>15. Len(x) = n BY <1>10
<1> HIDE DEF x
<1>16. buf' \in Seq(Pairs) /\ Len(buf') = Len(buf) + n BY <1>1, <1>4, <1>14, <1>15 DEF x
<1>17. Len(buf') <= activeLen BY <1>10, <1>11, <1>16
<1>18. overflow # 0 => Len(buf) + Len(x) <= overflow BY <1>15, <1>16, <1>17 DEF activeLen
<1>19. Placed(script, buf', net', overflow, th, 0, next)
  BY <1>1, <1>4, <1>6, <1>7, <1>14, <1>15, <1>18, PlacedRead DEF x, p, th
<1>20. /\ net' \in Seq(Seq(Pairs)) /\ Len(net') = Len(net) - n
       /\ \A i \in 1..Len(net) - n : net'[i] = net[i + n]
  BY <1>1, <1>4, <1>10, DropFacts
<1>21. frame' \in Frames /\ frame'.cork = <<>> /\ frame'.cursor = 0 /\ frame'.ret = "loop"
  BY <1>2, NewFrameFacts
<1>22. Incoming'
  <2>1. \A j \in 1..Len(net') : Len(net'[j]) <= 1
    <3>1. \A j \in 1..Len(net') : j + n \in 1..Len(net) /\ net'[j] = net[j + n] BY <1>10, <1>20
    <3> QED BY <1>5, <3>1
  <2>2. EndsLast(net) BY <1>7 DEF IInv, Incoming
  <2>3. EndsLast(net') BY <1>1, <1>4, <1>10, <2>2, EndsDrop
  <2>4. tlsin' = <<>> /\ tlsin' \o net' = net' BY <1>2, <1>4, <1>20
  <2> QED BY <1>2, <1>20, <2>1, <2>3, <2>4 DEF IInv, Incoming
<1>23. Buffered'
  <2>1. Len(buf') \in Nat BY <1>16
  <2> QED BY <1>2, <1>4, <1>16, <1>17, <1>21, <2>1 DEF Buffered, activeLen
<1>24. Server' BY <1>2, <1>21 DEF IInv, Server
<1>25. Phase' BY <1>2, <1>3, <1>21 DEF IInv, Phase
<1>26. Answers' = out /\ Through' = th /\ Mark' = 0
  BY <1>2, <1>3, <1>4, <1>21, DrainEntered DEF th
<1>27. Order' BY <1>2, <1>3, <1>6, <1>26, OrderKept DEF th
<1>28. Place'
  <2>1. tlsin' \o net' = net' BY <1>2, <1>4, <1>20
  <2> QED BY <1>2, <1>19, <1>26, <2>1 DEF Place
<1>29. Space' BY <1>2, <1>4 DEF Space
<1> QED BY <1>22, <1>23, <1>24, <1>25, <1>27, <1>28, <1>29 DEF IInv

LEMMA TailFacts ==
  ASSUME NEW T, NEW q \in Seq(T), q # <<>>
  PROVE  /\ Head(q) \in T /\ Tail(q) \in Seq(T) /\ Len(Tail(q)) = Len(q) - 1 /\ Head(q) = q[1]
         /\ 1 \in 1..Len(q)
         /\ \A j \in 1..Len(Tail(q)) : j + 1 \in 1..Len(q) /\ Tail(q)[j] = q[j + 1]
OBVIOUS

LEMMA ClosedFacts ==
  ASSUME NEW c \in [awaiting : BOOLEAN, reading : BOOLEAN, closing : BOOLEAN]
  PROVE  /\ Closed(c) \in [awaiting : BOOLEAN, reading : BOOLEAN, closing : BOOLEAN]
         /\ Closed(c).closing /\ ~Closed(c).reading /\ Closed(c).awaiting = c.awaiting
BY DEF Closed

(* The connection is closed: only what is awaited still counts. *)
LEMMA ClosedKeeps ==
  ASSUME IInv, pc \in {"loop", "retry"}, conn' = Closed(conn), pc' = "loop", Incoming',
         UNCHANGED <<script, buf, overflow, pend, job, frame, out, dispatched>>
  PROVE  IInv'
<1>0. conn \in [awaiting : BOOLEAN, reading : BOOLEAN, closing : BOOLEAN] BY DEF IInv, Server
<1>1. /\ conn' \in [awaiting : BOOLEAN, reading : BOOLEAN, closing : BOOLEAN]
      /\ conn'.closing /\ ~conn'.reading /\ conn'.awaiting = conn.awaiting
  BY <1>0, ClosedFacts
<1>2. Buffered' BY DEF IInv, Buffered, activeLen
<1>3. Server' BY <1>1 DEF IInv, Server
<1>4. Phase' BY <1>1 DEF IInv, Phase
<1>5. Answers' = Answers /\ Mark' = Mark BY <1>1 DEF Answers, Mark
<1>6. Through' = Through BY <1>1, <1>5 DEF Through
<1>7. Order'
  <2>1. Progress' BY <1>1 DEF Progress
  <2>2. AwaitedIntact' BY <1>1 DEF IInv, Order, AwaitedIntact, Units, Size
  <2>3. DispatchOnce' BY DEF IInv, Order, DispatchOnce
  <2>4. \A i \in 1..Len(dispatched') : dispatched'[i] <= Through' BY <1>6 DEF IInv, Order
  <2>5. Ordered(Answers') /\ (~conn'.awaiting => Whole(Answers')) BY <1>1, <1>5 DEF IInv, Order
  <2> QED BY <2>1, <2>2, <2>3, <2>4, <2>5 DEF Order
<1>8. Place' BY <1>1 DEF Place, Tracked
<1>9. Space' BY <1>1 DEF Space
<1> QED BY <1>2, <1>3, <1>4, <1>7, <1>8, <1>9 DEF IInv

LEMMA OnReadEofKeeps == IInv /\ OnReadEof => IInv'
<1> SUFFICES ASSUME IInv, OnReadEof PROVE IInv'
  OBVIOUS
<1>1. /\ pc = "loop" /\ ~tls /\ net # <<>> /\ net' = Tail(net) /\ conn' = Closed(conn) /\ pc' = pc
      /\ UNCHANGED <<tls, script, next, buf, overflow, tlsin, pend, job, frame, out, dispatched>>
  BY DEF OnReadEof, client
<1>2. net \in Seq(Seq(Pairs)) /\ tlsin = <<>> /\ EndsLast(tlsin \o net) BY <1>1 DEF IInv, Incoming
<1>3. /\ net' \in Seq(Seq(Pairs))
      /\ \A j \in 1..Len(net') : j + 1 \in 1..Len(net) /\ net'[j] = net[j + 1]
  BY <1>1, <1>2, TailFacts
<1>4. \A j \in 1..Len(net') : Len(net'[j]) <= IF tls THEN InSize ELSE 1
  BY <1>3 DEF IInv, Incoming
<1>a. EndsLast(tlsin' \o net')
  <2>1. tlsin \o net = net /\ tlsin' \o net' = net' BY <1>1, <1>2, <1>3
  <2> QED BY <1>1, <1>2, <2>1, EndsTail
<1>5. Incoming' BY <1>1, <1>3, <1>4, <1>a DEF IInv, Incoming
<1> QED BY <1>1, <1>5, ClosedKeeps

LEMMA closeServerKeeps == IInv /\ closeServer => IInv'
<1> SUFFICES ASSUME IInv, closeServer PROVE IInv'
  OBVIOUS
<1>1. /\ pc = "loop" /\ conn' = Closed(conn) /\ pc' = pc
      /\ UNCHANGED <<tls, script, next, net, buf, overflow, tlsin, pend, job, frame, out, dispatched>>
  BY DEF closeServer, client
<1>2. Incoming' BY <1>1 DEF IInv, Incoming
<1> QED BY <1>1, <1>2, ClosedKeeps

LEMMA SettleClosedKeeps == IInv /\ SettleClosed => IInv'
<1> SUFFICES ASSUME IInv, SettleClosed PROVE IInv'
  OBVIOUS
<1>1. /\ pc = "loop" /\ conn.closing /\ job' = "none"
      /\ UNCHANGED <<tls, script, next, net, buf, overflow, tlsin, conn, pend, frame, pc, out, dispatched>>
  BY DEF SettleClosed, client, reply
<1>2. Incoming' BY <1>1 DEF IInv, Incoming
<1>3. Buffered' BY <1>1 DEF IInv, Buffered, activeLen
<1>4. Server' BY <1>1 DEF IInv, Server
<1>5. Phase' BY <1>1 DEF IInv, Phase
<1>6. Answers' = Answers BY <1>1 DEF Answers
<1>7. Through' = Through BY <1>1, <1>6 DEF Through
<1>8. Order' BY <1>1, <1>6, <1>7
  DEF IInv, Order, Progress, AwaitedIntact, DispatchOnce, Units, Size
<1>9. Place' BY <1>1 DEF Place, Tracked
<1>10. Space' BY <1>1 DEF IInv, Space, Room, activeLen, StreamLast
<1> QED BY <1>2, <1>3, <1>4, <1>5, <1>8, <1>9, <1>10 DEF IInv

LEMMA ConcatLen ==
  ASSUME NEW T, NEW q \in Seq(T), NEW r \in Seq(T)
  PROVE  /\ q \o r \in Seq(T) /\ Len(q \o r) = Len(q) + Len(r)
         /\ Len(q) \in Nat /\ Len(r) \in Nat
OBVIOUS

(* Sequences with the same elements are equal. *)
LEMMA SeqEqual ==
  ASSUME NEW T, NEW a \in Seq(T), NEW b \in Seq(T), Len(a) = Len(b),
         \A i \in 1..Len(a) : a[i] = b[i]
  PROVE  a = b
OBVIOUS

(* Whole records move into st.in. *)
LEMMA MoveFacts ==
  ASSUME NEW T, NEW q \in Seq(T), NEW r \in Seq(T), NEW n \in 0..Len(r)
  PROVE  (q \o SubSeq(r, 1, n)) \o DropFirst(r, n) = q \o r
<1> DEFINE a == q \o SubSeq(r, 1, n)
           b == DropFirst(r, n)
<1>1. /\ a \in Seq(T) /\ Len(a) = Len(q) + n
      /\ \A j \in 1..Len(q) : a[j] = q[j]
      /\ \A j \in 1..Len(q) + n : j > Len(q) => a[j] = r[j - Len(q)]
  OBVIOUS
<1>2. b \in Seq(T) /\ Len(b) = Len(r) - n /\ \A j \in 1..Len(r) - n : b[j] = r[j + n]
  BY DropFacts
<1>3. Len(q) \in Nat /\ Len(r) \in Nat OBVIOUS
<1> HIDE DEF a, b
<1>4. Len(a \o b) = Len(q) + Len(r)
  <2>1. Len(a \o b) = Len(a) + Len(b) BY <1>1, <1>2, ConcatLen
  <2> QED BY <1>1, <1>2, <1>3, <2>1
<1>5. ASSUME NEW j \in 1..Len(q) + Len(r) PROVE (a \o b)[j] = (q \o r)[j]
  <2>1. CASE j <= Len(q) BY <1>1, <1>2, <1>3, <2>1
  <2>2. CASE j > Len(q) /\ j <= Len(q) + n
    <3>1. j \in 1..Len(a) /\ (a \o b)[j] = a[j] BY <1>1, <1>2, <1>3, <2>2
    <3>2. a[j] = r[j - Len(q)] BY <1>1, <1>3, <2>2
    <3>3. (q \o r)[j] = r[j - Len(q)] BY <1>3, <2>2
    <3> QED BY <3>1, <3>2, <3>3
  <2>3. CASE j > Len(q) + n
    <3>a. j > Len(a) /\ j \in 1..Len(a) + Len(b) BY <1>1, <1>2, <1>3, <2>3
    <3>1. (a \o b)[j] = b[j - Len(a)] BY <1>1, <1>2, <3>a
    <3>2. j - Len(a) \in 1..Len(r) - n /\ (j - Len(a)) + n = j - Len(q) BY <1>1, <1>3, <2>3
    <3>3. b[j - Len(a)] = r[j - Len(q)] BY <1>2, <3>2
    <3>4. (q \o r)[j] = r[j - Len(q)] BY <1>3, <2>3
    <3> QED BY <3>1, <3>3, <3>4
  <2>4. j <= Len(q) \/ (j > Len(q) /\ j <= Len(q) + n) \/ j > Len(q) + n
    <3> DEFINE c == Len(q)
               d == Len(r)
    <3>1. c \in Nat /\ n \in Nat /\ j \in Int BY <1>3
    <3> HIDE DEF c, d
    <3>2. j <= c \/ (j > c /\ j <= c + n) \/ j > c + n BY ONLY <3>1
    <3> QED BY <3>2 DEF c
  <2> QED BY <2>1, <2>2, <2>3, <2>4
<1>6. a \o b \in Seq(T) /\ q \o r \in Seq(T) /\ Len(q \o r) = Len(q) + Len(r) BY <1>1, <1>2
<1> DEFINE v == a \o b
           w == q \o r
<1>7. /\ v \in Seq(T) /\ w \in Seq(T) /\ Len(v) = Len(w)
      /\ \A j \in 1..Len(v) : v[j] = w[j]
  BY <1>4, <1>5, <1>6
<1> HIDE DEF v, w
<1>8. v = w BY <1>7, SeqEqual
<1> QED BY <1>8 DEF v, w, a, b

LEMMA OnReadTlsKeeps == IInv /\ OnReadTls => IInv'
<1> SUFFICES ASSUME IInv, OnReadTls PROVE IInv'
  OBVIOUS
<1>1. PICK n \in 1..Len(net) : /\ tlsin' = tlsin \o SubSeq(net, 1, n)
                               /\ net' = DropFirst(net, n)
  BY DEF OnReadTls
<1>2. /\ tls /\ pc = "loop" /\ conn.reading /\ pc' = "tls"
      /\ UNCHANGED <<tls, script, next, buf, overflow, conn, pend, job, frame, out, dispatched>>
  BY DEF OnReadTls, client, reply
<1>3. ~conn.awaiting /\ ~conn.closing BY <1>2 DEF IInv, Phase
<1>4. net \in Seq(Seq(Pairs)) /\ tlsin \in Seq(Seq(Pairs)) /\ Len(net) \in Nat
      /\ Len(tlsin) \in Nat
  BY DEF IInv, Incoming
<1>5. n \in 0..Len(net) /\ n \in Nat BY <1>4
<1>6. /\ net' \in Seq(Seq(Pairs)) /\ Len(net') = Len(net) - n
      /\ \A i \in 1..Len(net) - n : net'[i] = net[i + n]
  BY <1>1, <1>4, <1>5, DropFacts
<1>7. tlsin' \o net' = tlsin \o net BY <1>1, <1>4, <1>5, MoveFacts
<1>8. /\ \A j \in 1..Len(net) : Len(net[j]) <= InSize
      /\ \A j \in 1..Len(tlsin) : Len(tlsin[j]) <= InSize
  BY <1>2 DEF IInv, Incoming
<1>9. \A j \in 1..Len(net') : Len(net'[j]) <= InSize
  <2>1. \A j \in 1..Len(net') : j + n \in 1..Len(net) /\ net'[j] = net[j + n] BY <1>4, <1>5, <1>6
  <2> QED BY <1>8, <2>1
<1>10. tlsin' \in Seq(Seq(Pairs)) /\ \A j \in 1..Len(tlsin') : Len(tlsin'[j]) <= InSize
  <2> DEFINE m == SubSeq(net, 1, n)
  <2>1. m \in Seq(Seq(Pairs)) /\ Len(m) = n /\ \A j \in 1..n : j \in 1..Len(net) /\ m[j] = net[j]
    BY <1>4, <1>5
  <2>2. tlsin' = tlsin \o m BY <1>1
  <2> HIDE DEF m
  <2>3. tlsin' \in Seq(Seq(Pairs)) /\ Len(tlsin') = Len(tlsin) + n BY <1>4, <2>1, <2>2, ConcatLen
  <2>4. ASSUME NEW j \in 1..Len(tlsin') PROVE Len(tlsin'[j]) <= InSize
    <3>1. CASE j <= Len(tlsin)
      <4>1. j \in 1..Len(tlsin) BY <1>4, <2>3, <3>1
      <4>2. tlsin'[j] = tlsin[j] BY <1>4, <2>1, <2>2, <4>1
      <4> QED BY <1>8, <4>1, <4>2
    <3>2. CASE j > Len(tlsin)
      <4>1. j - Len(tlsin) \in 1..n BY <1>4, <1>5, <2>3, <3>2
      <4>2. tlsin'[j] = m[j - Len(tlsin)] BY <1>4, <2>1, <2>2, <2>3, <3>2
      <4>3. tlsin'[j] = net[j - Len(tlsin)] /\ j - Len(tlsin) \in 1..Len(net) BY <2>1, <4>1, <4>2
      <4> QED BY <1>8, <4>3
    <3> QED BY <1>4, <2>3, <3>1, <3>2
  <2> QED BY <2>3, <2>4
<1>11. Incoming' BY <1>2, <1>6, <1>7, <1>9, <1>10 DEF IInv, Incoming
<1>12. Buffered' BY <1>2 DEF IInv, Buffered, activeLen
<1>13. Server' BY <1>2 DEF IInv, Server
<1>14. Phase' BY <1>2, <1>3 DEF IInv, Phase
<1>15. Answers' = Answers /\ Mark' = Mark BY <1>2 DEF Answers, Mark
<1>16. Through' = Through BY <1>2, <1>15 DEF Through
<1>17. Order' BY <1>2, <1>3, <1>15, <1>16, OrderKept
<1>18. Place' BY <1>2, <1>3, <1>7, <1>15, <1>16 DEF IInv, Place, Tracked
<1>19. Space' BY <1>2 DEF Space
<1> QED BY <1>11, <1>12, <1>13, <1>14, <1>17, <1>18, <1>19 DEF IInv

(* tlsDrive delivers what is decrypted. *)
LEMMA Delivers ==
  ASSUME IInv, pc = "tls", pc' = "drain", frame' \in Frames, frame'.cork = <<>>,
         frame'.cursor = 0, frame'.ret = "loop" => tlsin = <<>>,
         UNCHANGED <<tls, script, next, net, buf, overflow, tlsin, conn, pend, job, out, dispatched>>
  PROVE  IInv'
<1>1. ~conn.awaiting /\ ~conn.closing /\ tls BY DEF IInv, Phase
<1>2. out \in Seq(Responses) BY DEF IInv, Server
<1>3. /\ Placed(script, buf, tlsin \o net, overflow, Handled(out), 0, next)
      /\ Answers = out /\ Through = Handled(out)
  BY <1>1, LoopFacts
<1>4. Answers' = out /\ Through' = Handled(out) /\ Mark' = 0 BY <1>1, <1>2, DrainEntered
<1>5. Incoming' BY DEF IInv, Incoming
<1>6. Buffered' BY LengthFacts DEF IInv, Buffered, activeLen
<1>7. Server' BY DEF IInv, Server
<1>8. Phase' BY <1>1 DEF IInv, Phase
<1>9. Order' BY <1>1, <1>3, <1>4, OrderKept
<1>10. Place' BY <1>3, <1>4 DEF Place
<1>11. Space' BY DEF Space, Idle
<1> QED BY <1>5, <1>6, <1>7, <1>8, <1>9, <1>10, <1>11 DEF IInv

LEMMA TlsNoRoomKeeps == IInv /\ TlsNoRoom => IInv'
<1> SUFFICES ASSUME IInv, TlsNoRoom PROVE IInv'
  OBVIOUS
<1>1. /\ pc = "tls" /\ pc' = "drain" /\ frame' = [NewFrame("retry") EXCEPT !.space = Room]
      /\ UNCHANGED <<tls, script, next, net, buf, overflow, tlsin, conn, pend, job, out, dispatched>>
  BY DEF TlsNoRoom, client, reply
<1>2. Room \in Int BY LengthFacts
<1>3. /\ NewFrame("retry") \in Frames /\ NewFrame("retry").cork = <<>>
      /\ NewFrame("retry").cursor = 0 /\ NewFrame("retry").ret = "retry"
  BY NewFrameFacts
<1>4. /\ frame' \in Frames /\ frame'.cork = <<>> /\ frame'.cursor = 0 /\ frame'.ret = "retry"
  BY <1>1, <1>2, <1>3 DEF Frames
<1> QED BY <1>1, <1>4, Delivers

LEMMA TlsDoneKeeps == IInv /\ TlsDone => IInv'
<1> SUFFICES ASSUME IInv, TlsDone PROVE IInv'
  OBVIOUS
<1>1. /\ pc = "tls" /\ pc' = "drain" /\ frame' = NewFrame("loop") /\ tlsin = <<>>
      /\ UNCHANGED <<tls, script, next, net, buf, overflow, tlsin, conn, pend, job, out, dispatched>>
  BY DEF TlsDone, client, reply
<1>2. /\ frame' \in Frames /\ frame'.cork = <<>> /\ frame'.cursor = 0
  BY <1>1, NewFrameFacts
<1> QED BY <1>1, <1>2, Delivers

LEMMA TlsRecordKeeps == IInv /\ TlsRecord => IInv'
<1> SUFFICES ASSUME IInv, TlsRecord PROVE IInv'
  OBVIOUS
<1> DEFINE x == Head(tlsin)
<1>1. /\ pc = "tls" /\ tlsin # <<>> /\ Room >= InSize
      /\ tlsin' = Tail(tlsin) /\ buf' = buf \o x
      /\ \/ pc' = pc /\ frame' = frame
         \/ pc' = "drain" /\ frame' = NewFrame("closed")
      /\ UNCHANGED <<tls, script, next, net, overflow, conn, pend, job, out, dispatched>>
  BY DEF TlsRecord, client, reply
<1>2. ~conn.awaiting /\ ~conn.closing /\ tls BY <1>1 DEF IInv, Phase
<1>3. /\ Placed(script, buf, tlsin \o net, overflow, Handled(out), 0, next)
      /\ Answers = out /\ Through = Handled(out) /\ frame.cursor = 0
  BY <1>1, <1>2, LoopFacts
<1>5. /\ script \in Seq(Request) /\ net \in Seq(Seq(Pairs)) /\ tlsin \in Seq(Seq(Pairs))
      /\ buf \in Seq(Pairs) /\ out \in Seq(Responses)
      /\ \A j \in 1..Len(tlsin) : Len(tlsin[j]) <= InSize
  BY DEF IInv, Incoming, Buffered, Server
<1>6. /\ x \in Seq(Pairs) /\ tlsin' \in Seq(Seq(Pairs)) /\ x = tlsin[1] /\ 1 \in 1..Len(tlsin)
      /\ \A j \in 1..Len(tlsin') : j + 1 \in 1..Len(tlsin) /\ tlsin'[j] = tlsin[j + 1]
  BY <1>1, <1>5, TailFacts
<1>7. Len(x) <= InSize /\ \A j \in 1..Len(tlsin') : Len(tlsin'[j]) <= InSize BY <1>5, <1>6
<1> DEFINE th == Handled(out)
           p == Offsets(script)[th + 1]
           q == tlsin \o net
<1>8. q \in Seq(Seq(Pairs)) /\ q # <<>> /\ Head(q) = x /\ Tail(q) = tlsin' \o net
  BY <1>1, <1>5, SMTT(60)
<1>9. th \in 0..Len(script) /\ Line(script, q, p - 0 + Len(buf), At(script, next) - 1)
  BY <1>3 DEF Placed
<1>10. p \in Nat BY <1>5, <1>9, BaseInt
<1>11. Len(buf) \in Nat /\ Room = activeLen - Len(buf) /\ activeLen \in Nat BY LengthFacts
<1>12. p - 0 + Len(buf) = p + Len(buf)
  <2> HIDE DEF p
  <2> QED BY <1>10, <1>11
<1>13. Line(script, q, p + Len(buf), At(script, next) - 1) BY <1>9, <1>12
<1> HIDE DEF p, th, q, x
<1>14. /\ Run(script, x, p + Len(buf))
       /\ Line(script, tlsin' \o net, p + Len(buf) + Len(x), At(script, next) - 1)
  BY <1>8, <1>13, LineTail
<1>16. buf' \in Seq(Pairs) /\ Len(buf') = Len(buf) + Len(x) /\ Len(x) \in Nat
  BY <1>1, <1>5, <1>6, ConcatLen
<1>17. Len(buf') <= activeLen /\ Len(buf') \in Nat
  <2> DEFINE a == Len(buf)
             b == Len(x)
             c == activeLen
             d == Len(buf')
  <2>1. a \in Nat /\ b \in Nat /\ c \in Nat /\ d = a + b /\ c - a >= InSize /\ b <= InSize
    BY <1>1, <1>7, <1>11, <1>16
  <2>2. InSize \in Nat BY SizesPositive
  <2> HIDE DEF a, b, c, d
  <2>3. d <= c /\ d \in Nat BY ONLY <2>1, <2>2
  <2> QED BY <2>3 DEF c, d
<1>15. Placed(script, buf', tlsin' \o net, overflow, th, 0, next)
  <2>1. overflow # 0 => Len(buf) + Len(x) <= overflow
    <3>1. activeLen' = activeLen BY <1>1 DEF activeLen
    <3> QED BY <1>16, <1>17 DEF activeLen
  <2> QED BY <1>1, <1>3, <1>5, <1>6, <1>14, <2>1, PlacedRead DEF p, th, q
<1>18. /\ frame' \in Frames /\ frame'.cursor = 0
       /\ pc' = "drain" => frame'.cork = <<>> /\ frame'.ret = "closed"
  <2>1. frame \in Frames BY DEF IInv, Server
  <2>2. /\ NewFrame("closed") \in Frames /\ NewFrame("closed").cork = <<>>
        /\ NewFrame("closed").cursor = 0 /\ NewFrame("closed").ret = "closed"
    BY NewFrameFacts
  <2> QED BY <1>1, <1>3, <2>1, <2>2
<1>19. pc' \in {"tls", "drain"} BY <1>1
<1>20. Answers' = out /\ Through' = th /\ Mark' = 0
  <2>1. CASE pc' = "tls"
    <3>1. Answers' = out BY <1>1, <2>1 DEF Answers
    <3> QED BY <1>1, <1>2, <1>18, <3>1 DEF Through, Mark, th
  <2>2. CASE pc' = "drain" BY <1>1, <1>2, <1>5, <1>18, <2>2, DrainEntered DEF th
  <2> QED BY <1>19, <2>1, <2>2
<1>21. Incoming'
  <2>1. EndsLast(q) BY DEF IInv, Incoming, q
  <2>2. EndsLast(tlsin' \o net) BY <1>8, <2>1, EndsTail
  <2> QED BY <1>1, <1>2, <1>6, <1>7, <2>2 DEF IInv, Incoming
<1>22. Buffered' BY <1>1, <1>16, <1>17, <1>18 DEF IInv, Buffered, activeLen
<1>23. Server' BY <1>1, <1>18, <1>19 DEF IInv, Server
<1>24. Phase' BY <1>1, <1>2, <1>18, <1>19 DEF IInv, Phase
<1>25. Order' BY <1>1, <1>2, <1>3, <1>20, OrderKept DEF th
<1>26. Place' BY <1>1, <1>15, <1>20 DEF Place
<1>27. Space' BY <1>1, <1>18, <1>19 DEF Space
<1> QED BY <1>21, <1>22, <1>23, <1>24, <1>25, <1>26, <1>27 DEF IInv

LEMMA TlsRetryKeeps == IInv /\ TlsRetry => IInv'
<1> SUFFICES ASSUME IInv, TlsRetry PROVE IInv'
  OBVIOUS
<1>1. /\ pc = "retry"
      /\ \/ conn' = Closed(conn) /\ pc' = "loop"
         \/ pc' = "tls" /\ conn' = conn
      /\ UNCHANGED <<tls, script, next, net, buf, overflow, tlsin, pend, job, frame, out, dispatched>>
  BY DEF TlsRetry, client
<1>2. Incoming' BY <1>1 DEF IInv, Incoming
<1>3. CASE conn' = Closed(conn) /\ pc' = "loop" BY <1>1, <1>2, <1>3, ClosedKeeps
<1>4. CASE pc' = "tls" /\ conn' = conn
  <2>1. ~conn.awaiting /\ ~conn.closing /\ tls BY <1>1 DEF IInv, Phase
  <2>2. Buffered' BY <1>1 DEF IInv, Buffered, activeLen
  <2>3. Server' BY <1>1, <1>4 DEF IInv, Server
  <2>4. Phase' BY <1>1, <1>4, <2>1 DEF IInv, Phase
  <2>5. Answers' = Answers /\ Mark' = Mark BY <1>1, <1>4 DEF Answers, Mark
  <2>6. Through' = Through BY <1>1, <1>4, <2>5 DEF Through
  <2>7. Order' BY <1>1, <1>4, <2>1, <2>5, <2>6, OrderKept
  <2>8. Place' BY <1>1, <1>4, <2>1, <2>5, <2>6 DEF IInv, Place, Tracked
  <2>9. Space' BY <1>4 DEF Space
  <2> QED BY <1>2, <2>2, <2>3, <2>4, <2>7, <2>8, <2>9 DEF IInv
<1> QED BY <1>1, <1>3, <1>4

-----------------------------------------------------------------------------
(* drain, where it stops. *)

LEMMA ResponseFacts ==
  ASSUME IInv, NEW r \in 1..Len(script), NEW part \in {"full", "head", "chunk", "end"}
  PROVE  /\ Response(r, part) \in Responses /\ Response(r, part).req = r
         /\ Response(r, part).part = part
         /\ ErrorFor(r) \in Responses /\ ErrorFor(r).req = r /\ ErrorFor(r).part = "full"
<1>1. script[r].close \in BOOLEAN /\ r \in Nat
  <2>1. script[r] \in Request BY DEF IInv, Incoming
  <2> QED BY <2>1 DEF Request
<1> QED BY <1>1 DEF Response, ErrorFor, Responses

LEMMA DispatchedMore ==
  ASSUME NEW d \in Seq(Nat), NEW th \in Nat, \A i \in 1..Len(d) : d[i] <= th,
         \A i, j \in 1..Len(d) : i < j => d[i] < d[j]
  PROVE  /\ Append(d, th + 1) \in Seq(Nat)
         /\ \A i \in 1..Len(Append(d, th + 1)) : Append(d, th + 1)[i] <= th + 1
         /\ \A i, j \in 1..Len(Append(d, th + 1)) :
              i < j => Append(d, th + 1)[i] < Append(d, th + 1)[j]
<1> DEFINE e == Append(d, th + 1)
           n == Len(d)
<1>1. /\ e \in Seq(Nat) /\ Len(e) = n + 1 /\ e[n + 1] = th + 1 /\ n \in Nat
      /\ \A i \in 1..n : e[i] = d[i]
  BY AppendFacts
<1>2. \A i \in 1..n : d[i] \in Nat /\ d[i] <= th OBVIOUS
<1>3. \A i, j \in 1..n : i < j => d[i] < d[j] OBVIOUS
<1> HIDE DEF e, n
<1>4. ASSUME NEW i \in 1..n + 1 PROVE e[i] <= th + 1
  <2>1. CASE i = n + 1 BY <1>1, <2>1
  <2>2. CASE i \in 1..n
    <3>1. e[i] = d[i] /\ d[i] \in Nat /\ d[i] <= th BY <1>1, <1>2, <2>2
    <3> QED BY <3>1
  <2> QED BY <1>1, <2>1, <2>2
<1>5. ASSUME NEW i \in 1..n + 1, NEW j \in 1..n + 1, i < j PROVE e[i] < e[j]
  <2>1. i \in 1..n /\ e[i] = d[i] BY <1>1, <1>5
  <2>2. CASE j = n + 1 BY <1>1, <1>2, <2>1, <2>2
  <2>3. CASE j \in 1..n BY <1>1, <1>3, <1>5, <2>1, <2>3
  <2> QED BY <1>1, <2>2, <2>3
<1> QED BY <1>1, <1>4, <1>5 DEF e

(* The next request is answered at once. *)
LEMMA AnswerOrder ==
  ASSUME IInv, pc = "drain", Through \in Nat, NEW x \in Responses, x.req = Through + 1,
         x.part = "full", Answers' = Append(Answers, x), ~conn'.awaiting,
         \/ dispatched' = dispatched
         \/ dispatched' = Append(dispatched, Through + 1)
  PROVE  Order' /\ Through' = Through + 1 /\ dispatched' \in Seq(Nat)
<1>1. /\ Answers \in Seq(Responses) /\ Ordered(Answers) /\ Whole(Answers)
      /\ Through = Handled(Answers)
  BY DrainFacts
<1>2. /\ Ordered(Answers') /\ Handled(Answers') = Through + 1 /\ Whole(Answers')
  BY <1>1, OrderedNext
<1>3. Through' = Through + 1 BY <1>2 DEF Through
<1>4. /\ dispatched \in Seq(Nat) /\ \A i \in 1..Len(dispatched) : dispatched[i] <= Through
      /\ \A i, j \in 1..Len(dispatched) : i < j => dispatched[i] < dispatched[j]
  BY DEF IInv, Server, Order, DispatchOnce
<1>5. /\ dispatched' \in Seq(Nat)
      /\ \A i \in 1..Len(dispatched') : dispatched'[i] <= Through + 1
      /\ \A i, j \in 1..Len(dispatched') : i < j => dispatched'[i] < dispatched'[j]
  <2>1. CASE dispatched' = dispatched
    <3>1. \A i \in 1..Len(dispatched) : dispatched[i] \in Nat /\ dispatched[i] <= Through BY <1>4
    <3>2. \A i \in 1..Len(dispatched) : dispatched[i] <= Through + 1 BY <3>1
    <3> QED BY <1>4, <2>1, <3>2
  <2>2. CASE dispatched' = Append(dispatched, Through + 1)
    BY <1>4, <2>2, DispatchedMore
  <2> QED BY <2>1, <2>2
<1>6. Order' BY <1>2, <1>3, <1>5 DEF Order, Progress, AwaitedIntact, DispatchOnce
<1> QED BY <1>3, <1>5, <1>6

LEMMA RefuseKeeps ==
  ASSUME IInv, Draining, NEW r, r = Through + 1, Refuse(r)
  PROVE  IInv'
<1>1. pc = "drain" BY DEF Draining
<1>2. Through \in Nat /\ r \in 1..Len(script) BY HeadFound
<1> DEFINE x == ErrorFor(r)
<1>3. x \in Responses /\ x.req = Through + 1 /\ x.part = "full" BY <1>2, ResponseFacts
<1>4. /\ buf' = <<>> /\ overflow' = 0 /\ pc' = "exit"
      /\ frame' = [frame EXCEPT !.cork = Append(@, x), !.keep_alive = FALSE, !.cursor = 0]
      /\ UNCHANGED <<tls, script, next, net, tlsin, conn, pend, job, out, dispatched>>
  BY DEF Refuse, resetConn, client, reply
<1> HIDE DEF x
<1>5. ~conn.awaiting /\ ~conn.closing /\ Answers = out \o frame.cork BY <1>1, DrainFacts
<1>6. frame \in Frames /\ out \in Seq(Responses) /\ frame.cork \in Seq(Responses)
  BY DEF IInv, Server, Frames
<1>7. /\ frame' \in Frames /\ frame'.cork = Append(frame.cork, x) /\ ~frame'.keep_alive
      /\ frame'.cursor = 0 /\ frame'.ret = frame.ret
  <2>1. Append(frame.cork, x) \in Seq(Responses) BY <1>3, <1>6
  <2> QED BY <1>4, <1>6, <2>1 DEF Frames
<1>8. Answers' = Append(Answers, x)
  <2>1. Answers' = out \o Append(frame.cork, x) BY <1>4, <1>7 DEF Answers
  <2> QED BY <1>3, <1>5, <1>6, <2>1, CorkFacts
<1>9. Order' BY <1>1, <1>2, <1>3, <1>4, <1>5, <1>8, AnswerOrder
<1>10. Incoming' BY <1>4 DEF IInv, Incoming
<1>11. Buffered'
  <2>1. <<>> \in Seq(Pairs) /\ Len(<<>>) = 0 OBVIOUS
  <2> QED BY <1>4, <1>7, <2>1, SizesPositive DEF Buffered, activeLen
<1>12. Server' BY <1>4, <1>7 DEF IInv, Server
<1>13. Phase' BY <1>1, <1>4, <1>5, <1>7 DEF IInv, Phase
<1>14. Place' BY <1>4, <1>7 DEF Place, Tracked
<1>15. Space' BY <1>1, <1>4, <1>7 DEF IInv, Space, StreamLast
<1> QED BY <1>9, <1>10, <1>11, <1>12, <1>13, <1>14, <1>15 DEF IInv

LEMMA HeadTooLargeKeeps == IInv /\ HeadTooLarge => IInv'
<1> SUFFICES ASSUME IInv, HeadTooLarge PROVE IInv'
  OBVIOUS
<1>1. Draining /\ frame.cursor = 0 /\ Refuse(buf[1][1]) BY DEF HeadTooLarge, HeadWontFit
<1>2. buf[0 + 1][1] = Through + 1 BY <1>1, HeadFound
<1>3. buf[1][1] = Through + 1 BY <1>2
<1> QED BY <1>1, <1>3, RefuseKeeps

LEMMA BadRequestKeeps == IInv /\ BadRequest => IInv'
<1> SUFFICES ASSUME IInv, BadRequest PROVE IInv'
  OBVIOUS
<1>1. Draining /\ Refuse(buf[frame.cursor + 1][1]) BY DEF BadRequest, Found
<1>2. buf[frame.cursor + 1][1] = Through + 1 BY <1>1, HeadFound
<1> QED BY <1>1, <1>2, RefuseKeeps

LEMMA PayloadTooLargeKeeps == IInv /\ PayloadTooLarge => IInv'
<1> SUFFICES ASSUME IInv, PayloadTooLarge PROVE IInv'
  OBVIOUS
<1>1. Draining /\ HeadEnds # {} /\ Refuse(Req) BY DEF PayloadTooLarge, Found
<1>2. Req = Through + 1 BY <1>1, HeadFound
<1> QED BY <1>1, <1>2, RefuseKeeps

(* finishRequest, past a request: there is room again. *)
LEMMA FinishFacts ==
  ASSUME IInv, NEW n \in 0..Len(buf), n > 0, finishRequest(n)
  PROVE  /\ overflow' = 0 /\ buf' = IF overflow # 0 THEN <<>> ELSE DropFirst(buf, n)
         /\ buf' \in Seq(Pairs) /\ Len(buf') \in Nat /\ Len(buf') < BufSize
         /\ activeLen' = BufSize /\ Room' > 0
<1>1. buf \in Seq(Pairs) /\ Len(buf) \in Nat /\ n \in Nat BY DEF IInv, Buffered
<1>2. overflow' = 0 /\ buf' = IF overflow # 0 THEN <<>> ELSE DropFirst(buf, n)
  BY DEF finishRequest
<1>3. activeLen' = BufSize BY <1>2 DEF activeLen
<1>4. buf' \in Seq(Pairs) /\ Len(buf') \in Nat /\ Len(buf') < BufSize
  <2>1. CASE overflow # 0
    <3>1. buf' = <<>> /\ <<>> \in Seq(Pairs) /\ Len(<<>>) = 0 BY <1>2, <2>1
    <3> QED BY <3>1, SizesPositive
  <2>2. CASE overflow = 0
    <3>1. buf' = DropFirst(buf, n) BY <1>2, <2>2
    <3>2. buf' \in Seq(Pairs) /\ Len(buf') = Len(buf) - n BY <1>1, <3>1, DropFacts
    <3>3. Len(buf) <= BufSize BY <2>2 DEF IInv, Buffered, activeLen
    <3> QED BY <1>1, <3>2, <3>3, SizesPositive
  <2> QED BY <2>1, <2>2
<1>5. Room' > 0
  <2>1. Room' = BufSize - Len(buf') BY <1>3 DEF Room
  <2> DEFINE c == Len(buf')
  <2>2. c \in Nat /\ c < BufSize BY <1>4
  <2> HIDE DEF c
  <2>3. BufSize - c > 0 BY <2>2, SizesPositive
  <2> QED BY <2>1, <2>3 DEF c
<1> QED BY <1>2, <1>3, <1>4, <1>5

LEMMA DrainWaitKeeps == IInv /\ DrainWait => IInv'
<1> SUFFICES ASSUME IInv, DrainWait PROVE IInv'
  OBVIOUS
<1>1. /\ pc = "drain" /\ pc' = "exit"
      /\ frame.cursor >= Len(buf) \/ (Draining /\ HeadEnds = {} /\ ~HeadWontFit)
      /\ UNCHANGED <<tls, script, next, net, buf, overflow, tlsin, conn, pend, job, frame, out, dispatched>>
  BY DEF DrainWait, client, reply
<1>2. /\ ~conn.awaiting /\ ~conn.closing /\ Mark = frame.cursor
      /\ Placed(script, buf, tlsin \o net, overflow, Through, frame.cursor, next)
  BY <1>1, DrainFacts
<1>3. Incoming' BY <1>1 DEF IInv, Incoming
<1>4. Buffered' BY <1>1 DEF IInv, Buffered, activeLen
<1>5. Server' BY <1>1 DEF IInv, Server
<1>6. Phase' BY <1>1, <1>2 DEF IInv, Phase
<1>7. Answers' = Answers /\ Mark' = Mark BY <1>1 DEF Answers, Mark
<1>8. Through' = Through BY <1>1, <1>7 DEF Through
<1>9. Order' BY <1>1, <1>2, <1>7, <1>8, OrderKept
<1>10. Place' BY <1>1, <1>2, <1>7, <1>8 DEF Place
<1>11. frame.cursor > 0 \/ Room > 0
  <2>1. /\ Len(buf) \in Nat /\ activeLen \in Nat \ {0} /\ Room = activeLen - Len(buf)
        /\ frame.cursor \in 0..Len(buf) /\ Len(buf) <= activeLen
    BY LengthFacts DEF IInv, Buffered
  <2>2. CASE frame.cursor >= Len(buf) BY <2>1, <2>2
  <2>3. CASE Draining /\ HeadEnds = {} /\ ~HeadWontFit /\ frame.cursor = 0
    <3>1. CASE overflow = 0
      <4>1. activeLen = BufSize /\ Len(buf) # BufSize BY <2>3, <3>1 DEF activeLen, HeadWontFit
      <4> QED BY <2>1, <4>1
    <3>2. CASE overflow # 0
      <4> DEFINE h == script[Through + 1].head
                 z == SizeIn(script, Through + 1)
      <4>1. Through + 1 \in 1..Len(script) /\ Len(buf) - frame.cursor < h
        BY <2>3, HeadFound
      <4>2. h \in Nat /\ z \in Nat /\ h <= z
        <5>1. script \in Seq(Request) BY DEF IInv, Incoming
        <5> QED BY <4>1, <5>1, SizeFacts
      <4>3. overflow >= z BY <1>2, <2>3, <3>2 DEF Placed
      <4>4. activeLen = overflow BY <3>2 DEF activeLen
      <4> HIDE DEF h, z
      <4> QED BY <2>1, <2>3, <4>1, <4>2, <4>3, <4>4
    <3> QED BY <3>1, <3>2
  <2> QED BY <1>1, <2>1, <2>2, <2>3
<1>12. Room' = Room BY <1>1 DEF Room, activeLen
<1>13. Space' BY <1>1, <1>11, <1>12 DEF IInv, Space, StreamLast
<1> QED BY <1>3, <1>4, <1>5, <1>6, <1>9, <1>10, <1>13 DEF IInv

(* The request drain has found, when it is neither refused nor too large. *)
LEMMA AdmittedFacts ==
  ASSUME IInv, NoSpill, Admitted
  PROVE  /\ Draining /\ Through \in Nat /\ Through + 1 \in 1..Len(script) /\ Req = Through + 1
         /\ SizeIn(script, Through + 1) \in Nat \ {0}
         /\ Total = frame.cursor + SizeIn(script, Through + 1)
         /\ RequestLen = SizeIn(script, Through + 1)
         /\ tls => SizeIn(script, Through + 1) <= BufSize \/ Through + 1 = Len(script)
         /\ overflow # 0 => frame.cursor = 0 /\ overflow >= SizeIn(script, Through + 1)
         /\ frame.cursor < Len(buf)
<1> DEFINE z == SizeIn(script, Through + 1)
<1>1. /\ Draining /\ HeadEnds # {} /\ script[Req].body <= MaxBody /\ frame.cursor < Len(buf)
      /\ pc = "drain"
  BY DEF Admitted, Found, Draining
<1>2. /\ Through \in Nat /\ Through + 1 \in 1..Len(script) /\ Req = Through + 1
      /\ Total = frame.cursor + z /\ RequestLen = z
  BY <1>1, HeadFound
<1>3. script \in Seq(Request) /\ [tls |-> tls, script |-> script] \in Clients /\ tls \in BOOLEAN
  BY DEF IInv, Incoming
<1>4. z \in Nat \ {0} BY <1>2, <1>3, SizeFacts
<1>5. tls => z <= BufSize \/ Through + 1 = Len(script)
  <2> DEFINE c == [tls |-> tls, script |-> script]
  <2>1. c \in Clients /\ c.tls = tls /\ c.script = script BY <1>3
  <2> HIDE DEF c
  <2>2. tls => \A r \in 1..Len(script) :
                 script[r].body <= MaxBody => SizeIn(script, r) <= BufSize \/ r = Len(script)
    BY <2>1 DEF NoSpill
  <2> QED BY <1>1, <1>2, <2>2
<1>6. Placed(script, buf, tlsin \o net, overflow, Through, frame.cursor, next)
  BY <1>1, DrainFacts
<1>7. overflow # 0 => frame.cursor = 0 /\ overflow >= z
  <2>1. Len(buf) \in Nat /\ frame.cursor \in 0..Len(buf) BY LengthFacts
  <2> HIDE DEF z
  <2>2. overflow # 0 => \/ frame.cursor = 0 /\ overflow >= z
                        \/ Len(buf) = frame.cursor
    BY <1>6 DEF Placed, z
  <2> QED BY <1>1, <2>1, <2>2
<1> QED BY <1>1, <1>2, <1>4, <1>5, <1>7

LEMMA GrowForBodyKeeps == IInv /\ NoSpill /\ GrowForBody => IInv'
<1> SUFFICES ASSUME IInv, NoSpill, GrowForBody PROVE IInv'
  OBVIOUS
<1> DEFINE z == SizeIn(script, Through + 1)
<1>1. /\ Admitted /\ RequestLen > activeLen
      /\ overflow' = RequestLen + (IF tls THEN InSize ELSE 0)
      /\ buf' = IF frame.cursor > 0 /\ overflow # 0 THEN <<>> ELSE DropFirst(buf, frame.cursor)
      /\ frame' = [frame EXCEPT !.cursor = 0] /\ pc' = "exit"
      /\ UNCHANGED <<tls, script, next, net, tlsin, conn, pend, job, out, dispatched>>
  BY DEF GrowForBody, client, reply
<1>2. /\ Draining /\ Through + 1 \in 1..Len(script) /\ RequestLen = z /\ z \in Nat \ {0}
      /\ tls => z <= BufSize \/ Through + 1 = Len(script)
      /\ overflow # 0 => overflow >= z
  BY <1>1, AdmittedFacts
<1>3. pc = "drain" BY <1>2 DEF Draining
<1>4. /\ ~conn.awaiting /\ ~conn.closing /\ Answers = out \o frame.cork
      /\ Placed(script, buf, tlsin \o net, overflow, Through, frame.cursor, next)
  BY <1>3, DrainFacts
<1> DEFINE ov == overflow'
<1>5. overflow = 0 /\ activeLen = BufSize
  <2> HIDE DEF z
  <2>1. overflow \in Nat BY DEF IInv, Buffered
  <2>2. overflow = 0 BY <1>1, <1>2, <2>1 DEF activeLen
  <2> QED BY <2>2 DEF activeLen
<1>6. /\ ov \in Nat /\ ov >= z /\ (ov = z \/ Through + 1 = Len(script))
      /\ buf' = DropFirst(buf, frame.cursor)
  <2> HIDE DEF z
  <2>1. z > BufSize /\ ov = z + (IF tls THEN InSize ELSE 0) BY <1>1, <1>2, <1>5
  <2>2. tls => Through + 1 = Len(script) BY <1>2, <2>1, SizesPositive
  <2> QED BY <1>1, <1>2, <1>5, <2>1, <2>2, SizesPositive
<1> HIDE DEF ov
<1>7. Len(buf) \in Nat /\ frame.cursor \in 0..Len(buf) /\ Len(buf) <= BufSize
  BY <1>5, LengthFacts DEF IInv, Buffered
<1>8. script \in Seq(Request) /\ buf \in Seq(Pairs) BY DEF IInv, Incoming, Buffered
<1>9. buf' \in Seq(Pairs) /\ Len(buf') = Len(buf) - frame.cursor BY <1>6, <1>7, <1>8, DropFacts
<1>10. Len(buf') \in Nat /\ Len(buf') < z /\ z > BufSize
  <2>1. z > BufSize BY <1>1, <1>2, <1>5
  <2> HIDE DEF z
  <2> QED BY <1>2, <1>7, <1>9, <2>1, SizesPositive
<1>11. activeLen' = ov
  <2> HIDE DEF z
  <2> QED BY <1>2, <1>6 DEF activeLen, ov
<1>12. /\ frame' \in Frames /\ frame'.cursor = 0 /\ frame'.cork = frame.cork
       /\ frame'.ret = frame.ret
  <2>1. frame \in Frames BY DEF IInv, Server
  <2> QED BY <1>1, <2>1 DEF Frames
<1>13. Answers' = Answers /\ Mark' = 0
  BY <1>1, <1>4, <1>12 DEF Answers, Mark
<1>14. Through' = Through BY <1>1, <1>4, <1>13 DEF Through
<1>15. Placed(script, buf', tlsin \o net, ov, Through, 0, next)
  <2>1. Placed(script, buf, tlsin \o net, 0, Through, frame.cursor, next) BY <1>4, <1>5
  <2>2. Through < Len(script)
    <3>1. Through \in Nat BY <1>1, AdmittedFacts
    <3> QED BY <1>2, <3>1
  <2> QED BY <1>6, <1>8, <2>1, <2>2, PlacedGrow
<1>16. Incoming' BY <1>1 DEF IInv, Incoming
<1>17. Buffered'
  <2> HIDE DEF z
  <2>1. Len(buf') <= ov /\ ov \in Nat /\ 0 <= Len(buf') BY <1>2, <1>6, <1>10
  <2> QED BY <1>9, <1>11, <1>12, <2>1 DEF Buffered, ov
<1>18. Server' BY <1>1, <1>12 DEF IInv, Server
<1>19. Phase' BY <1>1, <1>3, <1>4, <1>12 DEF IInv, Phase
<1>20. Order' BY <1>1, <1>4, <1>13, <1>14, OrderKept
<1>21. Place' BY <1>1, <1>13, <1>14, <1>15 DEF Place, ov
<1>22. Space'
  <2>1. Room' > 0
    <3>1. Room' = ov - Len(buf') BY <1>11 DEF Room
    <3> DEFINE c == Len(buf')
    <3>2. c \in Nat /\ c < z /\ z \in Nat BY <1>2, <1>10
    <3> HIDE DEF c, z
    <3>3. ov - c > 0 BY <1>6, <3>2
    <3> QED BY <3>1, <3>3 DEF c
  <2> QED BY <1>1, <1>3, <1>12, <2>1 DEF IInv, Space, StreamLast
<1> QED BY <1>16, <1>17, <1>18, <1>19, <1>20, <1>21, <1>22 DEF IInv

LEMMA AwaitBodyKeeps == IInv /\ NoSpill /\ AwaitBody => IInv'
<1> SUFFICES ASSUME IInv, NoSpill, AwaitBody PROVE IInv'
  OBVIOUS
<1> DEFINE z == SizeIn(script, Through + 1)
<1>1. /\ Admitted /\ RequestLen <= activeLen /\ Len(buf) < Total
      /\ \/ frame.cursor = 0 /\ buf' = buf /\ overflow' = overflow
         \/ frame.cursor > 0 /\ finishRequest(frame.cursor)
      /\ frame' = [frame EXCEPT !.cursor = 0] /\ pc' = "exit"
      /\ UNCHANGED <<tls, script, next, net, tlsin, conn, pend, job, out, dispatched>>
  BY DEF AwaitBody, client, reply
<1>2. /\ Draining /\ RequestLen = z /\ z \in Nat \ {0} /\ Total = frame.cursor + z
      /\ overflow # 0 => frame.cursor = 0
  BY <1>1, AdmittedFacts
<1>3. pc = "drain" BY <1>2 DEF Draining
<1>4. /\ ~conn.awaiting /\ ~conn.closing /\ Answers = out \o frame.cork
      /\ Placed(script, buf, tlsin \o net, overflow, Through, frame.cursor, next)
  BY <1>3, DrainFacts
<1>5. /\ Len(buf) \in Nat /\ frame.cursor \in 0..Len(buf) /\ activeLen \in Nat
      /\ Room = activeLen - Len(buf)
  BY LengthFacts
<1>6. script \in Seq(Request) /\ buf \in Seq(Pairs) /\ overflow \in Nat
  BY DEF IInv, Incoming, Buffered
<1> HIDE DEF z
<1>7. /\ buf' \in Seq(Pairs) /\ overflow' \in Nat /\ Len(buf') \in Nat /\ Len(buf') <= activeLen'
      /\ Room' > 0 /\ Placed(script, buf', tlsin \o net, overflow', Through, 0, next)
      /\ overflow' # 0 => overflow # 0
  <2>1. CASE frame.cursor = 0 /\ buf' = buf /\ overflow' = overflow
    <3>1. activeLen' = activeLen BY <2>1 DEF activeLen
    <3>2. Len(buf) < activeLen BY <1>1, <1>2, <1>5, <2>1
    <3>3. Room' = Room BY <2>1, <3>1 DEF Room
    <3>4. Room > 0 BY <1>5, <3>2
    <3> QED BY <1>4, <1>5, <1>6, <2>1, <3>1, <3>2, <3>3, <3>4
  <2>2. CASE frame.cursor > 0 /\ finishRequest(frame.cursor)
    <3>1. /\ overflow' = 0 /\ buf' = IF overflow # 0 THEN <<>> ELSE DropFirst(buf, frame.cursor)
          /\ buf' \in Seq(Pairs) /\ Len(buf') \in Nat /\ Len(buf') < BufSize
          /\ activeLen' = BufSize /\ Room' > 0
      BY <1>5, <2>2, FinishFacts
    <3>2. Placed(script, buf', tlsin \o net, 0, Through, 0, next)
      BY <1>4, <1>6, <2>2, <3>1, PlacedFinish
    <3>3. Len(buf') <= activeLen' BY <3>1, SizesPositive
    <3> QED BY <3>1, <3>2, <3>3
  <2> QED BY <1>1, <2>1, <2>2
<1>8. /\ frame' \in Frames /\ frame'.cursor = 0 /\ frame'.cork = frame.cork
      /\ frame'.ret = frame.ret
  <2>1. frame \in Frames BY DEF IInv, Server
  <2> QED BY <1>1, <2>1 DEF Frames
<1>9. Answers' = Answers /\ Mark' = 0 BY <1>1, <1>4, <1>8 DEF Answers, Mark
<1>10. Through' = Through BY <1>1, <1>4, <1>9 DEF Through
<1>11. Incoming' BY <1>1 DEF IInv, Incoming
<1>12. Buffered' BY <1>7, <1>8 DEF Buffered
<1>13. Server' BY <1>1, <1>8 DEF IInv, Server
<1>14. Phase' BY <1>1, <1>3, <1>4, <1>8 DEF IInv, Phase
<1>15. Order' BY <1>1, <1>4, <1>9, <1>10, OrderKept
<1>16. Place' BY <1>1, <1>4, <1>7, <1>9, <1>10 DEF Place
<1>17. Space' BY <1>1, <1>3, <1>7, <1>8 DEF IInv, Space, StreamLast
<1> QED BY <1>11, <1>12, <1>13, <1>14, <1>15, <1>16, <1>17 DEF IInv

(* The request is all there. *)
LEMMA CompleteFacts ==
  ASSUME IInv, NoSpill, Complete
  PROVE  /\ pc = "drain" /\ Through \in Nat /\ Req = Through + 1 /\ Req \in 1..Len(script)
         /\ Total \in Nat \ {0} /\ Total <= Len(buf)
         /\ Placed(script, buf, tlsin \o net, overflow, Through + 1, Total, next)
         /\ SizeIn(script, Req) \in Nat /\ Total = frame.cursor + SizeIn(script, Req)
         /\ \A k \in 1..SizeIn(script, Req) : buf[frame.cursor + k] = <<Req, k>>
<1> DEFINE z == SizeIn(script, Through + 1)
<1>1. Admitted /\ Len(buf) >= Total BY DEF Complete
<1>2. /\ Draining /\ Through \in Nat /\ Through + 1 \in 1..Len(script) /\ Req = Through + 1
      /\ z \in Nat \ {0} /\ Total = frame.cursor + z
  BY <1>1, AdmittedFacts
<1>3. pc = "drain" BY <1>2 DEF Draining
<1>4. Placed(script, buf, tlsin \o net, overflow, Through, frame.cursor, next)
  BY <1>3, DrainFacts
<1>5. Len(buf) \in Nat /\ frame.cursor \in 0..Len(buf) BY LengthFacts
<1>6. script \in Seq(Request) /\ buf \in Seq(Pairs) /\ overflow \in Nat
  BY DEF IInv, Incoming, Buffered
<1>7. overflow # 0 => Len(buf) <= overflow BY DEF IInv, Buffered, activeLen
<1>8. Through < Len(script) /\ frame.cursor + z <= Len(buf) BY <1>1, <1>2, <1>5, <1>6
<1>9. /\ Placed(script, buf, tlsin \o net, overflow, Through + 1, frame.cursor + z, next)
      /\ \A k \in 1..z : buf[frame.cursor + k] = <<Through + 1, k>>
  <2> DEFINE th == Through
             mk == frame.cursor
             q == tlsin \o net
  <2>1. /\ Placed(script, buf, q, overflow, th, mk, next) /\ th < Len(script)
        /\ mk + SizeIn(script, th + 1) <= Len(buf)
    BY <1>4, <1>8
  <2> HIDE DEF th, mk, q, z
  <2>2. Placed(script, buf, q, overflow, th + 1, mk + SizeIn(script, th + 1), next)
    BY <1>6, <1>7, <2>1, PlacedAdvance
  <2>3. \A k \in 1..SizeIn(script, th + 1) : buf[mk + k] = <<th + 1, k>>
    <3>1. /\ th \in 0..Len(script) /\ mk \in 0..Len(buf)
          /\ Run(script, buf, Offsets(script)[th + 1] - mk)
      BY <2>1 DEF Placed
    <3>2. \A k \in 1..Len(buf) - mk :
            k <= SizeIn(script, th + 1) => buf[mk + k] = <<th + 1, k>>
      BY <1>6, <3>1, NextInBuffer
    <3> DEFINE y == SizeIn(script, th + 1)
               n == Len(buf)
    <3>3. y \in Nat /\ n \in Nat /\ mk \in 0..n /\ mk + y <= n BY <1>2, <1>5, <2>1, <3>1 DEF z, th
    <3> HIDE DEF y, n
    <3>4. \A k \in 1..y : k \in 1..n - mk /\ k <= y BY <3>3
    <3> QED BY <3>2, <3>4 DEF y, n
  <2> QED BY <2>2, <2>3 DEF th, mk, q, z
<1>10. Total \in Nat \ {0} /\ Total <= Len(buf)
  <2> HIDE DEF z
  <2> QED BY <1>2, <1>5, <1>8
<1> QED BY <1>2, <1>3, <1>9, <1>10

(* Both ways of answering at once: the cork goes out before or behind. *)
LEMMA AnsweredKeeps ==
  ASSUME IInv, NoSpill, Complete, Answers' = Append(Answers, Response(Req, "full")),
         frame' \in Frames, frame'.cursor = Total, frame'.ret = frame.ret, pc' = "drain",
         out' \in Seq(Responses),
         dispatched' = dispatched \/ dispatched' = Append(dispatched, Req),
         UNCHANGED <<tls, script, next, net, buf, overflow, tlsin, conn, pend, job>>
  PROVE  IInv'
<1>1. /\ pc = "drain" /\ Through \in Nat /\ Req = Through + 1 /\ Req \in 1..Len(script)
      /\ Total \in Nat \ {0} /\ Total <= Len(buf)
      /\ Placed(script, buf, tlsin \o net, overflow, Through + 1, Total, next)
  BY CompleteFacts
<1>2. ~conn.awaiting /\ ~conn.closing BY <1>1, DrainFacts
<1> DEFINE x == Response(Req, "full")
<1>3. x \in Responses /\ x.req = Through + 1 /\ x.part = "full" BY <1>1, ResponseFacts
<1> HIDE DEF x
<1>4. Answers' = Append(Answers, x) BY DEF x
<1>5. Order' /\ Through' = Through + 1 /\ dispatched' \in Seq(Nat)
  BY <1>1, <1>2, <1>3, <1>4, AnswerOrder
<1>6. Mark' = Total BY <1>2 DEF Mark
<1>7. Incoming' BY DEF IInv, Incoming
<1>8. Buffered' BY <1>1 DEF IInv, Buffered, activeLen
<1>9. Server' BY <1>5 DEF IInv, Server
<1>10. Phase' BY <1>1, <1>2 DEF IInv, Phase
<1>11. Place' BY <1>1, <1>2, <1>5, <1>6 DEF Place
<1>12. Space' BY <1>1 DEF IInv, Space, StreamLast
<1> QED BY <1>5, <1>7, <1>8, <1>9, <1>10, <1>11, <1>12 DEF IInv

LEMMA AnswerIntoCorkKeeps == IInv /\ NoSpill /\ AnswerIntoCork => IInv'
<1> SUFFICES ASSUME IInv, NoSpill, AnswerIntoCork PROVE IInv'
  OBVIOUS
<1> DEFINE x == Response(Req, "full")
<1>1. /\ Complete /\ out' = Flushed /\ pc' = pc
      /\ frame' = [frame EXCEPT !.cork = Append(Corked, x), !.cursor = Total,
                                !.keep_alive = @ /\ ~script[Req].close]
      /\ dispatched' = dispatched \/ dispatched' = Append(dispatched, Req)
      /\ UNCHANGED <<tls, script, next, net, buf, overflow, tlsin, conn, pend, job>>
  BY DEF AnswerIntoCork, client
<1>2. pc = "drain" /\ Req \in 1..Len(script) /\ Total \in Nat BY <1>1, CompleteFacts
<1>3. x \in Responses BY <1>2, ResponseFacts
<1>4. frame \in Frames /\ out \in Seq(Responses) /\ frame.cork \in Seq(Responses)
  BY DEF IInv, Server, Frames
<1>5. script[Req].close \in BOOLEAN
  <2>1. script[Req] \in Request BY <1>2 DEF IInv, Incoming
  <2> QED BY <2>1 DEF Request
<1> HIDE DEF x
<1>6. out' \in Seq(Responses) /\ Corked \in Seq(Responses)
      /\ out' \o Append(Corked, x) = Append(out \o frame.cork, x)
  <2>1. CASE CorkFull
    <3>1. out' = out \o frame.cork /\ Corked = <<>> BY <1>1, <2>1 DEF Flushed, Corked
    <3> QED BY <1>3, <1>4, <3>1, CorkFacts
  <2>2. CASE ~CorkFull
    <3>1. out' = out /\ Corked = frame.cork BY <1>1, <2>2 DEF Flushed, Corked
    <3> QED BY <1>3, <1>4, <3>1, CorkFacts
  <2> QED BY <2>1, <2>2
<1>7. /\ frame' \in Frames /\ frame'.cork = Append(Corked, x) /\ frame'.cursor = Total
      /\ frame'.ret = frame.ret
  <2>1. Append(Corked, x) \in Seq(Responses) BY <1>3, <1>6
  <2> QED BY <1>1, <1>2, <1>4, <1>5, <2>1 DEF Frames
<1>8. Answers' = Append(Answers, x)
  <2>1. Answers' = out' \o Append(Corked, x) BY <1>1, <1>2, <1>7 DEF Answers
  <2>2. Answers = out \o frame.cork BY <1>2, DrainFacts
  <2> QED BY <1>6, <2>1, <2>2
<1> QED BY <1>1, <1>2, <1>6, <1>7, <1>8, AnsweredKeeps DEF x

LEMMA AnswerDirectKeeps == IInv /\ NoSpill /\ AnswerDirect => IInv'
<1> SUFFICES ASSUME IInv, NoSpill, AnswerDirect PROVE IInv'
  OBVIOUS
<1> DEFINE x == Response(Req, "full")
<1>1. /\ Complete /\ out' = Append(out \o frame.cork, x) /\ pc' = pc
      /\ frame' = [frame EXCEPT !.cork = <<>>, !.cursor = Total,
                                !.keep_alive = @ /\ ~script[Req].close]
      /\ UNCHANGED <<tls, script, next, net, buf, overflow, tlsin, conn, pend, job, dispatched>>
  BY DEF AnswerDirect, client
<1>2. pc = "drain" /\ Req \in 1..Len(script) /\ Total \in Nat BY <1>1, CompleteFacts
<1>3. x \in Responses BY <1>2, ResponseFacts
<1>4. frame \in Frames /\ out \in Seq(Responses) /\ frame.cork \in Seq(Responses)
  BY DEF IInv, Server, Frames
<1>5. script[Req].close \in BOOLEAN
  <2>1. script[Req] \in Request BY <1>2 DEF IInv, Incoming
  <2> QED BY <2>1 DEF Request
<1> HIDE DEF x
<1>6. out \o frame.cork \in Seq(Responses) /\ <<>> \in Seq(Responses) BY <1>3, <1>4, CorkFacts
<1>7. out' \in Seq(Responses) BY <1>1, <1>3, <1>6, AppendFacts
<1>8. /\ frame' \in Frames /\ frame'.cork = <<>> /\ frame'.cursor = Total
      /\ frame'.ret = frame.ret
  BY <1>1, <1>2, <1>4, <1>5, <1>6 DEF Frames
<1>9. Answers' = Append(Answers, x)
  <2>1. Answers' = Append(out \o frame.cork, x) \o <<>> BY <1>1, <1>2, <1>8 DEF Answers
  <2>2. Answers = out \o frame.cork BY <1>2, DrainFacts
  <2> QED BY <1>3, <1>4, <2>1, <2>2, CorkFacts
<1> QED BY <1>1, <1>2, <1>7, <1>8, <1>9, AnsweredKeeps DEF x

(* A handler is awaited: its request stays where it is. *)
LEMMA SuspendKeeps == IInv /\ NoSpill /\ Suspend => IInv'
<1> SUFFICES ASSUME IInv, NoSpill, Suspend PROVE IInv'
  OBVIOUS
<1>1. /\ Complete /\ script[Req].mode \in {"async", "stream"}
      /\ out' = out \o frame.cork /\ dispatched' = Append(dispatched, Req)
      /\ pend' = [consume |-> Total, keep_alive |-> ~script[Req].close, req |-> Req]
      /\ job' = script[Req].mode /\ pc' = "loop"
      /\ conn' = [conn EXCEPT !.awaiting = TRUE, !.reading = FALSE,
                              !.closing = (frame.ret = "closed")]
      /\ UNCHANGED <<tls, script, next, net, buf, overflow, tlsin, frame>>
  BY DEF Suspend, client
<1>2. /\ pc = "drain" /\ Through \in Nat /\ Req = Through + 1 /\ Req \in 1..Len(script)
      /\ Total \in Nat \ {0} /\ Total <= Len(buf)
      /\ Placed(script, buf, tlsin \o net, overflow, Through + 1, Total, next)
      /\ SizeIn(script, Req) \in Nat /\ Total = frame.cursor + SizeIn(script, Req)
      /\ \A k \in 1..SizeIn(script, Req) : buf[frame.cursor + k] = <<Req, k>>
  BY <1>1, CompleteFacts
<1>3. /\ Answers = out \o frame.cork /\ Answers \in Seq(Responses)
      /\ Ordered(Answers) /\ Whole(Answers) /\ Through = Handled(Answers)
  BY <1>2, DrainFacts
<1>4. script \in Seq(Request) /\ buf \in Seq(Pairs) /\ Len(buf) \in Nat
      /\ frame.cursor \in 0..Len(buf)
  BY LengthFacts DEF IInv, Incoming, Buffered
<1>5. script[Req].close \in BOOLEAN
  <2>1. script[Req] \in Request BY <1>2, <1>4
  <2> QED BY <2>1 DEF Request
<1>6. conn \in [awaiting : BOOLEAN, reading : BOOLEAN, closing : BOOLEAN] BY DEF IInv, Server
<1>7. /\ conn' \in [awaiting : BOOLEAN, reading : BOOLEAN, closing : BOOLEAN]
      /\ conn'.awaiting /\ ~conn'.reading
  BY <1>1, <1>6
<1>8. /\ pend' \in [consume : Nat, keep_alive : BOOLEAN, req : Nat]
      /\ pend'.req = Req /\ pend'.consume = Total
  BY <1>1, <1>2, <1>5
<1>9. Answers' = Answers /\ Answers' = out' BY <1>1, <1>3 DEF Answers
<1>10. Through' = Req /\ Mark' = Total BY <1>7, <1>8 DEF Through, Mark
<1>11. /\ dispatched \in Seq(Nat) /\ \A i \in 1..Len(dispatched) : dispatched[i] <= Through
       /\ \A i, j \in 1..Len(dispatched) : i < j => dispatched[i] < dispatched[j]
  BY DEF IInv, Server, Order, DispatchOnce
<1>12. /\ dispatched' \in Seq(Nat)
       /\ \A i \in 1..Len(dispatched') : dispatched'[i] <= Req
       /\ \A i, j \in 1..Len(dispatched') : i < j => dispatched'[i] < dispatched'[j]
  BY <1>1, <1>2, <1>11, DispatchedMore
<1>13. AwaitedIntact'
  <2> DEFINE z == SizeIn(script, Req)
             w == SubSeq(buf, Total - z + 1, Total)
  <2>1. Size(Req) = z BY DEF Size, SizeIn
  <2>2. Total - z + 1 = frame.cursor + 1 /\ z \in Nat /\ frame.cursor \in Nat
    BY <1>2, <1>4
  <2>3. w = SubSeq(buf, frame.cursor + 1, Total) BY <2>2
  <2> DEFINE v == [k \in 1..z |-> <<Req, k>>]
  <2>4. v \in Seq(Pairs) /\ Len(v) = z /\ \A k \in 1..z : v[k] = <<Req, k>>
    <3>1. \A k \in 1..z : <<Req, k>> \in Pairs BY <1>2 DEF Pairs
    <3>2. v \in [1..z -> Pairs] BY <3>1
    <3>3. \A k \in 1..z : v[k] = <<Req, k>> OBVIOUS
    <3> HIDE DEF v
    <3> QED BY <2>2, <3>2, <3>3, FunctionIsSeq
  <2>5. w \in Seq(Pairs) /\ Len(w) = z /\ \A k \in 1..z : w[k] = <<Req, k>>
    <3> DEFINE c == frame.cursor
    <3>1. c \in Nat /\ Total = c + z /\ z \in Nat /\ Total <= Len(buf) /\ w = SubSeq(buf, c + 1, Total)
      BY <1>2, <2>2, <2>3
    <3>2. \A k \in 1..z : buf[c + k] = <<Req, k>> BY <1>2
    <3> HIDE DEF c, z, w
    <3>3. w \in Seq(Pairs) /\ Len(w) = z /\ \A k \in 1..z : w[k] = buf[c + k]
      <4> DEFINE t == c + z
      <4>1. t \in Nat /\ t <= Len(buf) /\ w = SubSeq(buf, c + 1, t) BY <3>1
      <4>2. z = t - c BY <3>1
      <4> QED BY <1>4, <3>1, <4>1, <4>2
    <3> QED BY <3>2, <3>3
  <2>6. w = v
    <3> HIDE DEF v, w, z
    <3>1. Len(w) = Len(v) /\ \A k \in 1..Len(w) : w[k] = v[k] BY <2>4, <2>5
    <3> QED BY <2>4, <2>5, <3>1, SeqEqual
  <2>7. script' = script /\ buf' = buf BY <1>1
  <2>8. Size(pend.req)' = z BY <1>8, <2>7 DEF Size, SizeIn
  <2>9. Units(pend.req)' = v BY <1>8, <2>8 DEF Units
  <2>10. SubSeq(buf', Total - z + 1, Total) = v BY <2>6, <2>7
  <2> HIDE DEF v, w, z
  <2> QED BY <1>2, <1>8, <2>7, <2>8, <2>9, <2>10 DEF AwaitedIntact
<1>14. Incoming' BY <1>1 DEF IInv, Incoming
<1>15. Buffered' BY <1>1 DEF IInv, Buffered, activeLen
<1>16. Server'
  <2>1. job' \in {"async", "stream"} BY <1>1
  <2>2. out' \in Seq(Responses) BY <1>3, <1>9
  <2>3. Req <= Len(script) BY <1>2, <1>4
  <2> QED BY <1>1, <1>7, <1>8, <1>12, <2>1, <2>2, <2>3 DEF IInv, Server
<1>17. Phase' BY <1>1, <1>7 DEF Phase
<1>18. Order'
  <2>1. Progress'
    <3>1. Whole(out') /\ Req = Handled(out') + 1 BY <1>2, <1>3, <1>9
    <3> QED BY <1>1, <1>2, <1>8, <3>1 DEF Progress
  <2> QED BY <1>3, <1>7, <1>9, <1>10, <1>12, <1>13, <2>1 DEF Order, DispatchOnce
<1>19. Place' BY <1>1, <1>2, <1>3, <1>10 DEF Place
<1>20. Space' BY <1>1, <1>7 DEF Space
<1> QED BY <1>14, <1>15, <1>16, <1>17, <1>18, <1>19, <1>20 DEF IInv


LEMMA DrainExitKeeps == IInv /\ DrainExit => IInv'
<1> SUFFICES ASSUME IInv, DrainExit PROVE IInv'
  OBVIOUS
<1>1. /\ pc = "exit"
      /\ \/ frame.cursor = 0 /\ buf' = buf /\ overflow' = overflow
         \/ frame.cursor > 0 /\ finishRequest(frame.cursor)
      /\ out' = out \o frame.cork
      /\ \/ /\ ~frame.keep_alive \/ frame.ret = "closed"
            /\ conn' = Closed(conn) /\ pc' = "loop"
         \/ frame.keep_alive /\ frame.ret # "closed" /\ pc' = frame.ret /\ conn' = conn
      /\ frame' = [frame EXCEPT !.cursor = 0, !.cork = <<>>]
      /\ UNCHANGED <<tls, script, next, net, tlsin, pend, job, dispatched>>
  BY DEF DrainExit, client
<1>2. /\ ~conn.awaiting /\ ~conn.closing /\ job = "none"
      /\ frame.ret # "loop" => tls
  BY <1>1 DEF IInv, Phase
<1>3. /\ frame \in Frames /\ out \in Seq(Responses) /\ frame.cork \in Seq(Responses)
      /\ frame.ret \in {"loop", "retry", "closed"}
      /\ conn \in [awaiting : BOOLEAN, reading : BOOLEAN, closing : BOOLEAN]
  BY DEF IInv, Server, Frames
<1>4. script \in Seq(Request) /\ buf \in Seq(Pairs) /\ overflow \in Nat
      /\ Len(buf) \in Nat /\ frame.cursor \in 0..Len(buf)
  BY LengthFacts DEF IInv, Incoming, Buffered
<1>5. /\ frame' \in Frames /\ frame'.cursor = 0 /\ frame'.ret = frame.ret
  <2>1. <<>> \in Seq(Responses) OBVIOUS
  <2> QED BY <1>1, <1>3, <2>1 DEF Frames
<1>6. pc' \in {"loop", "retry"} BY <1>1, <1>3
<1>7. out' \in Seq(Responses) BY <1>1, <1>3, CorkFacts
<1>8. /\ conn' \in [awaiting : BOOLEAN, reading : BOOLEAN, closing : BOOLEAN]
      /\ ~conn'.awaiting
      /\ ~conn'.closing => /\ conn' = conn /\ frame.keep_alive /\ frame.ret # "closed"
                           /\ pc' = frame.ret
      /\ conn'.closing => pc' = "loop" /\ ~conn'.reading
  <2>1. CASE conn' = Closed(conn) /\ pc' = "loop" BY <1>2, <1>3, <2>1, ClosedFacts
  <2>2. CASE frame.keep_alive /\ frame.ret # "closed" /\ pc' = frame.ret /\ conn' = conn
    BY <1>2, <1>3, <2>2
  <2> QED BY <1>1, <2>1, <2>2
<1>9. Answers = out' BY <1>1 DEF Answers
<1>10. Answers' = out' BY <1>6 DEF Answers
<1>11. Through' = Through /\ Through = Handled(out') /\ Mark = frame.cursor /\ Mark' = 0
  BY <1>2, <1>5, <1>8, <1>9, <1>10 DEF Through, Mark
<1>12. /\ buf' \in Seq(Pairs) /\ overflow' \in Nat /\ Len(buf') \in Nat /\ Len(buf') <= activeLen'
       /\ frame.keep_alive => Room' > 0
  <2>1. CASE frame.cursor = 0 /\ buf' = buf /\ overflow' = overflow
    <3>1. activeLen' = activeLen BY <2>1 DEF activeLen
    <3>2. Room' = Room BY <2>1, <3>1 DEF Room
    <3>3. frame.keep_alive => Room > 0 BY <1>1, <2>1 DEF IInv, Space
    <3>4. Len(buf) <= activeLen BY DEF IInv, Buffered
    <3> QED BY <1>4, <2>1, <3>1, <3>2, <3>3, <3>4
  <2>2. CASE frame.cursor > 0 /\ finishRequest(frame.cursor)
    BY <1>4, <2>2, FinishFacts, SizesPositive
  <2> QED BY <1>1, <2>1, <2>2
<1>13. Incoming' BY <1>1 DEF IInv, Incoming
<1>14. Buffered' BY <1>5, <1>12 DEF Buffered
<1>15. Server' BY <1>1, <1>5, <1>6, <1>7, <1>8 DEF IInv, Server
<1>16. Phase' BY <1>1, <1>2, <1>5, <1>6, <1>8 DEF Phase
<1>17. Order' BY <1>1, <1>2, <1>8, <1>9, <1>10, <1>11, OrderKept
<1>18. Place'
  <2> SUFFICES ASSUME Tracked' PROVE Placed(script, buf', tlsin \o net, overflow', Through, 0, next)
    BY <1>1, <1>11 DEF Place
  <2>1. ~conn'.closing BY DEF Tracked
  <2>2. Tracked BY <1>2, <1>8, <2>1 DEF Tracked
  <2>3. Placed(script, buf, tlsin \o net, overflow, Through, frame.cursor, next)
    BY <1>11, <2>2 DEF IInv, Place
  <2>4. CASE frame.cursor = 0 /\ buf' = buf /\ overflow' = overflow BY <2>3, <2>4
  <2>5. CASE frame.cursor > 0 /\ finishRequest(frame.cursor)
    <3>1. overflow' = 0 /\ buf' = IF overflow # 0 THEN <<>> ELSE DropFirst(buf, frame.cursor)
      BY <1>4, <2>5, FinishFacts
    <3> QED BY <1>4, <2>3, <2>5, <3>1, PlacedFinish
  <2> QED BY <1>1, <2>4, <2>5
<1>19. Space'
  <2>1. pc' = "loop" /\ conn'.reading => Room' > 0 /\ frame.ret = "loop" BY <1>8, <1>12
  <2>2. tls /\ StreamLast /\ frame.ret = "loop" => Idle(tlsin) BY <1>1 DEF IInv, Space
  <2> QED BY <1>1, <1>6, <2>1, <2>2 DEF Space, StreamLast
<1> QED BY <1>13, <1>14, <1>15, <1>16, <1>17, <1>18, <1>19 DEF IInv

-----------------------------------------------------------------------------
(* JavaScript answers the awaited request. *)

LEMMA AwaitedFacts ==
  ASSUME IInv, pc = "loop", job # "none", ~conn.closing
  PROVE  /\ conn.awaiting /\ ~conn.reading /\ Answers = out /\ Ordered(out)
         /\ Through = pend.req /\ Mark = pend.consume
         /\ pend.req \in 1..Len(script) /\ pend.consume \in 0..Len(buf) /\ pend.consume > 0
         /\ Placed(script, buf, tlsin \o net, overflow, pend.req, pend.consume, next)
         /\ job = "async" \/ script[pend.req].mode = "stream"
         /\ job \in {"async", "stream"} => Whole(out) /\ pend.req = Handled(out) + 1
         /\ job \in {"chunks", "last"} =>
              out # <<>> /\ out[Len(out)].req = pend.req /\ out[Len(out)].part \in {"head", "chunk"}
<1>1. conn.awaiting BY DEF IInv, Phase
<1>2. ~conn.reading BY <1>1 DEF IInv, Phase
<1>3. Answers = out BY DEF Answers
<1>4. Ordered(out) BY <1>3 DEF IInv, Order
<1>5. Through = pend.req /\ Mark = pend.consume BY <1>1 DEF Through, Mark
<1>6. Progress /\ AwaitedIntact BY DEF IInv, Order
<1>7. Tracked BY DEF Tracked
<1>8. Placed(script, buf, tlsin \o net, overflow, pend.req, pend.consume, next)
  BY <1>5, <1>7 DEF IInv, Place
<1>9. pend.consume \in 0..Len(buf) BY <1>8 DEF Placed
<1> QED BY <1>1, <1>2, <1>3, <1>4, <1>5, <1>6, <1>8, <1>9 DEF Progress

(* A part of a stream that is not its last. *)
LEMMA PartKeeps ==
  ASSUME IInv, pc = "loop", ~conn.closing, job # "none",
         NEW part \in {"head", "chunk"}, out' = Append(out, Response(pend.req, part)),
         \/ job = "stream" /\ part = "head"
         \/ job = "chunks" /\ part = "chunk",
         job' \in {"chunks", "last"},
         UNCHANGED <<tls, script, next, net, buf, overflow, tlsin, conn, pend, frame, pc, dispatched>>
  PROVE  IInv'
<1>1. /\ conn.awaiting /\ ~conn.reading /\ Answers = out /\ Ordered(out)
      /\ Through = pend.req /\ Mark = pend.consume
      /\ pend.req \in 1..Len(script) /\ pend.consume > 0
      /\ script[pend.req].mode = "stream"
      /\ job = "stream" => Whole(out) /\ pend.req = Handled(out) + 1
      /\ job = "chunks" =>
           out # <<>> /\ out[Len(out)].req = pend.req /\ out[Len(out)].part \in {"head", "chunk"}
  BY AwaitedFacts
<1> DEFINE x == Response(pend.req, part)
<1>2. x \in Responses /\ x.req = pend.req /\ x.part = part BY <1>1, ResponseFacts
<1>3. out \in Seq(Responses) BY DEF IInv, Server
<1>4. out' = Append(out, x) OBVIOUS
<1> HIDE DEF x
<1>5. Ordered(out')
  <2>1. CASE job = "stream" /\ part = "head" BY <1>1, <1>2, <1>3, <1>4, <2>1, OrderedNext
  <2>2. CASE job = "chunks" /\ part = "chunk" BY <1>1, <1>2, <1>3, <1>4, <2>2, OrderedPart
  <2> QED BY <2>1, <2>2
<1>6. /\ out' \in Seq(Responses) /\ out' # <<>> /\ Len(out') = Len(out) + 1
      /\ out'[Len(out) + 1] = x
  BY <1>2, <1>3, <1>4, AppendFacts
<1>7. Answers' = out' BY DEF Answers
<1>8. Through' = Through /\ Mark' = Mark BY <1>1 DEF Through, Mark
<1>9. Incoming' BY DEF IInv, Incoming
<1>10. Buffered' BY DEF IInv, Buffered, activeLen
<1>11. Server' BY <1>6 DEF IInv, Server
<1>12. Phase' BY <1>1 DEF IInv, Phase
<1>13. Order'
  <2>1. out'[Len(out')] = x BY <1>6
  <2>2. Progress' BY <1>1, <1>2, <1>6, <2>1 DEF Progress
  <2>3. AwaitedIntact' BY DEF IInv, Order, AwaitedIntact, Units, Size
  <2>4. DispatchOnce' /\ \A i \in 1..Len(dispatched') : dispatched'[i] <= Through'
    BY <1>8 DEF IInv, Order, DispatchOnce
  <2> QED BY <1>1, <1>5, <1>7, <2>2, <2>3, <2>4 DEF Order
<1>14. Place' BY <1>8 DEF IInv, Place, Tracked
<1>15. Space' BY DEF IInv, Space, Room, activeLen, StreamLast
<1> QED BY <1>9, <1>10, <1>11, <1>12, <1>13, <1>14, <1>15 DEF IInv

LEMMA startStreamKeeps == IInv /\ startStream => IInv'
<1> SUFFICES ASSUME IInv, startStream PROVE IInv'
  OBVIOUS
<1>1. /\ pc = "loop" /\ ~conn.closing /\ job = "stream" /\ job' = "chunks"
      /\ out' = Append(out, Response(pend.req, "head"))
      /\ UNCHANGED <<tls, script, next, net, buf, overflow, tlsin, conn, pend, frame, pc, dispatched>>
  BY DEF startStream, client
<1> QED BY <1>1, PartKeeps

LEMMA writeStreamChunkKeeps == IInv /\ writeStreamChunk => IInv'
<1> SUFFICES ASSUME IInv, writeStreamChunk PROVE IInv'
  OBVIOUS
<1>1. /\ pc = "loop" /\ ~conn.closing /\ job = "chunks" /\ job' = "last"
      /\ out' = Append(out, Response(pend.req, "chunk"))
      /\ UNCHANGED <<tls, script, next, net, buf, overflow, tlsin, conn, pend, frame, pc, dispatched>>
  BY DEF writeStreamChunk, client
<1> QED BY <1>1, PartKeeps

(* The last part: the request leaves the buffer, and the connection resumes. *)
LEMMA LastPartKeeps ==
  ASSUME IInv, pc = "loop", ~conn.closing, job # "none",
         NEW part \in {"full", "end"}, out' = Append(out, Response(pend.req, part)),
         \/ job = "async" /\ part = "full"
         \/ job \in {"chunks", "last"} /\ part = "end",
         job' = "none", NEW then \in {"tls", "drain"}, Resume(then),
         then = "tls" => tls, job = "async" /\ then = "drain" => ~tls,
         UNCHANGED <<tls, script, next, net, tlsin, pend, dispatched>>
  PROVE  IInv'
<1>1. /\ Ordered(out) /\ Through = pend.req
      /\ pend.req \in 1..Len(script) /\ pend.consume \in 0..Len(buf) /\ pend.consume > 0
      /\ Placed(script, buf, tlsin \o net, overflow, pend.req, pend.consume, next)
      /\ job = "async" \/ script[pend.req].mode = "stream"
      /\ job = "async" => Whole(out) /\ pend.req = Handled(out) + 1
      /\ job \in {"chunks", "last"} =>
           out # <<>> /\ out[Len(out)].req = pend.req /\ out[Len(out)].part \in {"head", "chunk"}
  BY AwaitedFacts
<1> DEFINE x == Response(pend.req, part)
<1>2. x \in Responses /\ x.req = pend.req /\ x.part = part BY <1>1, ResponseFacts
<1>3. /\ out \in Seq(Responses) /\ script \in Seq(Request) /\ buf \in Seq(Pairs)
      /\ overflow \in Nat
      /\ conn \in [awaiting : BOOLEAN, reading : BOOLEAN, closing : BOOLEAN]
  BY DEF IInv, Server, Incoming, Buffered
<1>4. out' = Append(out, x) OBVIOUS
<1> HIDE DEF x
<1>5. Ordered(out') /\ Handled(out') = pend.req /\ Whole(out')
  <2>1. CASE job = "async" /\ part = "full" BY <1>1, <1>2, <1>3, <1>4, <2>1, OrderedNext
  <2>2. CASE job \in {"chunks", "last"} /\ part = "end"
    BY <1>1, <1>2, <1>3, <1>4, <2>2, OrderedPart
  <2> QED BY <2>1, <2>2
<1>6. out' \in Seq(Responses) BY <1>2, <1>3, <1>4, AppendFacts
<1>7. /\ finishRequest(pend.consume) /\ frame' = NewFrame("loop")
      /\ \/ conn' = [conn EXCEPT !.awaiting = FALSE, !.reading = TRUE] /\ pc' = then
         \/ conn' = Closed([conn EXCEPT !.awaiting = FALSE]) /\ pc' = pc
  BY DEF Resume
<1>8. /\ frame' \in Frames /\ frame'.cork = <<>> /\ frame'.cursor = 0 /\ frame'.ret = "loop"
  BY <1>7, NewFrameFacts
<1>9. /\ overflow' = 0 /\ buf' = IF overflow # 0 THEN <<>> ELSE DropFirst(buf, pend.consume)
      /\ buf' \in Seq(Pairs) /\ Len(buf') \in Nat /\ Len(buf') < BufSize /\ activeLen' = BufSize
  BY <1>1, <1>7, FinishFacts
<1>10. Placed(script, buf', tlsin \o net, 0, pend.req, 0, next)
  BY <1>1, <1>3, <1>9, PlacedFinish
<1>11. /\ conn' \in [awaiting : BOOLEAN, reading : BOOLEAN, closing : BOOLEAN] /\ ~conn'.awaiting
       /\ conn'.closing => pc' = "loop" /\ ~conn'.reading
       /\ ~conn'.closing => pc' = then
  <2>1. CASE conn' = [conn EXCEPT !.awaiting = FALSE, !.reading = TRUE] /\ pc' = then
    BY <1>3, <2>1
  <2>2. CASE conn' = Closed([conn EXCEPT !.awaiting = FALSE]) /\ pc' = pc
    <3> DEFINE c == [conn EXCEPT !.awaiting = FALSE]
    <3>1. c \in [awaiting : BOOLEAN, reading : BOOLEAN, closing : BOOLEAN] /\ ~c.awaiting
      BY <1>3
    <3> HIDE DEF c
    <3> QED BY <2>2, <3>1, ClosedFacts DEF c
  <2> QED BY <1>7, <2>1, <2>2
<1>12. pc' \in {"loop", "tls", "drain"} /\ (pc' = "tls" => tls) BY <1>7
<1>13. Answers' = out' /\ Through' = pend.req /\ Mark' = 0
  <2>1. CASE pc' = "drain" BY <1>5, <1>6, <1>8, <1>11, <2>1, DrainEntered
  <2>2. CASE pc' # "drain"
    <3>1. Answers' = out' BY <1>12, <2>2 DEF Answers
    <3> QED BY <1>5, <1>8, <1>11, <3>1 DEF Through, Mark
  <2> QED BY <2>1, <2>2
<1>14. Incoming' BY DEF IInv, Incoming
<1>15. Buffered'
  <2>1. Len(buf') <= activeLen' /\ 0 <= Len(buf') BY <1>9, SizesPositive
  <2> QED BY <1>8, <1>9, <2>1 DEF Buffered
<1>16. Server' BY <1>6, <1>8, <1>11, <1>12 DEF IInv, Server
<1>17. Phase' BY <1>8, <1>11, <1>12 DEF Phase
<1>18. Order'
  <2>1. Progress' /\ AwaitedIntact' BY <1>11 DEF Progress, AwaitedIntact
  <2>2. DispatchOnce' /\ \A i \in 1..Len(dispatched') : dispatched'[i] <= Through'
    BY <1>1, <1>13 DEF IInv, Order, DispatchOnce
  <2> QED BY <1>5, <1>13, <2>1, <2>2 DEF Order
<1>19. Place' BY <1>9, <1>10, <1>13 DEF Place
<1>20. Space'
  <2>1. pc' = "loop" => ~conn'.reading BY <1>11
  <2>2. ASSUME tls, StreamLast, pc' = "drain" PROVE Idle(tlsin)
    <3>1. job # "async" BY <1>7, <2>2
    <3>2. pend.req = Len(script) BY <1>1, <2>2, <3>1 DEF StreamLast
    <3> DEFINE q == tlsin \o net
    <3>3. /\ tlsin \in Seq(Seq(Pairs)) /\ net \in Seq(Seq(Pairs)) /\ EndsLast(q)
      BY DEF IInv, Incoming
    <3>4. q \in Seq(Seq(Pairs)) BY <3>3
    <3>5. Placed(script, buf', q, 0, Len(script), 0, next) BY <1>10, <3>2
    <3> HIDE DEF q
    <3>6. Idle(q) BY <1>3, <1>9, <3>3, <3>4, <3>5, NothingBehind
    <3> QED BY <3>3, <3>6, IdleSplit DEF q
  <2> QED BY <1>12, <2>1, <2>2 DEF Space, StreamLast
<1> QED BY <1>14, <1>15, <1>16, <1>17, <1>18, <1>19, <1>20 DEF IInv

LEMMA submitResponseKeeps == IInv /\ submitResponse => IInv'
<1> SUFFICES ASSUME IInv, submitResponse PROVE IInv'
  OBVIOUS
<1> DEFINE then == IF tls THEN "tls" ELSE "drain"
<1>1. /\ pc = "loop" /\ ~conn.closing /\ job = "async" /\ job' = "none"
      /\ out' = Append(out, Response(pend.req, "full")) /\ Resume(then)
      /\ UNCHANGED <<tls, script, next, net, tlsin, pend, dispatched>>
  BY DEF submitResponse, client
<1>2. then \in {"tls", "drain"} /\ (then = "tls" => tls) /\ (then = "drain" => ~tls) OBVIOUS
<1> HIDE DEF then
<1> QED BY <1>1, <1>2, LastPartKeeps

LEMMA endStreamKeeps == IInv /\ endStream => IInv'
<1> SUFFICES ASSUME IInv, endStream PROVE IInv'
  OBVIOUS
<1>1. /\ pc = "loop" /\ ~conn.closing /\ job \in {"chunks", "last"} /\ job' = "none"
      /\ out' = Append(out, Response(pend.req, "end")) /\ Resume("drain")
      /\ UNCHANGED <<tls, script, next, net, tlsin, pend, dispatched>>
  BY DEF endStream, client
<1> QED BY <1>1, LastPartKeeps

-----------------------------------------------------------------------------
(* Every step keeps the invariant. *)

LEMMA StutterKeeps == IInv /\ UNCHANGED vars => IInv'
<1> SUFFICES ASSUME IInv, UNCHANGED vars PROVE IInv'
  OBVIOUS
<1>1. UNCHANGED <<tls, script, next, net, buf, overflow, tlsin, conn, pend, job, frame, pc, out, dispatched>>
  BY DEF vars
<1>2. Incoming' BY <1>1 DEF IInv, Incoming
<1>3. Buffered' BY <1>1 DEF IInv, Buffered, activeLen
<1>4. Server' BY <1>1 DEF IInv, Server
<1>5. Phase' BY <1>1 DEF IInv, Phase
<1>6. Answers' = Answers /\ Mark' = Mark BY <1>1 DEF Answers, Mark
<1>7. Through' = Through BY <1>1, <1>6 DEF Through
<1>8. Order' BY <1>1, <1>6, <1>7
  DEF IInv, Order, Progress, AwaitedIntact, DispatchOnce, Units, Size
<1>9. Place' BY <1>1, <1>6, <1>7 DEF IInv, Place, Tracked
<1>10. Space' BY <1>1 DEF IInv, Space, Room, activeLen, StreamLast
<1> QED BY <1>2, <1>3, <1>4, <1>5, <1>8, <1>9, <1>10 DEF IInv

LEMMA StepInv == IInv /\ NoSpill /\ [Next]_vars => IInv'
<1> SUFFICES ASSUME IInv, NoSpill, [Next]_vars PROVE IInv'
  OBVIOUS
<1>1. CASE Client
  BY <1>1, ClientSendKeeps, ClientSendAcrossKeeps, ClientEndKeeps DEF Client
<1>2. CASE Engine
  <2>1. CASE OnRead \/ OnReadEof \/ OnReadTls
    BY <2>1, OnReadKeeps, OnReadEofKeeps, OnReadTlsKeeps
  <2>2. CASE TlsNoRoom \/ TlsRecord \/ TlsDone \/ TlsRetry
    BY <2>2, TlsNoRoomKeeps, TlsRecordKeeps, TlsDoneKeeps, TlsRetryKeeps
  <2>3. CASE Drain
    <3>1. CASE HeadTooLarge \/ BadRequest \/ PayloadTooLarge
      BY <3>1, HeadTooLargeKeeps, BadRequestKeeps, PayloadTooLargeKeeps
    <3>2. CASE DrainWait \/ GrowForBody \/ AwaitBody
      BY <3>2, DrainWaitKeeps, GrowForBodyKeeps, AwaitBodyKeeps
    <3>3. CASE AnswerIntoCork \/ AnswerDirect \/ Suspend \/ DrainExit
      BY <3>3, AnswerIntoCorkKeeps, AnswerDirectKeeps, SuspendKeeps, DrainExitKeeps
    <3> QED BY <2>3, <3>1, <3>2, <3>3 DEF Drain
  <2> QED BY <1>2, <2>1, <2>2, <2>3 DEF Engine
<1>3. CASE Handler
  <2>1. CASE submitResponse \/ endStream
    BY <2>1, submitResponseKeeps, endStreamKeeps
  <2>2. CASE startStream \/ writeStreamChunk
    BY <2>2, startStreamKeeps, writeStreamChunkKeeps
  <2> QED BY <1>3, <2>1, <2>2, SettleClosedKeeps DEF Handler
<1>4. CASE closeServer BY <1>4, closeServerKeeps
<1>5. CASE UNCHANGED vars BY <1>5, StutterKeeps
<1> QED BY <1>1, <1>2, <1>3, <1>4, <1>5 DEF Next

-----------------------------------------------------------------------------
(* What follows from it. *)

LEMMA OrderedPrefix ==
  ASSUME NEW a \in Seq(Responses), NEW b \in Seq(Responses), Ordered(a \o b)
  PROVE  Ordered(a)
<1> DEFINE n == Len(a)
           w == a \o b
<1>1. n \in Nat /\ Len(b) \in Nat /\ Len(w) = n + Len(b) /\ \A i \in 1..n : w[i] = a[i] OBVIOUS
<1>2. /\ w # <<>> => w[1].req = 1 /\ w[1].part \in {"full", "head"}
      /\ \A i \in 1..(Len(w) - 1) : Follows(w[i], w[i + 1])
  BY DEF Ordered
<1>3. (a # <<>> => n # 0 /\ w # <<>>) OBVIOUS
<1> HIDE DEF w
<1>4. a # <<>> => a[1].req = 1 /\ a[1].part \in {"full", "head"}
  <2> SUFFICES ASSUME a # <<>> PROVE a[1].req = 1 /\ a[1].part \in {"full", "head"}
    OBVIOUS
  <2>1. 1 \in 1..n /\ w # <<>> BY <1>1, <1>3
  <2> QED BY <1>1, <1>2, <2>1
<1>5. ASSUME NEW i \in 1..n - 1 PROVE Follows(a[i], a[i + 1])
  <2> HIDE DEF n
  <2>1. i \in 1..(Len(w) - 1) /\ i \in 1..n /\ i + 1 \in 1..n BY <1>1
  <2> QED BY <1>1, <1>2, <2>1
<1> QED BY <1>4, <1>5 DEF Ordered

LEMMA InvOrdered == IInv => AnswersInOrder
<1> SUFFICES ASSUME IInv PROVE AnswersInOrder
  OBVIOUS
<1>1. TypeOK
  <2>1. next \in Nat \X Nat
    <3>1. script \in Seq(Request) /\ IsPoint(script, next) BY DEF IInv, Incoming
    <3> QED BY <3>1, AtFacts DEF Pairs
  <2>2. pend.req \in 0..Len(script) /\ pend.consume \in Nat
    <3>1. script \in Seq(Request) /\ pend.req \in Nat /\ pend.req <= Len(script) /\ pend.consume \in Nat
      BY DEF IInv, Incoming, Server
    <3> QED BY <3>1
  <2>3. DOMAIN conn = {"awaiting", "reading", "closing"} BY DEF IInv, Server
  <2>4. frame.ret \in {"loop", "retry", "closed"} BY DEF IInv, Server, Frames
  <2>5. frame.cursor \in 0..Len(buf) BY LengthFacts
  <2>6. Len(buf) <= activeLen /\ overflow \in Nat BY DEF IInv, Buffered
  <2>7. [tls |-> tls, script |-> script] \in Clients BY DEF IInv, Incoming
  <2>8. /\ job \in {"none", "async", "stream", "chunks", "last"}
        /\ pc \in {"loop", "tls", "drain", "exit", "retry"}
    BY DEF IInv, Server
  <2> QED BY <2>1, <2>2, <2>3, <2>4, <2>5, <2>6, <2>7, <2>8 DEF TypeOK
<1>2. ResponsesInOrder
  <2>1. out \in Seq(Responses) /\ frame.cork \in Seq(Responses) BY DEF IInv, Server, Frames
  <2>2. Ordered(Answers) BY DEF IInv, Order
  <2>3. Ordered(out)
    <3>1. CASE pc \in {"drain", "exit"} BY <2>1, <2>2, <3>1, OrderedPrefix DEF Answers
    <3>2. CASE pc \notin {"drain", "exit"} BY <2>2, <3>2 DEF Answers
    <3> QED BY <3>1, <3>2
  <2> QED BY <2>3 DEF ResponsesInOrder, Ordered, Follows
<1>3. DispatchOnce /\ AwaitedIntact BY DEF IInv, Order
<1> QED BY <1>1, <1>2, <1>3 DEF AnswersInOrder

LEMMA InvNothingLost == IInv => NothingLost
<1> SUFFICES ASSUME IInv, pc = "loop", ~conn.closing
             PROVE  LET rest == DropFirst(buf, IF conn.awaiting THEN pend.consume ELSE 0)
                                  \o Concat(tlsin) \o Concat(net)
                        line == Append(rest, next)
                    IN  /\ line[1] = <<LastHandled + 1, 1>>
                        /\ \A i \in 1..Len(rest) : line[i + 1] = Succ(line[i])
  BY DEF NothingLost
<1> DEFINE mk == IF conn.awaiting THEN pend.consume ELSE 0
           th == LastHandled
           s == script
           p == Offsets(s)[th + 1]
           a == DropFirst(buf, mk)
           b == Concat(tlsin)
           c == Concat(net)
           rest == a \o b \o c
           line == Append(rest, next)
<1>1. mk = Mark /\ th = Through
  <2>1. CASE conn.awaiting BY <2>1 DEF Mark, Through, LastHandled
  <2>2. CASE ~conn.awaiting
    <3>1. Answers = out /\ Through = Handled(out) /\ Mark = 0 BY <2>2, LoopFacts
    <3> QED BY <2>2, <3>1 DEF LastHandled, Handled
  <2> QED BY <2>1, <2>2
<1>2. Tracked BY DEF Tracked
<1>3. Placed(s, buf, tlsin \o net, overflow, th, mk, next) BY <1>1, <1>2 DEF IInv, Place
<1>4. /\ s \in Seq(Request) /\ IsPoint(s, next) /\ net \in Seq(Seq(Pairs))
      /\ tlsin \in Seq(Seq(Pairs)) /\ buf \in Seq(Pairs)
  BY DEF IInv, Incoming, Buffered
<1> HIDE DEF s, th, mk
<1>5. /\ th \in 0..Len(s) /\ mk \in 0..Len(buf) /\ Run(s, buf, p - mk)
      /\ Line(s, tlsin \o net, p - mk + Len(buf), At(s, next) - 1)
  BY <1>3 DEF Placed
<1>6. p \in Nat /\ p - mk \in Int BY <1>4, <1>5, BaseInt
<1> HIDE DEF p
<1>7. a \in Seq(Pairs) /\ Len(a) = Len(buf) - mk /\ Len(buf) \in Nat BY <1>4, <1>5, DropFacts
<1>8. Run(s, a, p)
  <2>1. Run(s, a, (p - mk) + mk) BY <1>4, <1>5, <1>6, RunDrop
  <2>2. (p - mk) + mk = p BY <1>5, <1>6
  <2> QED BY <2>1, <2>2
<1>9. p - mk + Len(buf) = p + Len(a) BY <1>5, <1>6, <1>7
<1>10. PICK e \in Int : /\ Line(s, tlsin, p + Len(a), e)
                        /\ Line(s, net, e, At(s, next) - 1)
  BY <1>4, <1>5, <1>9, LineSplit
<1>11. b \in Seq(Pairs) /\ Run(s, b, p + Len(a)) /\ (p + Len(a)) + Len(b) = e
  BY <1>4, <1>10, ConcatRun
<1>12. c \in Seq(Pairs) /\ Run(s, c, e) /\ e + Len(c) = At(s, next) - 1
  BY <1>4, <1>10, ConcatRun
<1> HIDE DEF a, b, c
<1>13. a \o b \in Seq(Pairs) /\ Len(a \o b) = Len(a) + Len(b) /\ Len(a) \in Nat /\ Len(b) \in Nat
  BY <1>7, <1>11, ConcatLen
<1>14. Run(s, a \o b, p) BY <1>6, <1>7, <1>8, <1>11, RunConcat, SMTT(60)
<1>15. p + Len(a \o b) = e
  <2> DEFINE m == Len(a)
             n == Len(b)
  <2>1. (p + m) + n = p + (m + n)
    <3>1. m \in Nat /\ n \in Nat BY <1>13
    <3> HIDE DEF m, n
    <3> QED BY <1>6, <3>1
  <2> QED BY <1>11, <1>13, <2>1
<1>16. rest \in Seq(Pairs) /\ Len(rest) = Len(a \o b) + Len(c) /\ Len(a \o b) \in Nat
       /\ Len(c) \in Nat
  BY <1>12, <1>13, ConcatLen
<1>17. Run(s, rest, p)
  <2> DEFINE w == a \o b
  <2>1. w \in Seq(Pairs) /\ Run(s, w, p) /\ Run(s, c, p + Len(w)) /\ p \in Int
    BY <1>6, <1>12, <1>13, <1>14, <1>15
  <2> HIDE DEF w
  <2>2. Run(s, w \o c, p) BY <1>12, <2>1, RunConcat
  <2> QED BY <2>2 DEF w
<1>18. p + Len(rest) = At(s, next) - 1
  <2> DEFINE m == Len(a \o b)
             n == Len(c)
  <2>1. (p + m) + n = p + (m + n)
    <3>1. m \in Nat /\ n \in Nat BY <1>16
    <3> HIDE DEF m, n
    <3> QED BY <1>6, <3>1
  <2> QED BY <1>12, <1>15, <1>16, <2>1
<1> HIDE DEF rest
<1>19. /\ line[1] = <<th + 1, 1>>
       /\ \A i \in 1..Len(rest) : line[i + 1] = SuccIn(s, rest[i])
  <2>1. rest \in Seq(Pairs) /\ th \in 0..Len(s) /\ IsPoint(s, next) BY <1>4, <1>5, <1>16
  <2>2. Run(s, rest, Offsets(s)[th + 1]) /\ Offsets(s)[th + 1] + Len(rest) = At(s, next) - 1
    BY <1>17, <1>18 DEF p
  <2> QED BY <1>4, <2>1, <2>2, RunIsLine
<1>20. ASSUME NEW i \in 1..Len(rest) PROVE line[i + 1] = Succ(line[i])
  <2>1. next \in Pairs BY <1>4, AtFacts
  <2>2. line[i] = rest[i] BY <1>16, <2>1, AppendFacts
  <2>3. Succ(line[i]) = SuccIn(s, rest[i]) BY <2>2 DEF Succ, SuccIn, Size, SizeIn, s
  <2> QED BY <1>19, <2>3
<1> QED BY <1>19, <1>20 DEF rest, a, b, c, mk, th

LEMMA InLenFacts ==
  /\ InLen(<<>>) = 0
  /\ \A q : Len(q) = 1 /\ q[1] = <<>> => InLen(q) = 1
<1> DEFINE Is(q, f) == f = [i \in 0..Len(q) |-> IF i = 0 THEN 0 ELSE f[i - 1] + RecordSize(q[i])]
<1>1. InLen(<<>>) = 0
  <2> DEFINE z == [i \in 0..Len(<<>>) |-> 0]
  <2>1. Is(<<>>, z)
    <3>1. \A i \in 0..Len(<<>>) : i = 0 OBVIOUS
    <3> QED BY <3>1
  <2> DEFINE f == CHOOSE f : Is(<<>>, f)
  <2>2. Is(<<>>, f) BY <2>1
  <2>3. InLen(<<>>) = f[Len(<<>>)] BY DEF InLen
  <2>4. 0 \in 0..Len(<<>>) /\ Len(<<>>) = 0 OBVIOUS
  <2> HIDE DEF f
  <2>5. f[0] = 0 BY <2>2, <2>4
  <2> QED BY <2>3, <2>4, <2>5
<1>2. ASSUME NEW q, Len(q) = 1, q[1] = <<>> PROVE InLen(q) = 1
  <2> DEFINE z == [i \in 0..1 |-> i]
  <2>1. 0..Len(q) = 0..1 /\ 0 \in 0..1 /\ 1 \in 0..1 /\ \A i \in 0..1 : i = 0 \/ i = 1 BY <1>2
  <2>2. RecordSize(q[1]) = 1 BY <1>2 DEF RecordSize
  <2>3. Is(q, z)
    <3>1. \A i \in 0..1 : i = IF i = 0 THEN 0 ELSE z[i - 1] + RecordSize(q[i])
      <4>1. z[1 - 1] + RecordSize(q[1]) = 1 BY <2>1, <2>2
      <4> QED BY <2>1, <4>1
    <3> QED BY <2>1, <3>1
  <2> DEFINE f == CHOOSE f : Is(q, f)
  <2>4. Is(q, f) BY <2>3
  <2>5. InLen(q) = f[Len(q)] BY DEF InLen
  <2> HIDE DEF f
  <2>6. \A i \in 0..1 : f[i] = IF i = 0 THEN 0 ELSE f[i - 1] + RecordSize(q[i])
    BY <2>1, <2>4
  <2>7. f[0] = 0 BY <2>1, <2>6
  <2>8. f[1] = f[0] + RecordSize(q[1]) BY <2>1, <2>6
  <2> QED BY <1>2, <2>2, <2>5, <2>7, <2>8
<1> QED BY <1>1, <1>2

LEMMA InvRoom ==
  ASSUME IInv, tls => StreamLast /\ InSize > 1
  PROVE  RoomToRead
<1> SUFFICES ASSUME pc = "loop", conn.reading
             PROVE  IF tls THEN InLen(tlsin) < InSize ELSE Room > 0
  BY DEF RoomToRead
<1>1. CASE ~tls BY <1>1 DEF IInv, Space
<1>2. CASE tls
  <2>1. Idle(tlsin) BY <1>2 DEF IInv, Space
  <2>2. CASE tlsin = <<>> BY <1>2, <2>2, InLenFacts, SizesPositive
  <2>3. CASE Len(tlsin) = 1 /\ tlsin[1] = <<>>
    BY <1>2, <2>3, InLenFacts, SizesPositive
  <2> QED BY <2>1, <2>2, <2>3 DEF Idle
<1> QED BY <1>1, <1>2

(* After a stream over TLS endStream goes on in drain and not in tlsDrive,   *)
(* and requests that follow it would wait in st.in for a read.               *)
StreamsLast ==
  \A c \in Clients : c.tls =>
    \A r \in 1..Len(c.script) : c.script[r].mode = "stream" => r = Len(c.script)

LEMMA InvInput == IInv /\ StreamsLast /\ InSize > 1 => InputKept
<1> SUFFICES ASSUME IInv, StreamsLast, InSize > 1 PROVE InputKept
  OBVIOUS
<1> DEFINE c == [tls |-> tls, script |-> script]
<1>1. c \in Clients /\ c.tls = tls /\ c.script = script BY DEF IInv, Incoming
<1> HIDE DEF c
<1>2. tls => StreamLast BY <1>1 DEF StreamsLast, StreamLast
<1> QED BY <1>2, InvNothingLost, InvRoom DEF InputKept

(* The invariant holds in every state, for every script of every client     *)
(* whose requests over TLS fit the inline buffer.                           *)
THEOREM PipelineInvariant == ASSUME NoSpill PROVE Spec => []IInv
<1>1. IInv /\ [Next]_vars => IInv' BY StepInv
<1> QED BY <1>1, InitInv, PTL DEF Spec

(* Pipelined requests are answered in order, once each, by handlers that    *)
(* ran once over a body that stayed where it was (loop.zig).                *)
THEOREM PipelineOrderTheorem == ASSUME NoSpill PROVE Spec => []AnswersInOrder
BY PipelineInvariant, InvOrdered, PTL

(* No byte a client has sent is lost between the buffers (finishRequest,    *)
(* growForBody, tlsDrive): what is left starts with the next request.       *)
THEOREM NothingLostTheorem == ASSUME NoSpill PROVE Spec => []NothingLost
BY PipelineInvariant, InvNothingLost, PTL

(* Nor is a read armed without room for what it brings.                     *)
THEOREM PipelineInputTheorem ==
  ASSUME NoSpill, StreamsLast, InSize > 1
  PROVE  Spec => []InputKept
<1>1. IInv => InputKept BY InvInput
<1> QED BY <1>1, PipelineInvariant, PTL
=============================================================================
