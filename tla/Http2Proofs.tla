----------------------------- MODULE Http2Proofs ----------------------------
(***************************************************************************)
(* Proofs about an HTTP/2 connection, for any number of streams and any    *)
(* windows, limits and bodies.                                             *)
(***************************************************************************)
EXTENDS Http2, FiniteSetTheorems, WellFoundedInduction, TLAPS

(* Induction, for a set of numbers. *)
LEMMA FromZero ==
  ASSUME NEW S, 0 \in S, \A n \in Nat : n \in S => n + 1 \in S
  PROVE  Nat \subseteq S
<1> SUFFICES ASSUME Nat \ S # {} PROVE FALSE
  OBVIOUS
<1> DEFINE T == Nat \ S
           R == OpToRel(<, Nat)
<1>1. IsWellFoundedOn(R, Nat) BY NatLessThanWellFounded
<1>2. T \subseteq Nat /\ T # {} OBVIOUS
<1>3. R = {p \in Nat \X Nat : p[1] < p[2]} BY DEF OpToRel
<1> HIDE DEF R
<1>4. PICK x \in T : \A y \in T : <<y, x>> \notin R BY <1>1, <1>2, WFMin
<1>5. x \in Nat /\ x # 0 /\ x - 1 \in Nat BY <1>4
<1>6. x - 1 \in T
  <2>1. (x - 1) + 1 = x BY <1>5
  <2> QED BY <1>4, <1>5, <2>1
<1>7. <<x - 1, x>> \in R BY <1>3, <1>5
<1> QED BY <1>4, <1>6, <1>7

-----------------------------------------------------------------------------
(* Folds over the subsets of a finite set. *)

IsFoldUpTo(g, D, base, ch, op, n) ==
  \A s \in SUBSET D : Cardinality(s) <= n =>
    g[s] = IF s = {} THEN base ELSE op[<<ch[s], g[s \ {ch[s]}]>>]

LEMMA SmallerSet ==
  ASSUME NEW D, IsFiniteSet(D), NEW s \in SUBSET D, NEW x \in s
  PROVE  /\ s \ {x} \in SUBSET D /\ IsFiniteSet(s) /\ IsFiniteSet(s \ {x})
         /\ Cardinality(s) \in Nat /\ Cardinality(s \ {x}) \in Nat
         /\ Cardinality(s \ {x}) = Cardinality(s) - 1
<1>1. IsFiniteSet(s) BY FS_Subset
<1>2. IsFiniteSet(s \ {x}) /\ Cardinality(s \ {x}) = Cardinality(s) - 1
  BY <1>1, FS_RemoveElement
<1> QED BY <1>1, <1>2, FS_CardinalityType

IsFold(g, D, base, ch, op) ==
  \A s \in SUBSET D : g[s] = IF s = {} THEN base ELSE op[<<ch[s], g[s \ {ch[s]}]>>]

LEMMA FoldExists ==
  ASSUME NEW D, IsFiniteSet(D), NEW V, NEW base \in V, NEW ch, NEW op \in [D \X V -> V],
         \A s \in SUBSET D : s # {} => ch[s] \in s
  PROVE  \E g \in [SUBSET D -> V] : IsFold(g, D, base, ch, op)
<1> DEFINE N == {n \in Nat : \E g \in [SUBSET D -> V] : IsFoldUpTo(g, D, base, ch, op, n)}
<1>1. 0 \in N
  <2> DEFINE g == [s \in SUBSET D |-> base]
  <2>1. g \in [SUBSET D -> V] OBVIOUS
  <2>2. ASSUME NEW s \in SUBSET D, Cardinality(s) <= 0 PROVE s = {} /\ g[s] = base
    <3>1. IsFiniteSet(s) /\ Cardinality(s) \in Nat BY FS_Subset, FS_CardinalityType
    <3> QED BY <2>2, <3>1, FS_EmptySet
  <2> HIDE DEF g
  <2>3. IsFoldUpTo(g, D, base, ch, op, 0) BY <2>2 DEF IsFoldUpTo
  <2> QED BY <2>1, <2>3
<1>2. ASSUME NEW n \in Nat, n \in N PROVE n + 1 \in N
  <2>1. PICK g \in [SUBSET D -> V] : IsFoldUpTo(g, D, base, ch, op, n) BY <1>2
  <2> DEFINE At(s) == IF s = {} THEN base ELSE op[<<ch[s], g[s \ {ch[s]}]>>]
             h == [s \in SUBSET D |-> At(s)]
  <2>2. \A s \in SUBSET D : At(s) \in V
    <3> SUFFICES ASSUME NEW s \in SUBSET D, s # {} PROVE At(s) \in V
      OBVIOUS
    <3>1. ch[s] \in D /\ s \ {ch[s]} \in SUBSET D OBVIOUS
    <3>2. <<ch[s], g[s \ {ch[s]}]>> \in D \X V BY <3>1
    <3> QED BY <3>2
  <2>3. h \in [SUBSET D -> V] /\ \A s \in SUBSET D : h[s] = At(s) BY <2>2
  <2>4. \A s \in SUBSET D : Cardinality(s) <= n => h[s] = g[s]
    BY <2>1, <2>3 DEF IsFoldUpTo
  <2>5. ASSUME NEW s \in SUBSET D, Cardinality(s) <= n + 1, s # {}
        PROVE  h[s \ {ch[s]}] = g[s \ {ch[s]}]
    <3> DEFINE x == ch[s]
    <3>1. x \in s BY <2>5
    <3> HIDE DEF x, h
    <3>2. s \ {x} \in SUBSET D /\ Cardinality(s) \in Nat /\ Cardinality(s \ {x}) = Cardinality(s) - 1
      BY <3>1, SmallerSet
    <3>3. Cardinality(s \ {x}) <= n BY <2>5, <3>2
    <3>4. h[s \ {x}] = g[s \ {x}] BY <2>4, <3>2, <3>3
    <3> QED BY <3>4 DEF x
  <2>6. IsFoldUpTo(h, D, base, ch, op, n + 1)
    <3> SUFFICES ASSUME NEW s \in SUBSET D, Cardinality(s) <= n + 1
                 PROVE  h[s] = IF s = {} THEN base ELSE op[<<ch[s], h[s \ {ch[s]}]>>]
      BY DEF IsFoldUpTo
    <3>1. h[s] = At(s) BY <2>3
    <3> HIDE DEF h
    <3> QED BY <2>5, <3>1
  <2> HIDE DEF h
  <2> QED BY <2>3, <2>6
<1> HIDE DEF N
<1>3. Cardinality(D) \in N BY <1>1, <1>2, FromZero, FS_CardinalityType
<1>4. PICK g \in [SUBSET D -> V] : IsFoldUpTo(g, D, base, ch, op, Cardinality(D)) BY <1>3 DEF N
<1>5. \A s \in SUBSET D : Cardinality(s) <= Cardinality(D) BY FS_Subset
<1>6. IsFold(g, D, base, ch, op) BY <1>4, <1>5 DEF IsFold, IsFoldUpTo
<1> QED BY <1>6

(* The sum of what the streams f hold, as a fold. *)
Total(f) == MapThenSumSet(LAMBDA i : f[i].received, DOMAIN f)

Pick(s) == CHOOSE x \in s : TRUE
IsTotal(g, f) ==
  g = [s \in SUBSET DOMAIN f |->
         IF s = {} THEN 0 ELSE f[Pick(s)].received + g[s \ {Pick(s)}]]

LEMMA TotalIs ==
  ASSUME NEW f
  PROVE  Total(f) = (CHOOSE g : IsTotal(g, f))[DOMAIN f]
BY DEF Total, IsTotal, Pick, MapThenSumSet, MapThenFoldSet

LEMMA TotalExists ==
  ASSUME NEW f, IsFiniteSet(DOMAIN f), \A i \in DOMAIN f : f[i].received \in Nat
  PROVE  \E g \in [SUBSET DOMAIN f -> Nat] :
           /\ Total(f) = g[DOMAIN f] /\ g[{}] = 0
           /\ \A s \in SUBSET DOMAIN f : s # {} => g[s] = f[Pick(s)].received + g[s \ {Pick(s)}]
<1> DEFINE D == DOMAIN f
           ch == [s \in SUBSET D |-> Pick(s)]
           op == [p \in D \X Nat |-> f[p[1]].received + p[2]]
<1>1. op \in [D \X Nat -> Nat] OBVIOUS
<1>2. \A s \in SUBSET D : ch[s] = Pick(s) /\ (s # {} => Pick(s) \in s) BY DEF Pick
<1>3. \A x \in D, k \in Nat : op[<<x, k>>] = f[x].received + k OBVIOUS
<1> HIDE DEF ch, op
<1>4. PICK g \in [SUBSET D -> Nat] : IsFold(g, D, 0, ch, op)
  <2>1. \A s \in SUBSET D : s # {} => ch[s] \in s BY <1>2
  <2>2. IsFiniteSet(D) OBVIOUS
  <2> DEFINE V == Nat
             b == 0
  <2>3. op \in [D \X V -> V] /\ b \in V BY <1>1
  <2> HIDE DEF D, V, b
  <2>4. \E g \in [SUBSET D -> V] : IsFold(g, D, b, ch, op)
    BY <2>1, <2>2, <2>3, FoldExists
  <2> QED BY <2>4 DEF V, b
<1>5. ASSUME NEW s \in SUBSET D, s # {} PROVE g[s] = f[Pick(s)].received + g[s \ {Pick(s)}]
  <2>1. Pick(s) \in D /\ s \ {Pick(s)} \in SUBSET D BY <1>2, <1>5
  <2> QED BY <1>2, <1>3, <1>4, <1>5, <2>1 DEF IsFold
<1>6. g[{}] = 0 BY <1>4 DEF IsFold
<1>7. IsTotal(g, f)
  <2> DEFINE Val(s) == IF s = {} THEN 0 ELSE f[Pick(s)].received + g[s \ {Pick(s)}]
  <2>1. \A s \in SUBSET D : g[s] = Val(s) BY <1>5, <1>6
  <2>2. g = [s \in SUBSET D |-> g[s]] OBVIOUS
  <2> HIDE DEF Val
  <2>3. g = [s \in SUBSET D |-> Val(s)] BY <2>1, <2>2
  <2> QED BY <2>3 DEF IsTotal, Val
<1> DEFINE h == CHOOSE h : IsTotal(h, f)
<1>8. IsTotal(h, f) BY <1>7
<1>9. Total(f) = h[D] BY TotalIs
<1> HIDE DEF h
<1>a. h[{}] = 0 BY <1>8 DEF IsTotal
<1>10. \A s \in SUBSET D : s # {} => h[s] = f[Pick(s)].received + h[s \ {Pick(s)}]
  BY <1>8 DEF IsTotal
<1> DEFINE N == {n \in Nat : \A s \in SUBSET D : Cardinality(s) <= n => h[s] = g[s]}
<1>11. 0 \in N
  <2> SUFFICES ASSUME NEW s \in SUBSET D, Cardinality(s) <= 0 PROVE h[s] = g[s]
    OBVIOUS
  <2>1. IsFiniteSet(s) /\ Cardinality(s) \in Nat BY FS_Subset, FS_CardinalityType
  <2>2. s = {} BY <2>1, FS_EmptySet
  <2> QED BY <1>6, <1>a, <2>2
<1>12. ASSUME NEW n \in Nat, n \in N PROVE n + 1 \in N
  <2> SUFFICES ASSUME NEW s \in SUBSET D, Cardinality(s) <= n + 1 PROVE h[s] = g[s]
    OBVIOUS
  <2>1. CASE s = {} BY <1>6, <1>a, <2>1
  <2>2. CASE s # {}
    <3> DEFINE x == Pick(s)
    <3>1. x \in s BY <1>2, <2>2
    <3>2. h[s] = f[x].received + h[s \ {x}] /\ g[s] = f[x].received + g[s \ {x}]
      BY <1>5, <1>10, <2>2
    <3> HIDE DEF x
    <3>3. s \ {x} \in SUBSET D /\ Cardinality(s) \in Nat /\ Cardinality(s \ {x}) = Cardinality(s) - 1
      BY <3>1, SmallerSet
    <3>4. Cardinality(s \ {x}) <= n BY <3>3
    <3>5. h[s \ {x}] = g[s \ {x}] BY <1>12, <3>3, <3>4
    <3> QED BY <3>2, <3>5
  <2> QED BY <2>1, <2>2
<1> HIDE DEF N
<1>13. Cardinality(D) \in N BY <1>11, <1>12, FromZero, FS_CardinalityType
<1>14. h[D] = g[D]
  <2>1. Cardinality(D) <= Cardinality(D) BY FS_CardinalityType
  <2> QED BY <1>13, <2>1 DEF N
<1> QED BY <1>5, <1>6, <1>9, <1>14

IsSum(g, f) ==
  /\ g \in [SUBSET DOMAIN f -> Nat] /\ g[{}] = 0
  /\ \A s \in SUBSET DOMAIN f : \A y \in s : g[s] = f[y].received + g[s \ {y}]

(* The order in which the streams are taken does not matter. *)
LEMMA TotalIsSum ==
  ASSUME NEW f, IsFiniteSet(DOMAIN f), \A i \in DOMAIN f : f[i].received \in Nat
  PROVE  \E g : IsSum(g, f) /\ Total(f) = g[DOMAIN f]
<1> DEFINE D == DOMAIN f
<1>1. PICK g \in [SUBSET D -> Nat] :
        /\ Total(f) = g[D] /\ g[{}] = 0
        /\ \A s \in SUBSET D : s # {} => g[s] = f[Pick(s)].received + g[s \ {Pick(s)}]
  BY TotalExists
<1> DEFINE Each(s) == \A y \in s : g[s] = f[y].received + g[s \ {y}]
           N == {n \in Nat : \A s \in SUBSET D : Cardinality(s) <= n => Each(s)}
<1>0. IsFiniteSet(D) /\ \A i \in D : f[i].received \in Nat OBVIOUS
<1> HIDE DEF D
<1>2. 0 \in N
  <2> SUFFICES ASSUME NEW s \in SUBSET D, Cardinality(s) <= 0 PROVE Each(s)
    OBVIOUS
  <2>1. IsFiniteSet(s) /\ Cardinality(s) \in Nat BY <1>0, FS_Subset, FS_CardinalityType
  <2>2. s = {} BY <2>1, FS_EmptySet
  <2> QED BY <2>2
<1>3. ASSUME NEW n \in Nat, n \in N PROVE n + 1 \in N
  <2> SUFFICES ASSUME NEW s \in SUBSET D, Cardinality(s) <= n + 1, NEW y \in s
               PROVE  g[s] = f[y].received + g[s \ {y}]
    OBVIOUS
  <2> DEFINE x == Pick(s)
  <2>1. x \in s BY DEF Pick
  <2>2. g[s] = f[x].received + g[s \ {x}] BY <1>1
  <2> HIDE DEF x
  <2>3. CASE x = y BY <2>2, <2>3
  <2>4. CASE x # y
    <3>1. /\ s \ {x} \in SUBSET D /\ Cardinality(s) \in Nat
          /\ Cardinality(s \ {x}) = Cardinality(s) - 1
      BY <1>0, <2>1, SmallerSet
    <3>2. s \ {y} \in SUBSET D /\ Cardinality(s \ {y}) = Cardinality(s) - 1 BY <1>0, SmallerSet
    <3>3. Cardinality(s \ {x}) <= n /\ Cardinality(s \ {y}) <= n BY <3>1, <3>2
    <3>4. g[s \ {x}] = f[y].received + g[(s \ {x}) \ {y}] BY <1>3, <2>4, <3>1, <3>3
    <3>5. g[s \ {y}] = f[x].received + g[(s \ {y}) \ {x}] BY <1>3, <2>1, <2>4, <3>2, <3>3
    <3>6. (s \ {x}) \ {y} = (s \ {y}) \ {x} OBVIOUS
    <3> DEFINE k == g[(s \ {y}) \ {x}]
               p == f[x].received
               q == f[y].received
    <3>7. k \in Nat /\ p \in Nat /\ q \in Nat BY <1>0, <2>1
    <3>8. g[s] = p + (q + k) /\ g[s \ {y}] = p + k BY <2>2, <3>4, <3>5, <3>6
    <3> HIDE DEF k, p
    <3>9. p + (q + k) = q + (p + k) BY <3>7
    <3> QED BY <3>8, <3>9
  <2> QED BY <2>3, <2>4
<1> HIDE DEF N, Each
<1>4. Cardinality(D) \in N BY <1>0, <1>2, <1>3, FromZero, FS_CardinalityType
<1>5. \A s \in SUBSET D : Cardinality(s) <= Cardinality(D) BY <1>0, FS_Subset
<1>6. \A s \in SUBSET D : Each(s) BY <1>4, <1>5 DEF N
<1>7. IsSum(g, f) BY <1>1, <1>6 DEF IsSum, Each, D
<1> QED BY <1>1, <1>7 DEF D

LEMMA SumsAgree ==
  ASSUME NEW f, NEW e, NEW g, NEW h, IsSum(g, f), IsSum(h, e),
         NEW S, IsFiniteSet(S), S \subseteq DOMAIN f, S \subseteq DOMAIN e,
         \A i \in S : f[i].received = e[i].received
  PROVE  g[S] = h[S]
<1> DEFINE N == {n \in Nat : \A s \in SUBSET S : Cardinality(s) <= n => g[s] = h[s]}
<1>1. g[{}] = h[{}] BY DEF IsSum
<1>2. 0 \in N
  <2> SUFFICES ASSUME NEW s \in SUBSET S, Cardinality(s) <= 0 PROVE g[s] = h[s]
    OBVIOUS
  <2>1. IsFiniteSet(s) /\ Cardinality(s) \in Nat BY FS_Subset, FS_CardinalityType
  <2>2. s = {} BY <2>1, FS_EmptySet
  <2> QED BY <1>1, <2>2
<1>3. ASSUME NEW n \in Nat, n \in N PROVE n + 1 \in N
  <2> SUFFICES ASSUME NEW s \in SUBSET S, Cardinality(s) <= n + 1 PROVE g[s] = h[s]
    OBVIOUS
  <2>1. CASE s = {} BY <1>1, <2>1
  <2>2. ASSUME NEW y \in s PROVE g[s] = h[s]
    <3>1. /\ s \ {y} \in SUBSET S /\ Cardinality(s) \in Nat
          /\ Cardinality(s \ {y}) = Cardinality(s) - 1
      BY SmallerSet
    <3>2. Cardinality(s \ {y}) <= n BY <3>1
    <3>3. g[s \ {y}] = h[s \ {y}] BY <1>3, <3>1, <3>2
    <3>4. s \in SUBSET DOMAIN f /\ s \in SUBSET DOMAIN e OBVIOUS
    <3>5. g[s] = f[y].received + g[s \ {y}] BY <3>4 DEF IsSum
    <3>6. h[s] = e[y].received + h[s \ {y}] BY <3>4 DEF IsSum
    <3> QED BY <3>3, <3>5, <3>6
  <2> QED BY <2>1, <2>2
<1> HIDE DEF N
<1>4. Cardinality(S) \in N BY <1>2, <1>3, FromZero, FS_CardinalityType
<1>5. Cardinality(S) <= Cardinality(S) /\ S \in SUBSET S BY FS_CardinalityType
<1> QED BY <1>4, <1>5 DEF N

LEMMA TotalNat ==
  ASSUME NEW f, IsFiniteSet(DOMAIN f), \A i \in DOMAIN f : f[i].received \in Nat
  PROVE  Total(f) \in Nat
<1>1. PICK g : IsSum(g, f) /\ Total(f) = g[DOMAIN f] BY TotalIsSum
<1>2. DOMAIN f \in SUBSET DOMAIN f OBVIOUS
<1> QED BY <1>1, <1>2 DEF IsSum

LEMMA TotalSame ==
  ASSUME NEW f, NEW e, IsFiniteSet(DOMAIN f), DOMAIN e = DOMAIN f,
         \A i \in DOMAIN f : f[i].received \in Nat /\ e[i].received = f[i].received
  PROVE  Total(e) = Total(f)
<1>1. PICK g : IsSum(g, f) /\ Total(f) = g[DOMAIN f] BY TotalIsSum
<1>2. PICK h : IsSum(h, e) /\ Total(e) = h[DOMAIN e] BY TotalIsSum
<1>3. g[DOMAIN f] = h[DOMAIN f] BY <1>1, <1>2, SumsAgree
<1> QED BY <1>1, <1>2, <1>3

(* A stream more, or less. *)
LEMMA TotalBut ==
  ASSUME NEW f, NEW e, IsFiniteSet(DOMAIN f), NEW i \in DOMAIN f, DOMAIN e = DOMAIN f \ {i},
         \A j \in DOMAIN f : f[j].received \in Nat,
         \A j \in DOMAIN e : e[j].received = f[j].received
  PROVE  Total(f) = f[i].received + Total(e)
<1> DEFINE S == DOMAIN f \ {i}
<1>0. IsFiniteSet(S) /\ S \subseteq DOMAIN f /\ S \subseteq DOMAIN e BY FS_Subset
<1>1. PICK g : IsSum(g, f) /\ Total(f) = g[DOMAIN f] BY TotalIsSum
<1>2. PICK h : IsSum(h, e) /\ Total(e) = h[DOMAIN e] BY <1>0, TotalIsSum
<1>3. g[S] = h[S] BY <1>0, <1>1, <1>2, SumsAgree
<1>4. g[DOMAIN f] = f[i].received + g[S]
  <2>1. DOMAIN f \in SUBSET DOMAIN f OBVIOUS
  <2> QED BY <1>1, <2>1 DEF IsSum
<1> QED BY <1>1, <1>2, <1>3, <1>4

-----------------------------------------------------------------------------
(* The shape of the state. *)

Stream ==
  [headers : BOOLEAN, ended : BOOLEAN, dispatched : BOOLEAN,
   received : Nat, recv : Int, unacked : Nat,
   send : Int, out : Nat, held : BOOLEAN, fin : BOOLEAN,
   heads : Nat, sent : Nat, made : Nat, window : Int, told : Int]

Connection ==
  [streams : UNION {[D -> Stream] : D \in SUBSET Ids}, last : 0..MaxStream,
   cont : [id : Nat, trailer : BOOLEAN],
   send : Int, recv : Int, unacked : Nat, initial : Nat, resets : Nat, inflight : Nat,
   closing : {"no", "closed", "flow", "calm"}, freed : BOOLEAN,
   peer : Int, told : Int, polite : BOOLEAN, torn : BOOLEAN]

Dispatched(f) == {i \in DOMAIN f : f[i].dispatched}

Pumps == MaxConcurrent <= PumpMax          \* pumpAll reaches every stream
Told == Default <= RecvInitial             \* the peer is told the window there is

(* The request side: what is received, counted and granted.  Stream x is    *)
(* the one a frame is being handled for. *)
Uploads(c, x) ==
  /\ c.recv + c.unacked = RecvInitial /\ c.unacked < RecvInitial
  /\ \A i \in Live(c) \ {x} : ~c.streams[i].ended =>
       /\ c.streams[i].recv + c.streams[i].unacked = RecvInitial
       /\ c.streams[i].unacked < RecvInitial
       /\ c.streams[i].told = c.streams[i].recv

Blocks(c, x) ==
  \A i \in Live(c) \ {x} :
    /\ ~c.streams[i].headers => c.cont = [id |-> i, trailer |-> FALSE]
    /\ c.streams[i].ended => c.streams[i].dispatched \/ c.cont = [id |-> i, trailer |-> FALSE]
    /\ c.streams[i].dispatched => c.streams[i].headers /\ c.streams[i].ended
    /\ c.cont = [id |-> i, trailer |-> FALSE] => ~c.streams[i].headers
    /\ c.cont = [id |-> i, trailer |-> TRUE] => ~c.streams[i].ended

Limits(c) ==
  /\ c \in Connection
  /\ \A i \in Live(c) : i <= c.last /\ c.streams[i].received <= MaxBody
  /\ c.inflight <= BodyBudget
  /\ Cardinality(Live(c)) <= MaxConcurrent
  /\ Told => c.told = c.recv

Requests(c, x) ==
  /\ Limits(c)
  /\ c.closing = "no" =>
       /\ c.inflight = Total(c.streams)
       /\ Uploads(c, x) /\ Blocks(c, x)
       /\ c.polite => c.resets + Cardinality(Dispatched(c.streams)) <= MaxConcurrent
       /\ ~c.freed
  /\ Told /\ c.closing = "flow" => c.told < 0
  /\ c.closing = "calm" => ~c.polite

(* The response side. *)
Response(s) ==
  /\ s.window = s.send
  /\ s.made = s.sent + s.out
  /\ s.out > 0 => s.held
  /\ s.fin => s.out > 0
  /\ s.heads <= 1
  /\ s.held => s.heads = 1
  /\ s.heads = 1 => s.dispatched
  /\ s.heads = 0 => s.made = 0

Waits(c, i) == c.streams[i].out > 0 => Room(c, i) = 0

Responses(c, x) ==
  /\ c.peer = c.send /\ ~c.torn
  /\ \A i \in Live(c) \ {x} : Response(c.streams[i])

(* The handlers' side. *)
Stages == {"none", "awaits", "late", "streams", "over"}

HandlerOf(c, P, W, i) ==
  /\ i \in P =>
       /\ i \in Live(c) /\ c.streams[i].dispatched
       /\ c.streams[i].fin = (W[i] = "over")
       /\ W[i] = "awaits" => c.streams[i].heads = 0
       /\ W[i] = "streams" => c.streams[i].heads = 1 /\ c.streams[i].out <= MaxQueue
       /\ W[i] \in {"awaits", "streams", "over"}
  /\ i \in Live(c) /\ c.streams[i].dispatched => c.streams[i].fin \/ i \in P

Handlers(c, P, W) ==
  /\ P \subseteq Ids /\ W \in [Ids -> Stages]
  /\ c.freed => Live(c) = {}
  /\ \A i \in Ids : HandlerOf(c, P, W, i)

Flowing(c) == Pumps /\ c.closing = "no" => \A i \in Live(c) : Waits(c, i)

Good(c, P, W) ==
  /\ Requests(c, 0) /\ Responses(c, 0) /\ Flowing(c)
  /\ Handlers(c, P, W)

IInv == Good(h2, h2pending, work)

-----------------------------------------------------------------------------
(* Facts of a state. *)

LEMMA Sizes ==
  /\ MaxStream \in Nat /\ ResetCap \in Nat /\ MaxBody \in Nat /\ BodyBudget \in Nat
  /\ MaxQueue \in Nat /\ MaxMade \in Nat
  /\ MaxConcurrent \in Nat \ {0} /\ RecvInitial \in Nat \ {0} /\ Default \in Nat \ {0}
  /\ PumpMax \in Nat \ {0} /\ MaxWindow \in Nat \ {0}
  /\ Windows \subseteq Nat /\ Increments \subseteq Nat /\ Payloads \subseteq Nat
  /\ Bodies \subseteq Nat /\ Chunks \subseteq Nat /\ ResetCap >= MaxConcurrent
BY Http2Assumption

LEMMA MaxOfTwo == ASSUME NEW a \in Int, NEW b \in Int PROVE Max({a, b}) = IF a >= b THEN a ELSE b
BY DEF Max

LEMMA MinOfTwo == ASSUME NEW a \in Int, NEW b \in Int PROVE Min({a, b}) = IF a <= b THEN a ELSE b
BY DEF Min

LEMMA LiveFacts ==
  ASSUME NEW c \in Connection
  PROVE  /\ Live(c) \subseteq Ids /\ IsFiniteSet(Live(c)) /\ Cardinality(Live(c)) \in Nat
         /\ c.streams \in [Live(c) -> Stream] /\ 0 \notin Live(c)
         /\ \A i \in Live(c) : c.streams[i] \in Stream
<1>1. PICK D \in SUBSET Ids : c.streams \in [D -> Stream] BY DEF Connection
<1>2. Live(c) = D BY <1>1 DEF Live
<1>3. IsFiniteSet(Ids) BY FS_Interval, Sizes DEF Ids
<1>4. IsFiniteSet(D) BY <1>3, FS_Subset
<1>5. 0 \notin Ids BY DEF Ids
<1> QED BY <1>1, <1>2, <1>4, <1>5, FS_CardinalityType

LEMMA RoomFacts ==
  ASSUME NEW c \in Connection, NEW i \in Live(c)
  PROVE  /\ Room(c, i) \in Nat
         /\ Room(c, i) # 0 => Room(c, i) <= c.streams[i].send /\ Room(c, i) <= c.send
         /\ Room(c, i) = 0 <=> c.streams[i].send <= 0 \/ c.send <= 0
         /\ Room(c, i) = c.streams[i].send \/ Room(c, i) = c.send \/ Room(c, i) = 0
<1> DEFINE a == c.streams[i].send
           b == c.send
<1>1. a \in Int /\ b \in Int
  <2>1. c.streams[i] \in Stream BY LiveFacts
  <2> QED BY <2>1 DEF Stream, Connection
<1>2. Room(c, i) = Max({0, Min({a, b})}) BY DEF Room
<1> HIDE DEF a, b
<1>3. Min({a, b}) = IF a <= b THEN a ELSE b BY <1>1, MinOfTwo
<1> DEFINE m == Min({a, b})
<1>4. m \in Int BY <1>1, <1>3
<1> HIDE DEF m
<1>5. Max({0, m}) = IF 0 >= m THEN 0 ELSE m BY <1>4, MaxOfTwo
<1>6. m = IF a <= b THEN a ELSE b BY <1>3 DEF m
<1>7. Room(c, i) = IF 0 >= m THEN 0 ELSE m BY <1>2, <1>5 DEF m
<1> QED BY <1>1, <1>4, <1>6, <1>7 DEF a, b

-----------------------------------------------------------------------------
(* What the response side writes: stream i, and the connection's window. *)

SameRequest(s, t) ==
  /\ t.headers = s.headers /\ t.ended = s.ended /\ t.dispatched = s.dispatched
  /\ t.received = s.received /\ t.recv = s.recv /\ t.unacked = s.unacked /\ t.told = s.told

SameConnection(c, d) ==
  /\ d.last = c.last /\ d.cont = c.cont /\ d.recv = c.recv /\ d.unacked = c.unacked
  /\ d.initial = c.initial /\ d.resets = c.resets /\ d.closing = c.closing
  /\ d.freed = c.freed /\ d.told = c.told /\ d.polite = c.polite

Rewrites(c, d, i) ==
  /\ d \in Connection /\ Live(d) = Live(c)
  /\ \A j \in Live(c) \ {i} : d.streams[j] = c.streams[j]
  /\ SameRequest(c.streams[i], d.streams[i])
  /\ SameConnection(c, d) /\ d.inflight = c.inflight

(* A stream is replaced. *)
LEMMA WithStreams ==
  ASSUME NEW c \in Connection, NEW i \in Live(c), NEW t \in Stream
  PROVE  LET f == [c.streams EXCEPT ![i] = t]
         IN /\ f \in [Live(c) -> Stream] /\ DOMAIN f = Live(c)
            /\ f \in UNION {[E -> Stream] : E \in SUBSET Ids}
            /\ f[i] = t /\ \A j \in Live(c) \ {i} : f[j] = c.streams[j]
<1> DEFINE D == Live(c)
           f == [c.streams EXCEPT ![i] = t]
<1>1. D \in SUBSET Ids /\ c.streams \in [D -> Stream] BY LiveFacts
<1>2. f \in [D -> Stream] /\ f[i] = t /\ \A j \in D \ {i} : f[j] = c.streams[j] BY <1>1
<1> HIDE DEF f, D
<1>3. f \in UNION {[E -> Stream] : E \in SUBSET Ids} BY <1>1, <1>2
<1>4. DOMAIN f = D BY <1>2
<1> QED BY <1>2, <1>3, <1>4 DEF f, D

Put(c, i, t, a, b) == [c EXCEPT !.streams[i] = t, !.send = a, !.peer = b]

LEMMA Written ==
  ASSUME NEW c \in Connection, NEW i \in Live(c), NEW t \in Stream, NEW a \in Int, NEW b \in Int,
         SameRequest(c.streams[i], t)
  PROVE  LET d == Put(c, i, t, a, b)
         IN Rewrites(c, d, i) /\ d.streams[i] = t /\ d.send = a /\ d.peer = b /\ d.torn = c.torn
<1> DEFINE f == [c.streams EXCEPT ![i] = t]
           d == Put(c, i, t, a, b)
<1>1. /\ f \in UNION {[E -> Stream] : E \in SUBSET Ids} /\ DOMAIN f = Live(c)
      /\ f[i] = t /\ \A j \in Live(c) \ {i} : f[j] = c.streams[j]
  BY WithStreams
<1>2. d = [c EXCEPT !.streams = f, !.send = a, !.peer = b] BY DEF Connection, Put
<1> HIDE DEF f, d
<1>3. d \in Connection /\ d.streams = f BY <1>1, <1>2 DEF Connection
<1>4. SameConnection(c, d) /\ d.inflight = c.inflight BY <1>2 DEF Connection, SameConnection
<1>5. d.send = a /\ d.peer = b /\ d.torn = c.torn BY <1>2 DEF Connection
<1>6. Live(d) = Live(c) BY <1>1, <1>3 DEF Live
<1> QED BY <1>1, <1>3, <1>4, <1>5, <1>6 DEF Rewrites, d

LEMMA SentFacts ==
  ASSUME NEW s \in Stream, NEW n \in Nat
  PROVE  LET t == [s EXCEPT !.send = @ - n, !.window = @ - n, !.sent = @ + n]
         IN /\ t \in Stream /\ SameRequest(s, t)
            /\ t.send = s.send - n /\ t.window = s.window - n /\ t.sent = s.sent + n
            /\ t.out = s.out /\ t.held = s.held /\ t.fin = s.fin
            /\ t.heads = s.heads /\ t.made = s.made
<1> DEFINE t == [s EXCEPT !.send = @ - n, !.window = @ - n, !.sent = @ + n]
<1>1. s.send - n \in Int /\ s.window - n \in Int /\ s.sent + n \in Nat BY DEF Stream
<1>2. t \in Stream BY <1>1 DEF Stream
<1>3. SameRequest(s, t) BY DEF Stream, SameRequest
<1>4. t.send = s.send - n /\ t.window = s.window - n /\ t.sent = s.sent + n BY DEF Stream
<1>5. /\ t.out = s.out /\ t.held = s.held /\ t.fin = s.fin
      /\ t.heads = s.heads /\ t.made = s.made
  BY DEF Stream
<1> QED BY <1>2, <1>3, <1>4, <1>5

LEMMA SendDataFacts ==
  ASSUME NEW c \in Connection, NEW i \in Live(c), NEW n \in Nat, NEW end \in BOOLEAN
  PROVE  LET d == SendData(c, i, n, end)
             s == c.streams[i]
             t == d.streams[i]
         IN /\ Rewrites(c, d, i)
            /\ t.send = s.send - n /\ t.window = s.window - n /\ t.sent = s.sent + n
            /\ t.out = s.out /\ t.held = s.held /\ t.fin = s.fin
            /\ t.heads = s.heads /\ t.made = s.made
            /\ d.send = c.send - n /\ d.peer = c.peer - n
            /\ d.torn = (c.torn \/ (end /\ (s.heads # 1 \/ t.sent # t.made)))
<1> DEFINE s == c.streams[i]
           t == [s EXCEPT !.send = @ - n, !.window = @ - n, !.sent = @ + n]
           a == c.send - n
           b == c.peer - n
           e == Put(c, i, t, a, b)
           d == SendData(c, i, n, end)
<1>1. s \in Stream /\ a \in Int /\ b \in Int BY LiveFacts DEF Connection
<1>2. d = IF end THEN Ended(e, i) ELSE e BY DEF SendData, Put
<1>3. /\ t \in Stream /\ SameRequest(s, t)
      /\ t.send = s.send - n /\ t.window = s.window - n /\ t.sent = s.sent + n
      /\ t.out = s.out /\ t.held = s.held /\ t.fin = s.fin
      /\ t.heads = s.heads /\ t.made = s.made
  <2> HIDE DEF s
  <2> QED BY <1>1, SentFacts
<1> HIDE DEF t, a, b
<1>4. /\ Rewrites(c, e, i) /\ e.streams[i] = t /\ e.send = a /\ e.peer = b /\ e.torn = c.torn
  BY <1>1, <1>3, Written
<1> HIDE DEF e, d
<1>5. CASE ~end
  <2>1. d = e BY <1>2, <1>5
  <2>2. d.torn = (c.torn \/ (end /\ (s.heads # 1 \/ t.sent # t.made))) BY <1>4, <1>5, <2>1 DEF Connection
  <2> QED BY <1>3, <1>4, <2>1, <2>2 DEF a, b, d
<1>6. CASE end
  <2> DEFINE x == e.torn \/ t.heads # 1 \/ t.sent # t.made
  <2>1. e \in Connection BY <1>4 DEF Rewrites
  <2>2. d = [e EXCEPT !.torn = x] BY <1>2, <1>4, <1>6, <2>1 DEF Ended, Connection
  <2> HIDE DEF x
  <2>3. x \in BOOLEAN BY DEF x
  <2>4. /\ d \in Connection /\ d.streams = e.streams /\ d.torn = x
        /\ d.send = e.send /\ d.peer = e.peer
    BY <2>1, <2>2, <2>3 DEF Connection
  <2>5. SameConnection(e, d) /\ d.inflight = e.inflight BY <2>1, <2>2 DEF Connection, SameConnection
  <2>6. Rewrites(c, d, i) BY <1>4, <2>4, <2>5 DEF Rewrites, Live, SameConnection
  <2>7. d.torn = (c.torn \/ (end /\ (s.heads # 1 \/ t.sent # t.made))) BY <1>3, <1>4, <1>6, <2>4 DEF x
  <2> QED BY <1>3, <1>4, <2>4, <2>6, <2>7 DEF a, b, d
<1> QED BY <1>5, <1>6 DEF d

(* closeStream. *)
LEMMA CloseFacts ==
  ASSUME NEW c \in Connection, NEW i \in Live(c)
  PROVE  LET d == CloseStream(c, i)
         IN /\ d \in Connection /\ Live(d) = Live(c) \ {i}
            /\ \A j \in Live(d) : d.streams[j] = c.streams[j]
            /\ SameConnection(c, d) /\ d.send = c.send /\ d.peer = c.peer /\ d.torn = c.torn
            /\ d.inflight = IF c.inflight >= c.streams[i].received
                            THEN c.inflight - c.streams[i].received ELSE 0
<1> DEFINE f == Restrict(c.streams, Live(c) \ {i})
           m == Max({0, c.inflight - c.streams[i].received})
           d == CloseStream(c, i)
<1>1. d = [c EXCEPT !.streams = f, !.inflight = m] BY DEF CloseStream, Connection
<1>2. c.streams \in [Live(c) -> Stream] /\ Live(c) \in SUBSET Ids BY LiveFacts
<1>3. f \in [Live(c) \ {i} -> Stream] /\ \A j \in Live(c) \ {i} : f[j] = c.streams[j]
  BY <1>2 DEF Restrict
<1>4. Live(c) \ {i} \in SUBSET Ids BY <1>2
<1>5. f \in UNION {[E -> Stream] : E \in SUBSET Ids} BY <1>3, <1>4
<1>6. c.inflight \in Nat /\ c.streams[i].received \in Nat BY LiveFacts DEF Connection, Stream
<1>7. m \in Nat /\ m = IF c.inflight >= c.streams[i].received
                       THEN c.inflight - c.streams[i].received ELSE 0
  BY <1>6, MaxOfTwo
<1> HIDE DEF f, m, d
<1>8. /\ d \in Connection /\ d.streams = f /\ d.inflight = m
      /\ d.send = c.send /\ d.peer = c.peer /\ d.torn = c.torn
  BY <1>1, <1>5, <1>7 DEF Connection
<1>9. SameConnection(c, d) BY <1>1 DEF Connection, SameConnection
<1>10. Live(d) = Live(c) \ {i} BY <1>3, <1>8 DEF Live
<1> QED BY <1>3, <1>7, <1>8, <1>9, <1>10 DEF d

LEMMA DispatchedFinite ==
  ASSUME NEW c \in Connection
  PROVE  /\ IsFiniteSet(Dispatched(c.streams)) /\ Cardinality(Dispatched(c.streams)) \in Nat
         /\ Dispatched(c.streams) = {i \in Live(c) : c.streams[i].dispatched}
         /\ Cardinality(Dispatched(c.streams)) <= Cardinality(Live(c))
<1>1. Dispatched(c.streams) \subseteq Live(c) BY DEF Dispatched, Live
<1> QED BY <1>1, LiveFacts, FS_Subset, FS_CardinalityType DEF Dispatched, Live

LEMMA TotalOf ==
  ASSUME NEW c \in Connection
  PROVE  /\ IsFiniteSet(DOMAIN c.streams) /\ DOMAIN c.streams = Live(c)
         /\ \A i \in DOMAIN c.streams : c.streams[i].received \in Nat
         /\ Total(c.streams) \in Nat
<1>1. IsFiniteSet(DOMAIN c.streams) /\ DOMAIN c.streams = Live(c) BY LiveFacts DEF Live
<1>2. \A i \in DOMAIN c.streams : c.streams[i].received \in Nat BY <1>1, LiveFacts DEF Stream
<1> QED BY <1>1, <1>2, TotalNat

LEMMA SameDispatched ==
  ASSUME NEW c \in Connection, NEW d \in Connection, Live(d) = Live(c),
         \A j \in Live(c) : d.streams[j].dispatched = c.streams[j].dispatched
  PROVE  Dispatched(d.streams) = Dispatched(c.streams)
<1>1. /\ Dispatched(c.streams) = {j \in Live(c) : c.streams[j].dispatched}
      /\ Dispatched(d.streams) = {j \in Live(d) : d.streams[j].dispatched}
  BY DispatchedFinite
<1> QED BY <1>1

LEMMA SameBlocks ==
  ASSUME NEW c, NEW d, NEW x, Blocks(c, x), Live(d) = Live(c), d.cont = c.cont,
         \A j \in Live(d) \ {x} : /\ d.streams[j].headers = c.streams[j].headers
                                 /\ d.streams[j].ended = c.streams[j].ended
                                 /\ d.streams[j].dispatched = c.streams[j].dispatched
  PROVE  Blocks(d, x)
BY DEF Blocks

(* Responses do not disturb requests. *)
LEMMA RewritesKeeps ==
  ASSUME NEW c, NEW d, NEW x, NEW i \in Live(c), Requests(c, x), Rewrites(c, d, i)
  PROVE  Requests(d, x)
<1>1. /\ c \in Connection /\ d \in Connection /\ Live(d) = Live(c) BY DEF Requests, Limits, Rewrites
<1>2. \A j \in Live(c) : SameRequest(c.streams[j], d.streams[j])
  <2> SUFFICES ASSUME NEW j \in Live(c) PROVE SameRequest(c.streams[j], d.streams[j])
    OBVIOUS
  <2>1. CASE j = i BY <2>1 DEF Rewrites
  <2>2. CASE j # i BY <2>2 DEF Rewrites, SameRequest
  <2> QED BY <2>1, <2>2
<1>3. SameConnection(c, d) /\ d.inflight = c.inflight BY DEF Rewrites
<1>4. Total(d.streams) = Total(c.streams)
  BY <1>1, <1>2, TotalOf, TotalSame DEF SameRequest
<1>5. Dispatched(d.streams) = Dispatched(c.streams)
  BY <1>1, <1>2, SameDispatched DEF SameRequest
<1>6. Uploads(c, x) => Uploads(d, x) BY <1>1, <1>2, <1>3 DEF Uploads, SameRequest, SameConnection
<1>7. Blocks(c, x) => Blocks(d, x)
  BY <1>1, <1>2, <1>3, SameBlocks DEF SameRequest, SameConnection
<1>8. \A j \in Live(d) : j <= d.last /\ d.streams[j].received <= MaxBody
  BY <1>1, <1>2, <1>3 DEF Requests, Limits, SameRequest, SameConnection
<1> QED BY <1>1, <1>3, <1>4, <1>5, <1>6, <1>7, <1>8 DEF Requests, Limits, SameConnection

LEMMA CloseKeeps ==
  ASSUME NEW c, NEW x, NEW i \in Live(c), Requests(c, x)
  PROVE  /\ Requests(CloseStream(c, i), x)
         /\ x = i => Requests(CloseStream(c, i), 0)
<1> DEFINE d == CloseStream(c, i)
<1>0. c \in Connection BY DEF Requests, Limits
<1>1. /\ d \in Connection /\ Live(d) = Live(c) \ {i}
      /\ \A j \in Live(d) : d.streams[j] = c.streams[j]
      /\ SameConnection(c, d)
      /\ d.inflight = IF c.inflight >= c.streams[i].received
                      THEN c.inflight - c.streams[i].received ELSE 0
  BY <1>0, CloseFacts
<1> HIDE DEF d
<1>2. Total(c.streams) = c.streams[i].received + Total(d.streams)
  BY <1>0, <1>1, TotalOf, TotalBut
<1>3. c.inflight \in Nat /\ c.streams[i].received \in Nat /\ Total(d.streams) \in Nat
  BY <1>0, <1>1, LiveFacts, TotalOf DEF Connection, Stream
<1>4. c.inflight = Total(c.streams) => d.inflight = Total(d.streams) BY <1>1, <1>2, <1>3
<1>5. d.inflight <= c.inflight BY <1>1, <1>3
<1>6. Cardinality(Live(d)) <= Cardinality(Live(c)) BY <1>0, <1>1, LiveFacts, FS_Subset
<1>7. Cardinality(Dispatched(d.streams)) <= Cardinality(Dispatched(c.streams))
  <2>1. Dispatched(d.streams) \subseteq Dispatched(c.streams) BY <1>0, <1>1, DispatchedFinite
  <2> QED BY <1>0, <2>1, DispatchedFinite, FS_Subset
<1>8. Uploads(c, x) => Uploads(d, x) /\ (x = i => Uploads(d, 0)) BY <1>1 DEF Uploads, SameConnection
<1>9. Blocks(c, x) => Blocks(d, x) /\ (x = i => Blocks(d, 0)) BY <1>1 DEF Blocks, SameConnection
<1>10. \A j \in Live(d) : j <= d.last /\ d.streams[j].received <= MaxBody
  BY <1>1 DEF Requests, Limits, SameConnection
<1>11. d.inflight <= BodyBudget BY <1>1, <1>3, <1>5, Sizes DEF Requests, Limits
<1>12. Cardinality(Live(d)) <= MaxConcurrent
  <2> DEFINE m == Cardinality(Live(c))
             n == Cardinality(Live(d))
  <2>1. m \in Nat /\ n \in Nat BY <1>0, <1>1, LiveFacts
  <2>2. n <= m /\ m <= MaxConcurrent BY <1>6 DEF Requests, Limits
  <2> HIDE DEF m, n
  <2>3. n <= MaxConcurrent BY <2>1, <2>2, Sizes
  <2> QED BY <2>3 DEF n
<1>13. c.resets + Cardinality(Dispatched(c.streams)) <= MaxConcurrent
        => d.resets + Cardinality(Dispatched(d.streams)) <= MaxConcurrent
  <2>1. d.resets = c.resets /\ c.resets \in Nat BY <1>0, <1>1 DEF SameConnection, Connection
  <2> QED BY <1>0, <1>1, <1>7, <2>1, DispatchedFinite, Sizes
<1>14. ASSUME NEW y, Blocks(c, x) => Blocks(d, y), Uploads(c, x) => Uploads(d, y) PROVE Requests(d, y)
  BY <1>1, <1>4, <1>10, <1>11, <1>12, <1>13, <1>14 DEF Requests, Limits, SameConnection
<1> QED BY <1>8, <1>9, <1>14 DEF d

-----------------------------------------------------------------------------
(* Writing on one stream, which may end it; the others keep what they have. *)

Within(c, d) ==
  \A i \in Live(c) \cap Live(d) :
    d.streams[i].sent > c.streams[i].sent => d.streams[i].window >= 0 /\ d.peer >= 0

Onward(c, d) ==
  /\ Live(d) \subseteq Live(c)
  /\ d.send <= c.send /\ d.closing = c.closing /\ d.freed = c.freed
  /\ d.peer = c.peer \/ d.peer >= 0
  /\ \A i \in Live(d) : /\ d.streams[i].sent >= c.streams[i].sent
                        /\ \/ d.streams[i].sent = c.streams[i].sent
                              /\ d.streams[i].window = c.streams[i].window
                           \/ d.streams[i].window >= 0 /\ d.peer >= 0

Others(c, d, i) ==
  /\ Onward(c, d) /\ Live(c) \ {i} \subseteq Live(d)
  /\ \A j \in Live(d) \ {i} : d.streams[j] = c.streams[j]

(* What room there is for the others does not grow. *)
LEMMA OthersWait ==
  ASSUME NEW c \in Connection, NEW d \in Connection, NEW i, Others(c, d, i), NEW j \in Live(d) \ {i},
         Waits(c, j)
  PROVE  Waits(d, j)
<1>1. j \in Live(c) /\ d.streams[j] = c.streams[j] /\ d.send <= c.send BY DEF Others, Onward
<1>2. c.streams[j].send \in Int /\ c.send \in Int /\ d.send \in Int
  BY <1>1, LiveFacts DEF Connection, Stream
<1>3. Room(c, j) = 0 => Room(d, j) = 0
  <2>1. Room(c, j) = 0 <=> c.streams[j].send <= 0 \/ c.send <= 0 BY <1>1, RoomFacts
  <2>2. Room(d, j) = 0 <=> d.streams[j].send <= 0 \/ d.send <= 0 BY RoomFacts
  <2> QED BY <1>1, <1>2, <2>1, <2>2
<1> QED BY <1>1, <1>3 DEF Waits

LEMMA OnwardTrans ==
  ASSUME NEW c \in Connection, NEW d \in Connection, NEW e \in Connection,
         Onward(c, d), Onward(d, e)
  PROVE  Onward(c, e)
<1>1. c.send \in Int /\ d.send \in Int /\ e.send \in Int /\ c.peer \in Int /\ d.peer \in Int /\ e.peer \in Int
  BY DEF Connection
<1>2. ASSUME NEW k \in Live(e)
      PROVE  /\ e.streams[k].sent >= c.streams[k].sent
             /\ \/ e.streams[k].sent = c.streams[k].sent
                   /\ e.streams[k].window = c.streams[k].window
                \/ e.streams[k].window >= 0 /\ e.peer >= 0
  <2>1. k \in Live(d) /\ k \in Live(c) BY DEF Onward
  <2>2. c.streams[k].sent \in Nat /\ d.streams[k].sent \in Nat /\ e.streams[k].sent \in Nat
    BY <2>1, LiveFacts DEF Stream
  <2>3. d.streams[k].sent >= c.streams[k].sent /\ e.streams[k].sent >= d.streams[k].sent
    BY <2>1 DEF Onward
  <2>4. CASE e.streams[k].window >= 0 /\ e.peer >= 0 BY <2>2, <2>3, <2>4
  <2>5. CASE ~(e.streams[k].window >= 0 /\ e.peer >= 0)
    <3>1. e.streams[k].sent = d.streams[k].sent /\ e.streams[k].window = d.streams[k].window
      BY <2>5 DEF Onward
    <3>2. d.peer >= 0 => e.peer >= 0 BY DEF Onward
    <3>3. d.streams[k].sent = c.streams[k].sent /\ d.streams[k].window = c.streams[k].window
      BY <2>1, <2>5, <3>1, <3>2 DEF Onward
    <3> QED BY <2>2, <2>3, <3>1, <3>3
  <2> QED BY <2>4, <2>5
<1> QED BY <1>1, <1>2 DEF Onward

LEMMA OthersTrans ==
  ASSUME NEW c \in Connection, NEW d \in Connection, NEW e \in Connection, NEW i,
         Others(c, d, i), Others(d, e, i)
  PROVE  Others(c, e, i)
<1>1. Onward(c, e) BY OnwardTrans DEF Others
<1>2. Live(e) \subseteq Live(d) BY DEF Others, Onward
<1>3. Live(c) \ {i} \subseteq Live(e) BY DEF Others
<1>4. \A j \in Live(e) \ {i} : e.streams[j] = c.streams[j] BY <1>2 DEF Others
<1> QED BY <1>1, <1>3, <1>4 DEF Others

LEMMA OnwardWithin ==
  ASSUME NEW c \in Connection, NEW d \in Connection, Onward(c, d)
  PROVE  Within(c, d)
<1> SUFFICES ASSUME NEW i \in Live(c) \cap Live(d), d.streams[i].sent > c.streams[i].sent
             PROVE  d.streams[i].window >= 0 /\ d.peer >= 0
  BY DEF Within
<1>1. c.streams[i].sent \in Nat /\ d.streams[i].sent \in Nat BY LiveFacts DEF Stream
<1>2. d.streams[i].sent # c.streams[i].sent BY <1>1
<1> QED BY <1>2 DEF Onward

LEMMA CloseOthers ==
  ASSUME NEW c \in Connection, NEW i \in Live(c)
  PROVE  Others(c, CloseStream(c, i), i)
<1> DEFINE d == CloseStream(c, i)
<1>1. /\ d \in Connection /\ Live(d) = Live(c) \ {i}
      /\ \A j \in Live(d) : d.streams[j] = c.streams[j]
      /\ SameConnection(c, d) /\ d.send = c.send /\ d.peer = c.peer
  BY CloseFacts
<1> HIDE DEF d
<1>2. \A j \in Live(d) : c.streams[j].sent \in Nat BY <1>1, LiveFacts DEF Stream
<1>3. c.send \in Int BY DEF Connection
<1> QED BY <1>1, <1>2, <1>3 DEF Others, Onward, SameConnection, d

Left(c, i, n) == [c EXCEPT !.streams[i].out = @ - n]

LEMMA LeftFacts ==
  ASSUME NEW c \in Connection, NEW i \in Live(c), NEW n \in Nat, n <= c.streams[i].out
  PROVE  LET d == Left(c, i, n)
             s == c.streams[i]
             t == d.streams[i]
         IN /\ Rewrites(c, d, i)
            /\ t.send = s.send /\ t.window = s.window /\ t.sent = s.sent
            /\ t.out = s.out - n /\ t.held = s.held /\ t.fin = s.fin
            /\ t.heads = s.heads /\ t.made = s.made
            /\ d.send = c.send /\ d.peer = c.peer /\ d.torn = c.torn
<1> DEFINE s == c.streams[i]
           t == [s EXCEPT !.out = @ - n]
           a == c.send
           b == c.peer
           d == Left(c, i, n)
<1>1. s \in Stream /\ a \in Int /\ b \in Int /\ c.streams \in [Live(c) -> Stream]
  BY LiveFacts DEF Connection
<1>2. s.out - n \in Nat BY <1>1 DEF Stream
<1>3. t \in Stream BY <1>1, <1>2 DEF Stream
<1>4. SameRequest(s, t) BY <1>1 DEF Stream, SameRequest
<1>5. /\ t.send = s.send /\ t.window = s.window /\ t.sent = s.sent
      /\ t.out = s.out - n /\ t.held = s.held /\ t.fin = s.fin
      /\ t.heads = s.heads /\ t.made = s.made
  BY <1>1 DEF Stream
<1>6. d = Put(c, i, t, a, b) BY <1>1 DEF Left, Put, Connection
<1> HIDE DEF t, a, b
<1>7. Rewrites(c, d, i) /\ d.streams[i] = t /\ d.send = a /\ d.peer = b /\ d.torn = c.torn
  BY <1>1, <1>3, <1>4, <1>6, Written
<1> QED BY <1>5, <1>7 DEF a, b

-----------------------------------------------------------------------------
(* pumpStream, in its two halves: what the windows let go, and the end. *)

Share(c, i) == Min({c.streams[i].out, Allowed(c, i)})

Drained(c, i) ==
  LET n == Share(c, i)
      s == c.streams[i]
  IN IF n = 0 THEN c ELSE Left(SendData(c, i, n, n = s.out /\ s.fin), i, n)

LEMMA PumpIs ==
  ASSUME NEW c, NEW i
  PROVE  PumpStream(c, i) =
           IF c.streams[i].held /\ Share(c, i) = c.streams[i].out /\ c.streams[i].fin
           THEN CloseStream(Drained(c, i), i) ELSE Drained(c, i)
BY DEF PumpStream, Drained, Share, Left

LEMMA ShareFacts ==
  ASSUME NEW c \in Connection, NEW i \in Live(c)
  PROVE  /\ Share(c, i) \in Nat /\ Share(c, i) <= c.streams[i].out /\ Share(c, i) <= Room(c, i)
         /\ Share(c, i) = c.streams[i].out \/ Share(c, i) = Room(c, i)
<1> DEFINE a == c.streams[i].out
           b == Room(c, i)
           n == Share(c, i)
<1>1. a \in Nat /\ b \in Nat BY LiveFacts, RoomFacts DEF Stream
<1>2. n = Min({a, b}) BY DEF Share, Allowed
<1> HIDE DEF a, b, n
<1>3. n = IF a <= b THEN a ELSE b BY <1>1, <1>2, MinOfTwo
<1> QED BY <1>1, <1>3 DEF a, b, n

LEMMA DrainedFacts ==
  ASSUME NEW c \in Connection, NEW i \in Live(c)
  PROVE  LET d == Drained(c, i)
             n == Share(c, i)
             s == c.streams[i]
             t == d.streams[i]
         IN /\ Rewrites(c, d, i)
            /\ t.send = s.send - n /\ t.window = s.window - n /\ t.sent = s.sent + n
            /\ t.out = s.out - n /\ t.held = s.held /\ t.fin = s.fin
            /\ t.heads = s.heads /\ t.made = s.made
            /\ d.send = c.send - n /\ d.peer = c.peer - n
            /\ d.torn = (c.torn \/ (n > 0 /\ n = s.out /\ s.fin
                                     /\ (s.heads # 1 \/ s.sent + n # s.made)))
<1> DEFINE n == Share(c, i)
           s == c.streams[i]
           end == n = s.out /\ s.fin
           e == SendData(c, i, n, end)
           d == Drained(c, i)
<1>1. n \in Nat /\ n <= s.out /\ s \in Stream BY ShareFacts, LiveFacts
<1>2. end \in BOOLEAN OBVIOUS
<1>3. d = IF n = 0 THEN c ELSE Left(e, i, n) BY DEF Drained
<1>s. /\ s.send \in Int /\ s.window \in Int /\ s.sent \in Nat /\ s.out \in Nat
      /\ c.send \in Int /\ c.peer \in Int /\ c.torn \in BOOLEAN
  BY <1>1 DEF Stream, Connection
<1> HIDE DEF n, d
<1>4. CASE n = 0
  <2>1. d = c BY <1>3, <1>4
  <2>2. Rewrites(c, d, i) BY <2>1 DEF Rewrites, SameRequest, SameConnection
  <2>3. /\ s.send - n = s.send /\ s.window - n = s.window /\ s.sent + n = s.sent
        /\ s.out - n = s.out /\ c.send - n = c.send /\ c.peer - n = c.peer
    BY <1>4, <1>s
  <2>4. d.torn = (c.torn \/ (n > 0 /\ n = s.out /\ s.fin
                                     /\ (s.heads # 1 \/ s.sent + n # s.made)))
    <3>1. ~(n > 0) BY <1>4
    <3> QED BY <2>1, <3>1, <1>s
  <2> QED BY <2>1, <2>2, <2>3, <2>4 DEF d, n
<1>5. CASE n # 0
  <2>1. d = Left(e, i, n) BY <1>3, <1>5
  <2>2. /\ Rewrites(c, e, i)
        /\ e.streams[i].send = s.send - n /\ e.streams[i].window = s.window - n
        /\ e.streams[i].sent = s.sent + n
        /\ e.streams[i].out = s.out /\ e.streams[i].held = s.held /\ e.streams[i].fin = s.fin
        /\ e.streams[i].heads = s.heads /\ e.streams[i].made = s.made
        /\ e.send = c.send - n /\ e.peer = c.peer - n
        /\ e.torn = (c.torn \/ (end /\ (s.heads # 1 \/ e.streams[i].sent # e.streams[i].made)))
    <3> HIDE DEF end
    <3> QED BY <1>1, <1>2, SendDataFacts
  <2> HIDE DEF e, end
  <2>3. e \in Connection /\ Live(e) = Live(c) BY <2>2 DEF Rewrites
  <2>4. /\ Rewrites(e, d, i)
        /\ d.streams[i].send = e.streams[i].send /\ d.streams[i].window = e.streams[i].window
        /\ d.streams[i].sent = e.streams[i].sent
        /\ d.streams[i].out = e.streams[i].out - n /\ d.streams[i].held = e.streams[i].held
        /\ d.streams[i].fin = e.streams[i].fin
        /\ d.streams[i].heads = e.streams[i].heads /\ d.streams[i].made = e.streams[i].made
        /\ d.send = e.send /\ d.peer = e.peer /\ d.torn = e.torn
    BY <1>1, <2>1, <2>2, <2>3, LeftFacts
  <2>5. Rewrites(c, d, i) BY <2>2, <2>4 DEF Rewrites, SameRequest, SameConnection
  <2>6. d.torn = (c.torn \/ (n > 0 /\ n = s.out /\ s.fin
                                     /\ (s.heads # 1 \/ s.sent + n # s.made)))
    <3>1. n > 0 BY <1>1, <1>5
    <3>2. d.torn = (c.torn \/ (end /\ (s.heads # 1 \/ s.sent + n # s.made))) BY <2>2, <2>4
    <3> QED BY <3>1, <3>2 DEF end
  <2> QED BY <2>2, <2>4, <2>5, <2>6 DEF d, n
<1> QED BY <1>4, <1>5

LEMMA PumpTyped ==
  ASSUME NEW c \in Connection, NEW i
  PROVE  PumpIfLive(c, i) \in Connection
<1>1. CASE i \notin Live(c) BY <1>1 DEF PumpIfLive
<1>2. CASE i \in Live(c)
  <2>1. Drained(c, i) \in Connection /\ i \in Live(Drained(c, i))
    BY <1>2, DrainedFacts DEF Rewrites
  <2>2. CloseStream(Drained(c, i), i) \in Connection BY <2>1, CloseFacts
  <2> QED BY <1>2, <2>1, <2>2, PumpIs DEF PumpIfLive
<1> QED BY <1>1, <1>2

(* What a stream's handler relies on. *)
Undisturbed(s, t) ==
  t.dispatched = s.dispatched /\ t.fin = s.fin /\ t.heads = s.heads /\ t.out <= s.out

LEMMA PumpKeeps ==
  ASSUME NEW c, NEW x, NEW i \in Live(c), Requests(c, x), Responses(c, 0)
  PROVE  LET d == PumpStream(c, i)
         IN /\ Requests(d, x) /\ Responses(d, 0) /\ Others(c, d, i)
            /\ IF i \in Live(d)
               THEN Waits(d, i) /\ Undisturbed(c.streams[i], d.streams[i])
               ELSE c.streams[i].fin
<1> DEFINE d == Drained(c, i)
           n == Share(c, i)
           s == c.streams[i]
           t == d.streams[i]
<1>0. c \in Connection /\ i # 0
  <2>1. c \in Connection BY DEF Requests, Limits
  <2> QED BY <2>1, LiveFacts
<1>1. /\ Rewrites(c, d, i)
      /\ t.send = s.send - n /\ t.window = s.window - n /\ t.sent = s.sent + n
      /\ t.out = s.out - n /\ t.held = s.held /\ t.fin = s.fin
      /\ t.heads = s.heads /\ t.made = s.made
      /\ d.send = c.send - n /\ d.peer = c.peer - n
      /\ d.torn = (c.torn \/ (n > 0 /\ n = s.out /\ s.fin
                               /\ (s.heads # 1 \/ s.sent + n # s.made)))
  BY <1>0, DrainedFacts
<1>2. /\ n \in Nat /\ n <= s.out /\ n <= Room(c, i) /\ (n = s.out \/ n = Room(c, i))
  BY <1>0, ShareFacts
<1>3. Response(s) BY <1>0 DEF Responses
<1>4. /\ Room(c, i) \in Nat
      /\ Room(c, i) # 0 => Room(c, i) <= s.send /\ Room(c, i) <= c.send
      /\ Room(c, i) = 0 <=> s.send <= 0 \/ c.send <= 0
      /\ Room(c, i) = s.send \/ Room(c, i) = c.send \/ Room(c, i) = 0
  BY <1>0, RoomFacts
<1>5. d \in Connection /\ Live(d) = Live(c) /\ SameConnection(c, d) BY <1>1 DEF Rewrites
<1>6. /\ s \in Stream /\ t \in Stream /\ c.send \in Int /\ c.peer \in Int /\ c.torn \in BOOLEAN
  BY <1>0, <1>5, LiveFacts DEF Connection
<1>s. /\ s.send \in Int /\ s.window \in Int /\ s.sent \in Nat /\ s.out \in Nat /\ s.made \in Nat
      /\ s.fin \in BOOLEAN /\ s.held \in BOOLEAN /\ s.heads \in Nat
  BY <1>6 DEF Stream
<1>7. c.peer = c.send /\ ~c.torn BY DEF Responses
<1> HIDE DEF d, n
<1>8. SameRequest(s, t) BY <1>1 DEF Rewrites
<1>9. Requests(d, x) BY <1>1, RewritesKeeps
<1>10. ~d.torn
  <2>1. CASE n > 0 /\ n = s.out /\ s.fin
    <3>1. s.held /\ s.heads = 1 BY <1>3, <1>s, <2>1 DEF Response
    <3>2. s.made = s.sent + n BY <1>3, <2>1 DEF Response
    <3> QED BY <1>1, <1>7, <3>1, <3>2
  <2>2. CASE ~(n > 0 /\ n = s.out /\ s.fin) BY <1>1, <1>7, <2>2
  <2> QED BY <2>1, <2>2
<1>11. Others(c, d, i)
  <2>1. n > 0 => t.window >= 0 /\ d.peer >= 0
    BY <1>1, <1>2, <1>3, <1>4, <1>6, <1>7, <1>s DEF Response
  <2>2. n = 0 => t.sent = s.sent /\ t.window = s.window /\ d.peer = c.peer BY <1>1, <1>6, <1>s
  <2>3. t.sent >= s.sent /\ d.send <= c.send BY <1>1, <1>2, <1>6, <1>s
  <2>4. n > 0 \/ n = 0 BY <1>2
  <2>5. \A j \in Live(c) \ {i} : d.streams[j] = c.streams[j] BY <1>1 DEF Rewrites
  <2>6. \A j \in Live(c) \ {i} : c.streams[j].sent \in Nat BY <1>0, LiveFacts DEF Stream
  <2>7. Onward(c, d)
    <3>1. ASSUME NEW k \in Live(d)
          PROVE  /\ d.streams[k].sent >= c.streams[k].sent
                 /\ \/ d.streams[k].sent = c.streams[k].sent
                       /\ d.streams[k].window = c.streams[k].window
                    \/ d.streams[k].window >= 0 /\ d.peer >= 0
      <4>1. CASE k = i BY <2>1, <2>2, <2>3, <2>4, <4>1
      <4>2. CASE k # i BY <1>5, <2>5, <2>6, <4>2
      <4> QED BY <4>1, <4>2
    <3>2. d.peer = c.peer \/ d.peer >= 0 BY <2>1, <2>2, <2>4
    <3> QED BY <1>5, <2>3, <3>1, <3>2 DEF Onward, SameConnection
  <2> QED BY <1>5, <2>5, <2>7 DEF Others
<1>12. Waits(d, i)
  <2> SUFFICES ASSUME t.out > 0 PROVE Room(d, i) = 0
    BY DEF Waits
  <2>1. n = Room(c, i) BY <1>1, <1>2, <1>s
  <2>2. t.send <= 0 \/ d.send <= 0 BY <1>1, <1>2, <1>4, <1>6, <1>s, <2>1
  <2> QED BY <1>5, <2>2, RoomFacts
<1>13. ~(s.held /\ n = s.out /\ s.fin) => Response(t)
  <2> SUFFICES ASSUME ~(s.held /\ n = s.out /\ s.fin) PROVE Response(t)
    OBVIOUS
  <2>1. t.window = t.send BY <1>1, <1>3 DEF Response
  <2>2. t.made = t.sent + t.out BY <1>1, <1>2, <1>3, <1>s DEF Response
  <2>3. t.out > 0 => t.held BY <1>1, <1>2, <1>3, <1>s DEF Response
  <2>4. t.fin => t.out > 0
    <3>1. s.fin => s.held /\ n # s.out BY <1>3 DEF Response
    <3> QED BY <1>1, <1>2, <1>s, <3>1
  <2>5. /\ t.heads <= 1 /\ (t.held => t.heads = 1) /\ (t.heads = 1 => t.dispatched)
        /\ (t.heads = 0 => t.made = 0)
    BY <1>1, <1>3, <1>8 DEF Response, SameRequest
  <2> QED BY <2>1, <2>2, <2>3, <2>4, <2>5 DEF Response
<1>14. \A j \in Live(c) \ {i} : Response(d.streams[j])
  <2>1. \A j \in Live(c) : j # 0 BY <1>0, LiveFacts
  <2> QED BY <1>1, <2>1 DEF Responses, Rewrites
<1>15. d.peer = d.send BY <1>1, <1>7
<1>16. CASE ~(s.held /\ n = s.out /\ s.fin)
  <2>1. PumpStream(c, i) = d BY <1>16, PumpIs DEF d, n
  <2>2. Responses(d, 0) BY <1>5, <1>10, <1>13, <1>14, <1>15, <1>16 DEF Responses
  <2>3. Undisturbed(s, t) BY <1>1, <1>2, <1>8, <1>s DEF Undisturbed, SameRequest
  <2> QED BY <1>5, <1>9, <1>11, <1>12, <2>1, <2>2, <2>3
<1>17. CASE s.held /\ n = s.out /\ s.fin
  <2> DEFINE e == CloseStream(d, i)
  <2>1. PumpStream(c, i) = e BY <1>17, PumpIs DEF d, n
  <2>2. /\ e \in Connection /\ Live(e) = Live(d) \ {i}
        /\ \A j \in Live(e) : e.streams[j] = d.streams[j]
        /\ e.send = d.send /\ e.peer = d.peer /\ e.torn = d.torn
    BY <1>5, CloseFacts
  <2>3. Requests(e, x) BY <1>5, <1>9, CloseKeeps
  <2>4. Others(d, e, i) BY <1>5, CloseOthers
  <2> HIDE DEF e
  <2>5. Others(c, e, i) BY <1>0, <1>5, <1>11, <2>2, <2>4, OthersTrans
  <2>6. Responses(e, 0) BY <1>5, <1>10, <1>14, <1>15, <2>2 DEF Responses
  <2>7. i \notin Live(e) BY <2>2
  <2> QED BY <1>17, <2>1, <2>3, <2>5, <2>6, <2>7
<1> QED BY <1>16, <1>17

-----------------------------------------------------------------------------
(* pumpAll: the streams one after the other, those of R so far. *)

PumpedTo(c, d, x, R) ==
  /\ Requests(d, x) /\ Responses(d, 0) /\ Onward(c, d)
  /\ \A i \in Live(d) : Undisturbed(c.streams[i], d.streams[i]) /\ (i \in R => Waits(d, i))
  /\ \A i \in Live(c) \ Live(d) : c.streams[i].fin

LEMMA PumpedNone ==
  ASSUME NEW c, NEW x, Requests(c, x), Responses(c, 0)
  PROVE  PumpedTo(c, c, x, {})
<1>1. c \in Connection BY DEF Requests, Limits
<1>2. \A i \in Live(c) : c.streams[i].sent \in Nat /\ c.streams[i].out \in Nat
  BY <1>1, LiveFacts DEF Stream
<1>3. c.send \in Int BY <1>1 DEF Connection
<1> QED BY <1>2, <1>3 DEF PumpedTo, Onward, Undisturbed

LEMMA PumpedMore ==
  ASSUME NEW c \in Connection, NEW d, NEW x, NEW R, PumpedTo(c, d, x, R), NEW i
  PROVE  PumpedTo(c, PumpIfLive(d, i), x, R \cup {i})
<1>1. CASE i \notin Live(d) BY <1>1 DEF PumpIfLive, PumpedTo
<1>2. CASE i \in Live(d)
  <2> DEFINE e == PumpStream(d, i)
  <2>1. PumpIfLive(d, i) = e BY <1>2 DEF PumpIfLive
  <2>2. /\ Requests(e, x) /\ Responses(e, 0) /\ Others(d, e, i)
        /\ IF i \in Live(e)
           THEN Waits(e, i) /\ Undisturbed(d.streams[i], e.streams[i])
           ELSE d.streams[i].fin
    BY <1>2, PumpKeeps DEF PumpedTo
  <2> HIDE DEF e
  <2>3. d \in Connection /\ e \in Connection BY <2>2 DEF Requests, Limits, PumpedTo
  <2>4. Live(e) \subseteq Live(d) /\ Live(d) \subseteq Live(c) /\ Live(d) \ {i} \subseteq Live(e)
    BY <2>2 DEF Others, Onward, PumpedTo
  <2>5. Onward(c, e) BY <2>2, <2>3, OnwardTrans DEF PumpedTo, Others
  <2>6. ASSUME NEW k \in Live(e)
        PROVE  Undisturbed(c.streams[k], e.streams[k]) /\ (k \in R \cup {i} => Waits(e, k))
    <3>1. k \in Live(d) /\ k \in Live(c) BY <2>4
    <3>2. c.streams[k].out \in Nat /\ d.streams[k].out \in Nat /\ e.streams[k].out \in Nat
      BY <2>3, <3>1, LiveFacts DEF Stream
    <3>3. Undisturbed(c.streams[k], d.streams[k]) BY <3>1 DEF PumpedTo
    <3>4. CASE k = i BY <2>2, <3>2, <3>3, <3>4 DEF Undisturbed
    <3>5. CASE k # i
      <4>1. e.streams[k] = d.streams[k] BY <2>2, <3>5 DEF Others
      <4>2. k \in R => Waits(e, k) BY <2>2, <2>3, <3>1, <3>5, OthersWait DEF PumpedTo
      <4> QED BY <3>3, <3>5, <4>1, <4>2
    <3> QED BY <3>4, <3>5
  <2>7. ASSUME NEW k \in Live(c) \ Live(e) PROVE c.streams[k].fin
    <3>1. CASE k \in Live(d)
      <4>1. k = i BY <2>4, <2>7, <3>1
      <4> QED BY <1>2, <2>2, <2>7, <4>1 DEF PumpedTo, Undisturbed
    <3>2. CASE k \notin Live(d) BY <3>2 DEF PumpedTo
    <3> QED BY <3>1, <3>2
  <2> QED BY <2>1, <2>2, <2>5, <2>6, <2>7 DEF PumpedTo
<1> QED BY <1>1, <1>2

LEMMA MaxIn ==
  ASSUME NEW n \in Nat, NEW s \in SUBSET (1..n), s # {}
  PROVE  Max(s) \in s
<1> DEFINE Has(r) == \E k \in r : \A y \in r : k >= y
           N == {m \in Nat : \A r \in SUBSET (1..m) : r # {} => Has(r)}
<1>1. 0 \in N
  <2>1. 1..0 = {} OBVIOUS
  <2> QED BY <2>1
<1>2. ASSUME NEW m \in Nat, m \in N PROVE m + 1 \in N
  <2> SUFFICES ASSUME NEW r \in SUBSET (1..(m + 1)), r # {} PROVE Has(r)
    OBVIOUS
  <2>1. CASE m + 1 \in r
    <3>1. \A y \in r : m + 1 >= y OBVIOUS
    <3> QED BY <2>1, <3>1
  <2>2. CASE m + 1 \notin r
    <3>1. r \in SUBSET (1..m) BY <2>2
    <3> QED BY <1>2, <3>1
  <2> QED BY <2>1, <2>2
<1> HIDE DEF N
<1>3. n \in N BY <1>1, <1>2, FromZero
<1>4. Has(s) BY <1>3 DEF N
<1> QED BY <1>4 DEF Max

IsPumping(g, c, q) ==
  g = [s \in SUBSET DOMAIN q |->
         IF s = {} THEN c ELSE PumpIfLive(g[s \ {Max(s)}], q[Max(s)])]

LEMMA PumpingIs ==
  ASSUME NEW c, NEW q
  PROVE  FoldLeft(PumpIfLive, c, q) = (CHOOSE g : IsPumping(g, c, q))[DOMAIN q]
BY DEF FoldLeft, IsPumping, MapThenFoldSet

LEMMA PumpingExists ==
  ASSUME NEW c \in Connection, NEW n \in Nat, NEW q, DOMAIN q = 1..n
  PROVE  \E g : IsPumping(g, c, q)
<1> DEFINE D == 1..n
           V == Connection
           ch == [s \in SUBSET D |-> Max(s)]
           op == [p \in D \X V |-> PumpIfLive(p[2], q[p[1]])]
<1>1. op \in [D \X V -> V] BY PumpTyped
<1>2. \A s \in SUBSET D : ch[s] = Max(s) OBVIOUS
<1>3. \A s \in SUBSET D : s # {} => Max(s) \in s BY MaxIn
<1>4. \A k \in D, d \in V : op[<<k, d>>] = PumpIfLive(d, q[k]) OBVIOUS
<1>5. IsFiniteSet(D) BY FS_Interval
<1>6. c \in V OBVIOUS
<1> HIDE DEF D, V, ch, op
<1>7. \E g \in [SUBSET D -> V] : IsFold(g, D, c, ch, op)
  <2>1. \A s \in SUBSET D : s # {} => ch[s] \in s BY <1>2, <1>3
  <2> QED BY <1>1, <1>5, <1>6, <2>1, FoldExists
<1>8. PICK g \in [SUBSET D -> V] : IsFold(g, D, c, ch, op) BY <1>7
<1> DEFINE Val(s) == IF s = {} THEN c ELSE PumpIfLive(g[s \ {Max(s)}], q[Max(s)])
<1>9. ASSUME NEW s \in SUBSET D PROVE g[s] = Val(s)
  <2>1. CASE s = {} BY <1>8, <2>1 DEF IsFold
  <2>2. CASE s # {}
    <3>1. Max(s) \in D /\ s \ {Max(s)} \in SUBSET D BY <1>3, <2>2
    <3>2. g[s \ {Max(s)}] \in V BY <3>1
    <3>3. g[s] = op[<<Max(s), g[s \ {Max(s)}]>>] BY <1>2, <1>8, <2>2 DEF IsFold
    <3> QED BY <1>4, <2>2, <3>1, <3>2, <3>3
  <2> QED BY <2>1, <2>2
<1>10. g = [s \in SUBSET D |-> g[s]] OBVIOUS
<1> HIDE DEF Val
<1>11. g = [s \in SUBSET D |-> Val(s)] BY <1>9, <1>10
<1>12. DOMAIN q = D BY DEF D
<1> QED BY <1>11, <1>12 DEF IsPumping, Val

LEMMA FoldPumped ==
  ASSUME NEW c, NEW x, Requests(c, x), Responses(c, 0),
         NEW n \in Nat, NEW q, DOMAIN q = 1..n
  PROVE  PumpedTo(c, FoldLeft(PumpIfLive, c, q), x, {q[k] : k \in 1..n})
<1> DEFINE D == 1..n
           h == CHOOSE g : IsPumping(g, c, q)
<1>0. c \in Connection BY DEF Requests, Limits
<1>1. IsPumping(h, c, q) BY <1>0, PumpingExists
<1>2. FoldLeft(PumpIfLive, c, q) = h[D] BY PumpingIs
<1>3. \A s \in SUBSET D : s # {} => Max(s) \in s BY MaxIn
<1>4. IsFiniteSet(D) BY FS_Interval
<1>d. DOMAIN q = D OBVIOUS
<1> HIDE DEF h, D
<1>5. h[{}] = c BY <1>1, <1>d DEF IsPumping
<1>6. \A s \in SUBSET D : s # {} => h[s] = PumpIfLive(h[s \ {Max(s)}], q[Max(s)])
  BY <1>1, <1>d DEF IsPumping
<1> DEFINE To(s) == {q[k] : k \in s}
           Ok(s) == PumpedTo(c, h[s], x, To(s))
           N == {m \in Nat : \A s \in SUBSET D : Cardinality(s) <= m => Ok(s)}
<1>7. Ok({})
  <2>1. To({}) = {} OBVIOUS
  <2>2. PumpedTo(c, c, x, {}) BY PumpedNone
  <2> HIDE DEF To
  <2> QED BY <1>5, <2>1, <2>2
<1> HIDE DEF To, Ok
<1>8. 0 \in N
  <2> SUFFICES ASSUME NEW s \in SUBSET D, Cardinality(s) <= 0 PROVE Ok(s)
    OBVIOUS
  <2>1. IsFiniteSet(s) /\ Cardinality(s) \in Nat BY <1>4, FS_Subset, FS_CardinalityType
  <2>2. s = {} BY <2>1, FS_EmptySet
  <2> QED BY <1>7, <2>2
<1>9. ASSUME NEW m \in Nat, m \in N PROVE m + 1 \in N
  <2> SUFFICES ASSUME NEW s \in SUBSET D, Cardinality(s) <= m + 1 PROVE Ok(s)
    OBVIOUS
  <2>1. CASE s = {} BY <1>7, <2>1
  <2>2. CASE s # {}
    <3> DEFINE y == Max(s)
               r == s \ {y}
    <3>1. y \in s BY <1>3, <2>2
    <3>2. h[s] = PumpIfLive(h[r], q[y]) BY <1>6, <2>2
    <3> HIDE DEF y
    <3>3. r \in SUBSET D /\ Cardinality(s) \in Nat /\ Cardinality(r) = Cardinality(s) - 1
      BY <1>4, <3>1, SmallerSet
    <3>4. Cardinality(r) <= m BY <3>3
    <3>5. Ok(r) BY <1>9, <3>3, <3>4
    <3>6. To(s) = To(r) \cup {q[y]} BY <3>1 DEF To
    <3> HIDE DEF r
    <3>7. PumpedTo(c, PumpIfLive(h[r], q[y]), x, To(r) \cup {q[y]}) BY <1>0, <3>5, PumpedMore DEF Ok
    <3> QED BY <3>2, <3>6, <3>7 DEF Ok
  <2> QED BY <2>1, <2>2
<1> HIDE DEF N
<1>10. Cardinality(D) \in N BY <1>4, <1>8, <1>9, FromZero, FS_CardinalityType
<1>11. Cardinality(D) <= Cardinality(D) BY <1>4, FS_CardinalityType
<1>12. Ok(D) BY <1>10, <1>11 DEF N
<1> QED BY <1>2, <1>12 DEF Ok, To, D

LEMMA PumpAllKeeps ==
  ASSUME NEW c, NEW x, Requests(c, x), Responses(c, 0), NEW d \in PumpAll(c)
  PROVE  \E R : PumpedTo(c, d, x, R) /\ (Pumps => R = Held(c))
<1>0. c \in Connection BY DEF Requests, Limits
<1>1. PICK S \in kSubset(Min({PumpMax, Cardinality(Held(c))}), Held(c)) :
        \E q \in SetToSeqs(S) : d = FoldLeft(PumpIfLive, c, q)
  BY DEF PumpAll
<1>2. PICK q \in SetToSeqs(S) : d = FoldLeft(PumpIfLive, c, q) BY <1>1
<1> DEFINE n == Cardinality(S)
           m == Cardinality(Held(c))
<1>3. Held(c) \subseteq Live(c) BY DEF Held
<1>4. IsFiniteSet(Held(c)) /\ m \in Nat BY <1>0, <1>3, LiveFacts, FS_Subset, FS_CardinalityType
<1>5. S \subseteq Held(c) /\ n = Min({PumpMax, m}) BY DEF kSubset
<1>6. IsFiniteSet(S) /\ n \in Nat BY <1>4, <1>5, FS_Subset, FS_CardinalityType
<1>7. q \in [1..n -> S] /\ \A i, j \in 1..n : i # j => q[i] # q[j] BY DEF SetToSeqs
<1> DEFINE R == {q[k] : k \in 1..n}
<1>8. PumpedTo(c, d, x, R) BY <1>2, <1>6, <1>7, FoldPumped
<1>9. Pumps => n = m
  <2>1. n = IF PumpMax <= m THEN PumpMax ELSE m BY <1>4, <1>5, Sizes, MinOfTwo
  <2>2. m <= Cardinality(Live(c)) /\ Cardinality(Live(c)) <= MaxConcurrent /\ Cardinality(Live(c)) \in Nat
    BY <1>0, <1>3, LiveFacts, FS_Subset DEF Requests, Limits
  <2> HIDE DEF n, m
  <2> QED BY <1>4, <2>1, <2>2, Sizes DEF Pumps
<1>10. n = m => S = Held(c) BY <1>4, <1>5, FS_Subset
<1>11. R = S
  <2>1. IsFiniteSet(1..n) /\ Cardinality(1..n) = n BY <1>6, FS_Interval
  <2>2. q \in Injection(1..n, S) BY <1>7 DEF Injection, IsInjective
  <2>3. q \in Surjection(1..n, S) BY <1>6, <2>1, <2>2, FS_Injection
  <2> QED BY <1>7, <2>3 DEF Surjection
<1> QED BY <1>8, <1>9, <1>10, <1>11

-----------------------------------------------------------------------------
(* One stream written over, and what a response writes. *)

With(c, i, t) == [c EXCEPT !.streams[i] = t]

LEMMA WithFacts ==
  ASSUME NEW c \in Connection, NEW i \in Live(c), NEW t \in Stream
  PROVE  LET d == With(c, i, t)
         IN /\ d \in Connection /\ Live(d) = Live(c) /\ d.streams[i] = t
            /\ \A j \in Live(c) \ {i} : d.streams[j] = c.streams[j]
            /\ SameConnection(c, d) /\ d.inflight = c.inflight
            /\ d.send = c.send /\ d.peer = c.peer /\ d.torn = c.torn
<1> DEFINE f == [c.streams EXCEPT ![i] = t]
           d == With(c, i, t)
<1>1. /\ f \in UNION {[E -> Stream] : E \in SUBSET Ids} /\ DOMAIN f = Live(c)
      /\ f[i] = t /\ \A j \in Live(c) \ {i} : f[j] = c.streams[j]
  BY WithStreams
<1>2. d = [c EXCEPT !.streams = f] BY DEF Connection, With
<1> HIDE DEF f, d
<1>3. /\ d \in Connection /\ d.streams = f /\ d.inflight = c.inflight
      /\ d.send = c.send /\ d.peer = c.peer /\ d.torn = c.torn
  BY <1>1, <1>2 DEF Connection
<1>4. SameConnection(c, d) BY <1>2 DEF Connection, SameConnection
<1>5. Live(d) = Live(c) BY <1>1, <1>3 DEF Live
<1> QED BY <1>1, <1>3, <1>4, <1>5 DEF d

LEMMA WithRewrites ==
  ASSUME NEW c \in Connection, NEW i \in Live(c), NEW t \in Stream, SameRequest(c.streams[i], t)
  PROVE  Rewrites(c, With(c, i, t), i)
BY WithFacts DEF Rewrites

LEMMA EndedFacts ==
  ASSUME NEW c \in Connection, NEW i \in Live(c)
  PROVE  LET d == Ended(c, i)
             s == c.streams[i]
         IN /\ Rewrites(c, d, i) /\ d.streams = c.streams
            /\ d.send = c.send /\ d.peer = c.peer
            /\ d.torn = (c.torn \/ s.heads # 1 \/ s.sent # s.made)
<1> DEFINE s == c.streams[i]
           x == c.torn \/ s.heads # 1 \/ s.sent # s.made
           d == Ended(c, i)
<1>1. d = [c EXCEPT !.torn = x] /\ x \in BOOLEAN BY DEF Ended, Connection
<1> HIDE DEF x, d
<1>2. /\ d \in Connection /\ d.streams = c.streams /\ d.torn = x
      /\ d.send = c.send /\ d.peer = c.peer /\ d.inflight = c.inflight
  BY <1>1 DEF Connection
<1>3. SameConnection(c, d) BY <1>1 DEF Connection, SameConnection
<1>4. Rewrites(c, d, i) BY <1>2, <1>3 DEF Rewrites, Live, SameRequest
<1> QED BY <1>2, <1>4 DEF x, d

LEMMA SendHeadersFacts ==
  ASSUME NEW c \in Connection, NEW i \in Live(c), NEW end \in BOOLEAN
  PROVE  LET d == SendHeaders(c, i, end)
             s == c.streams[i]
             t == d.streams[i]
         IN /\ Rewrites(c, d, i)
            /\ t.send = s.send /\ t.window = s.window /\ t.sent = s.sent
            /\ t.out = s.out /\ t.held = s.held /\ t.fin = s.fin
            /\ t.heads = s.heads + 1 /\ t.made = s.made
            /\ d.send = c.send /\ d.peer = c.peer
            /\ d.torn = (c.torn \/ (end /\ (s.heads # 0 \/ s.sent # s.made)))
<1> DEFINE s == c.streams[i]
           t == [s EXCEPT !.heads = @ + 1]
           e == With(c, i, t)
           d == SendHeaders(c, i, end)
<1>1. s \in Stream /\ c.streams \in [Live(c) -> Stream] BY LiveFacts
<1>2. s.heads \in Nat /\ s.heads + 1 \in Nat BY <1>1 DEF Stream
<1>3. t \in Stream /\ SameRequest(s, t) BY <1>1, <1>2 DEF Stream, SameRequest
<1>4. /\ t.send = s.send /\ t.window = s.window /\ t.sent = s.sent
      /\ t.out = s.out /\ t.held = s.held /\ t.fin = s.fin
      /\ t.heads = s.heads + 1 /\ t.made = s.made
  BY <1>1 DEF Stream
<1>5. d = IF end THEN Ended(e, i) ELSE e BY <1>1 DEF SendHeaders, With, Connection
<1> HIDE DEF t
<1>6. /\ e \in Connection /\ Live(e) = Live(c) /\ e.streams[i] = t
      /\ e.send = c.send /\ e.peer = c.peer /\ e.torn = c.torn
      /\ Rewrites(c, e, i)
  BY <1>3, WithFacts, WithRewrites
<1> HIDE DEF e, d
<1>7. CASE ~end
  <2>1. d.torn = (c.torn \/ (end /\ (s.heads # 0 \/ s.sent # s.made)))
    BY <1>5, <1>6, <1>7 DEF Connection
  <2> QED BY <1>4, <1>5, <1>6, <1>7, <2>1 DEF d
<1>8. CASE end
  <2>1. d = Ended(e, i) BY <1>5, <1>8
  <2>2. /\ Rewrites(e, d, i) /\ d.streams = e.streams
        /\ d.send = e.send /\ d.peer = e.peer
        /\ d.torn = (e.torn \/ t.heads # 1 \/ t.sent # t.made)
    BY <1>6, <2>1, EndedFacts
  <2>3. Rewrites(c, d, i) BY <1>6, <2>2 DEF Rewrites, SameRequest, SameConnection
  <2>4. t.heads # 1 <=> s.heads # 0 BY <1>2, <1>4
  <2>5. d.torn = (c.torn \/ (end /\ (s.heads # 0 \/ s.sent # s.made)))
    BY <1>4, <1>6, <1>8, <2>2, <2>4
  <2> QED BY <1>4, <1>6, <2>2, <2>3, <2>5 DEF d
<1> QED BY <1>7, <1>8

LEMMA RewritesTrans ==
  ASSUME NEW c, NEW d, NEW e, NEW i, Rewrites(c, d, i), Rewrites(d, e, i)
  PROVE  Rewrites(c, e, i)
BY DEF Rewrites, SameRequest, SameConnection

(* A stream that no one has answered yet. *)
Fresh(c, i) ==
  /\ c \in Connection /\ i \in Live(c) /\ c.peer = c.send /\ ~c.torn
  /\ Response(c.streams[i]) /\ c.streams[i].heads = 0

(* writeResponse, up to what the windows left. *)
LEMMA WriteFacts ==
  ASSUME NEW c, NEW i, Fresh(c, i), NEW n \in Nat
  PROVE  LET d == WriteResponse(c, i, n)
             t == d.streams[i]
         IN /\ Rewrites(c, d, i) /\ Others(c, d, i) /\ ~d.torn /\ d.peer = d.send
            /\ t.window = t.send /\ t.made = t.sent + t.out
            /\ t.heads = 1 /\ (t.out > 0 => t.held) /\ (t.fin <=> t.out > 0)
            /\ Waits(d, i)
<1> DEFINE s == c.streams[i]
           a == SendHeaders(c, i, n = 0)
           b == [a EXCEPT !.streams[i].made = @ + n]
           k == Min({n, Allowed(c, i)})
           f == IF k = 0 THEN b ELSE SendData(b, i, k, k = n)
           g == [f EXCEPT !.streams[i] = [@ EXCEPT !.out = n - k, !.held = TRUE, !.fin = TRUE]]
           d == WriteResponse(c, i, n)
<1>1. c \in Connection /\ i \in Live(c) /\ c.peer = c.send /\ ~c.torn BY DEF Fresh
<1>2. s \in Stream /\ Response(s) /\ s.heads = 0 BY <1>1, LiveFacts DEF Fresh
<1>3. s.made = 0 /\ s.sent = 0 /\ s.out = 0 /\ s.held = FALSE /\ s.fin = FALSE
  <2>1. s.made = 0 BY <1>2 DEF Response
  <2>2. s.sent \in Nat /\ s.out \in Nat /\ s.made = s.sent + s.out BY <1>2 DEF Response, Stream
  <2>3. s.sent = 0 /\ s.out = 0 BY <2>1, <2>2
  <2>4. ~s.held /\ ~s.fin BY <1>2, <2>3 DEF Response
  <2> QED BY <1>2, <2>1, <2>3, <2>4 DEF Stream
<1>r. /\ Room(c, i) \in Nat
      /\ Room(c, i) # 0 => Room(c, i) <= s.send /\ Room(c, i) <= c.send
      /\ Room(c, i) = 0 <=> s.send <= 0 \/ c.send <= 0
      /\ Room(c, i) = s.send \/ Room(c, i) = c.send \/ Room(c, i) = 0
  BY <1>1, RoomFacts
<1>k. k \in Nat /\ k <= n /\ k <= Room(c, i) /\ (k = n \/ k = Room(c, i))
  <2> DEFINE r == Room(c, i)
  <2>1. r \in Nat BY <1>r
  <2> HIDE DEF r
  <2>2. Min({n, r}) = IF n <= r THEN n ELSE r BY <2>1, MinOfTwo
  <2>3. k = Min({n, r}) BY DEF Allowed, r
  <2> HIDE DEF k
  <2> QED BY <2>1, <2>2, <2>3 DEF r
<1>d. d = IF k = n THEN f ELSE g BY DEF WriteResponse
<1>t. s.send \in Int /\ s.window \in Int /\ s.window = s.send /\ c.send \in Int /\ c.peer \in Int
  BY <1>1, <1>2 DEF Stream, Response, Connection
<1> HIDE DEF k, d
<1>4. /\ Rewrites(c, a, i)
      /\ a.streams[i].send = s.send /\ a.streams[i].window = s.window /\ a.streams[i].sent = 0
      /\ a.streams[i].out = 0 /\ a.streams[i].held = FALSE /\ a.streams[i].fin = FALSE
      /\ a.streams[i].heads = 1 /\ a.streams[i].made = 0
      /\ a.send = c.send /\ a.peer = c.peer /\ ~a.torn
  <2> DEFINE z == n = 0
  <2>1. z \in BOOLEAN OBVIOUS
  <2>2. a = SendHeaders(c, i, z) OBVIOUS
  <2> DEFINE t == a.streams[i]
  <2> HIDE DEF z, a
  <2>3. /\ Rewrites(c, a, i)
        /\ t.send = s.send /\ t.window = s.window /\ t.sent = s.sent
        /\ t.out = s.out /\ t.held = s.held /\ t.fin = s.fin
        /\ t.heads = s.heads + 1 /\ t.made = s.made
        /\ a.send = c.send /\ a.peer = c.peer
        /\ a.torn = (c.torn \/ (z /\ (s.heads # 0 \/ s.sent # s.made)))
    BY <1>1, <2>1, <2>2, SendHeadersFacts
  <2>4. ~a.torn BY <1>1, <1>2, <1>3, <2>3
  <2>5. t.heads = 1 BY <1>2, <2>3
  <2> QED BY <1>3, <2>3, <2>4, <2>5
<1> HIDE DEF a
<1>5. /\ Rewrites(c, b, i)
      /\ b.streams[i].send = s.send /\ b.streams[i].window = s.window /\ b.streams[i].sent = 0
      /\ b.streams[i].out = 0 /\ b.streams[i].held = FALSE /\ b.streams[i].fin = FALSE
      /\ b.streams[i].heads = 1 /\ b.streams[i].made = n
      /\ b.send = c.send /\ b.peer = c.peer /\ ~b.torn
  <2> DEFINE u == a.streams[i]
             t == [u EXCEPT !.made = @ + n]
  <2>1. a \in Connection /\ i \in Live(a) BY <1>1, <1>4 DEF Rewrites
  <2>2. u \in Stream /\ a.streams \in [Live(a) -> Stream] BY <2>1, LiveFacts
  <2>3. u.made + n = n BY <1>4
  <2>4. t \in Stream /\ SameRequest(u, t) BY <2>2, <2>3 DEF Stream, SameRequest
  <2>5. /\ t.send = u.send /\ t.window = u.window /\ t.sent = u.sent
        /\ t.out = u.out /\ t.held = u.held /\ t.fin = u.fin
        /\ t.heads = u.heads /\ t.made = n
    BY <2>2, <2>3 DEF Stream
  <2>6. b = With(a, i, t) BY <2>1, <2>2 DEF With, Connection
  <2> HIDE DEF b, t
  <2>7. /\ b.streams[i] = t /\ b.send = a.send /\ b.peer = a.peer /\ b.torn = a.torn
        /\ Rewrites(a, b, i)
    BY <2>1, <2>4, <2>6, WithFacts, WithRewrites
  <2>8. Rewrites(c, b, i) BY <1>4, <2>7, RewritesTrans
  <2> QED BY <1>4, <2>5, <2>7, <2>8
<1> HIDE DEF b
<1>6. /\ Rewrites(c, f, i)
      /\ f.streams[i].send = s.send - k /\ f.streams[i].window = s.window - k /\ f.streams[i].sent = k
      /\ f.streams[i].out = 0 /\ f.streams[i].held = FALSE /\ f.streams[i].fin = FALSE
      /\ f.streams[i].heads = 1 /\ f.streams[i].made = n
      /\ f.send = c.send - k /\ f.peer = c.peer - k /\ ~f.torn
  <2>1. CASE k = 0
    <3>1. f = b BY <2>1
    <3>2. s.send - k = s.send /\ s.window - k = s.window /\ c.send - k = c.send /\ c.peer - k = c.peer
      BY <1>t, <2>1
    <3> HIDE DEF f
    <3> QED BY <1>5, <2>1, <3>1, <3>2
  <2>2. CASE k # 0
    <3> DEFINE z == k = n
    <3>1. f = SendData(b, i, k, z) BY <2>2
    <3>2. z \in BOOLEAN OBVIOUS
    <3> HIDE DEF f, z
    <3>3. b \in Connection /\ i \in Live(b) BY <1>1, <1>5 DEF Rewrites
    <3>4. /\ Rewrites(b, f, i)
          /\ f.streams[i].send = s.send - k /\ f.streams[i].window = s.window - k
          /\ f.streams[i].sent = 0 + k
          /\ f.streams[i].out = 0 /\ f.streams[i].held = FALSE /\ f.streams[i].fin = FALSE
          /\ f.streams[i].heads = 1 /\ f.streams[i].made = n
          /\ f.send = c.send - k /\ f.peer = c.peer - k
          /\ f.torn = (b.torn \/ (z /\ (1 # 1 \/ f.streams[i].sent # n)))
      BY <1>5, <1>k, <3>1, <3>2, <3>3, SendDataFacts
    <3>5. f.streams[i].sent = k BY <1>k, <3>4
    <3>6. ~f.torn BY <1>5, <3>4, <3>5 DEF z
    <3>7. Rewrites(c, f, i) BY <1>5, <3>4, RewritesTrans
    <3> QED BY <3>4, <3>5, <3>6, <3>7
  <2> QED BY <2>1, <2>2
<1> HIDE DEF f
<1>7. k # n =>
      /\ Rewrites(c, g, i)
      /\ g.streams[i].send = s.send - k /\ g.streams[i].window = s.window - k /\ g.streams[i].sent = k
      /\ g.streams[i].out = n - k /\ g.streams[i].held = TRUE /\ g.streams[i].fin = TRUE
      /\ g.streams[i].heads = 1 /\ g.streams[i].made = n
      /\ g.send = c.send - k /\ g.peer = c.peer - k /\ ~g.torn
  <2> DEFINE u == f.streams[i]
             t == [u EXCEPT !.out = n - k, !.held = TRUE, !.fin = TRUE]
  <2>1. f \in Connection /\ i \in Live(f) BY <1>1, <1>6 DEF Rewrites
  <2>2. u \in Stream /\ f.streams \in [Live(f) -> Stream] BY <2>1, LiveFacts
  <2>3. n - k \in Nat BY <1>k
  <2>4. t \in Stream /\ SameRequest(u, t) BY <2>2, <2>3 DEF Stream, SameRequest
  <2>5. /\ t.send = u.send /\ t.window = u.window /\ t.sent = u.sent
        /\ t.out = n - k /\ t.held = TRUE /\ t.fin = TRUE
        /\ t.heads = u.heads /\ t.made = u.made
    BY <2>2 DEF Stream
  <2>6. g = With(f, i, t) BY DEF With
  <2> HIDE DEF g, t
  <2>7. /\ g.streams[i] = t /\ g.send = f.send /\ g.peer = f.peer /\ g.torn = f.torn
        /\ Rewrites(f, g, i)
    BY <2>1, <2>4, <2>6, WithFacts, WithRewrites
  <2>8. Rewrites(c, g, i) BY <1>6, <2>7, RewritesTrans
  <2> QED BY <1>6, <2>5, <2>7, <2>8
<1> HIDE DEF g
<1> DEFINE t == d.streams[i]
<1>8. /\ Rewrites(c, d, i)
      /\ t.send = s.send - k /\ t.window = s.window - k /\ t.sent = k
      /\ t.out = n - k /\ (t.out > 0 => t.held) /\ (t.fin <=> t.out > 0)
      /\ t.heads = 1 /\ t.made = n
      /\ d.send = c.send - k /\ d.peer = c.peer - k /\ ~d.torn
  <2>1. CASE k = n
    <3>1. d = f /\ n - k = 0 BY <1>d, <1>k, <2>1
    <3> QED BY <1>6, <3>1
  <2>2. CASE k # n
    <3>1. d = g /\ n - k > 0 BY <1>d, <1>k, <2>2
    <3> QED BY <1>7, <2>2, <3>1
  <2> QED BY <2>1, <2>2
<1>9. t.window = t.send /\ t.made = t.sent + t.out /\ d.peer = d.send BY <1>1, <1>8, <1>k, <1>t
<1>10. d \in Connection /\ Live(d) = Live(c) /\ SameConnection(c, d) BY <1>8 DEF Rewrites
<1>11. Waits(d, i)
  <2> SUFFICES ASSUME t.out > 0 PROVE Room(d, i) = 0
    BY DEF Waits
  <2>1. k = Room(c, i) BY <1>8, <1>k
  <2>2. t.send <= 0 \/ d.send <= 0 BY <1>8, <1>k, <1>r, <1>t, <2>1
  <2> QED BY <1>1, <1>10, <2>2, RoomFacts
<1>12. Others(c, d, i)
  <2>1. k > 0 => t.window >= 0 /\ d.peer >= 0 BY <1>1, <1>8, <1>k, <1>r, <1>t
  <2>2. k = 0 => t.sent = s.sent /\ t.window = s.window /\ d.peer = c.peer BY <1>3, <1>8, <1>t
  <2>3. t.sent >= s.sent /\ d.send <= c.send BY <1>3, <1>8, <1>k, <1>t
  <2>4. k > 0 \/ k = 0 BY <1>k
  <2>5. \A j \in Live(c) \ {i} : d.streams[j] = c.streams[j] BY <1>8 DEF Rewrites
  <2>6. \A j \in Live(c) \ {i} : c.streams[j].sent \in Nat BY <1>1, LiveFacts DEF Stream
  <2>7. ASSUME NEW j \in Live(d)
        PROVE  /\ d.streams[j].sent >= c.streams[j].sent
               /\ \/ d.streams[j].sent = c.streams[j].sent
                     /\ d.streams[j].window = c.streams[j].window
                  \/ d.streams[j].window >= 0 /\ d.peer >= 0
    <3>1. CASE j = i BY <2>1, <2>2, <2>3, <2>4, <3>1
    <3>2. CASE j # i BY <1>10, <2>5, <2>6, <3>2
    <3> QED BY <3>1, <3>2
  <2>8. d.peer = c.peer \/ d.peer >= 0 BY <2>1, <2>2, <2>4
  <2> QED BY <1>10, <2>3, <2>5, <2>7, <2>8 DEF Others, Onward, SameConnection
<1> QED BY <1>8, <1>9, <1>11, <1>12 DEF d

-----------------------------------------------------------------------------
(* How a stream ends, and how a connection does. *)

LEMMA EndKeeps ==
  ASSUME NEW c, NEW x, NEW i \in Live(c), Requests(c, x), Responses(c, i)
  PROVE  LET d == CloseStream(c, i)
         IN /\ Requests(d, x) /\ (x = i => Requests(d, 0)) /\ Responses(d, 0) /\ Others(c, d, i)
            /\ Live(d) = Live(c) \ {i}
<1> DEFINE d == CloseStream(c, i)
<1>1. c \in Connection BY DEF Requests, Limits
<1>2. Requests(d, x) /\ (x = i => Requests(d, 0)) BY CloseKeeps
<1>3. /\ Live(d) = Live(c) \ {i} /\ \A j \in Live(d) : d.streams[j] = c.streams[j]
      /\ d.send = c.send /\ d.peer = c.peer /\ d.torn = c.torn
  BY <1>1, CloseFacts
<1>4. Others(c, d, i) BY <1>1, CloseOthers
<1> HIDE DEF d
<1>5. Responses(d, 0) BY <1>3 DEF Responses
<1> QED BY <1>2, <1>3, <1>4, <1>5 DEF d

LEMMA RespondKeeps ==
  ASSUME NEW c, NEW x, NEW i, Requests(c, x), Responses(c, 0), Fresh(c, i),
         c.streams[i].dispatched, NEW n \in Nat \cup {TooBig}
  PROVE  LET d == Respond(c, i, n)
         IN /\ Requests(d, x) /\ Responses(d, 0) /\ Others(c, d, i)
            /\ i \in Live(d) => /\ Waits(d, i)
                                /\ d.streams[i].fin /\ d.streams[i].dispatched
<1> DEFINE d == Respond(c, i, n)
           e == WriteResponse(c, i, n)
<1>z. c \in Connection /\ i \in Live(c) BY DEF Fresh
<1>0. c \in Connection /\ i \in Live(c) /\ 0 \notin Live(c) BY <1>z, LiveFacts
<1>1. Responses(c, i) BY <1>0 DEF Responses
<1>2. CASE n = TooBig
  <2>1. d = CloseStream(c, i) BY <1>2 DEF Respond, StreamError
  <2>2. Requests(d, x) /\ Responses(d, 0) /\ Others(c, d, i) /\ Live(d) = Live(c) \ {i}
    BY <1>0, <1>1, <2>1, EndKeeps
  <2> QED BY <2>2
<1>3. CASE n # TooBig
  <2>1. d = IF e.streams[i].fin THEN e ELSE CloseStream(e, i) BY <1>3 DEF Respond
  <2>2. n \in Nat BY <1>3
  <2> DEFINE t == e.streams[i]
  <2>3. /\ Rewrites(c, e, i) /\ Others(c, e, i) /\ ~e.torn /\ e.peer = e.send
        /\ t.window = t.send /\ t.made = t.sent + t.out
        /\ t.heads = 1 /\ (t.out > 0 => t.held) /\ (t.fin <=> t.out > 0)
        /\ Waits(e, i)
    BY <2>2, WriteFacts
  <2> HIDE DEF e, d
  <2>4. e \in Connection /\ Live(e) = Live(c) /\ SameRequest(c.streams[i], t) BY <2>3 DEF Rewrites
  <2>5. Requests(e, x) BY <1>0, <2>3, RewritesKeeps
  <2>6. \A j \in Live(e) \ {i} : Response(e.streams[j])
    <3> QED BY <1>0, <2>3, <2>4 DEF Responses, Others
  <2>7. Response(t) /\ t.dispatched BY <2>3, <2>4 DEF Response, SameRequest
  <2>8. CASE t.fin
    <3>1. d = e BY <2>1, <2>8
    <3>2. Responses(d, 0) BY <2>3, <2>6, <2>7, <3>1 DEF Responses
    <3> QED BY <2>3, <2>5, <2>7, <2>8, <3>1, <3>2 DEF d
  <2>9. CASE ~t.fin
    <3>1. d = CloseStream(e, i) BY <2>1, <2>9
    <3>2. Responses(e, i) BY <2>3, <2>6 DEF Responses
    <3>3. Requests(d, x) /\ Responses(d, 0) /\ Others(e, d, i) /\ Live(d) = Live(e) \ {i}
      BY <1>0, <2>4, <2>5, <3>1, <3>2, EndKeeps
    <3>4. d \in Connection BY <3>3 DEF Requests, Limits
    <3>5. Others(c, d, i) BY <1>0, <2>3, <2>4, <3>3, <3>4, OthersTrans
    <3> QED BY <3>3, <3>5 DEF d
  <2> QED BY <2>8, <2>9
<1> QED BY <1>2, <1>3

LEMMA RejectKeeps ==
  ASSUME NEW c, NEW i, Requests(c, i), Responses(c, 0), Fresh(c, i)
  PROVE  LET d == RejectOversized(c, i)
         IN /\ Requests(d, 0) /\ Responses(d, 0) /\ Others(c, d, i) /\ Live(d) = Live(c) \ {i}
<1> DEFINE e == WriteResponse(c, i, 1)
           d == RejectOversized(c, i)
<1>z. c \in Connection /\ i \in Live(c) BY DEF Fresh
<1>0. c \in Connection /\ i \in Live(c) /\ 0 \notin Live(c) BY <1>z, LiveFacts
<1>1. d = CloseStream(e, i) BY DEF RejectOversized
<1>2. Rewrites(c, e, i) /\ Others(c, e, i) /\ ~e.torn /\ e.peer = e.send
  <2>1. 1 \in Nat OBVIOUS
  <2> QED BY <2>1, WriteFacts
<1> HIDE DEF e, d
<1>3. e \in Connection /\ Live(e) = Live(c) BY <1>2 DEF Rewrites
<1>4. Requests(e, i) BY <1>0, <1>2, RewritesKeeps
<1>5. Responses(e, i)
  <2>1. \A j \in Live(c) : j # 0 BY <1>0, LiveFacts
  <2> QED BY <1>2, <1>3, <2>1 DEF Responses, Others
<1>6. Requests(d, 0) /\ Responses(d, 0) /\ Others(e, d, i) /\ Live(d) = Live(e) \ {i}
  BY <1>0, <1>1, <1>3, <1>4, <1>5, EndKeeps
<1>7. d \in Connection BY <1>6 DEF Requests, Limits
<1>8. Others(c, d, i) BY <1>0, <1>2, <1>3, <1>6, <1>7, OthersTrans
<1> QED BY <1>3, <1>6, <1>8 DEF d

LEMMA ErrorFacts ==
  ASSUME NEW c \in Connection, NEW code \in {"closed", "flow", "calm"}, c.closing = "no"
  PROVE  LET d == ConnError(c, code)
         IN /\ d \in Connection /\ d.streams = c.streams /\ Live(d) = Live(c) /\ d.closing = code
            /\ d.last = c.last /\ d.inflight = c.inflight /\ d.told = c.told /\ d.recv = c.recv
            /\ d.send = c.send /\ d.peer = c.peer /\ d.torn = c.torn /\ d.freed = c.freed
            /\ d.polite = c.polite
<1> DEFINE d == ConnError(c, code)
<1>1. d = [c EXCEPT !.closing = code] BY DEF ConnError, Connection
<1> HIDE DEF d
<1>2. d \in Connection /\ d.streams = c.streams /\ d.closing = code BY <1>1 DEF Connection
<1>3. Live(d) = Live(c) BY <1>2 DEF Live
<1>4. /\ d.last = c.last /\ d.inflight = c.inflight /\ d.told = c.told /\ d.recv = c.recv
      /\ d.send = c.send /\ d.peer = c.peer /\ d.torn = c.torn /\ d.freed = c.freed
      /\ d.polite = c.polite
  BY <1>1 DEF Connection
<1> QED BY <1>2, <1>3, <1>4 DEF d

LEMMA ErrorKeeps ==
  ASSUME NEW c, NEW code \in {"closed", "flow", "calm"}, Limits(c), Responses(c, 0), c.closing = "no",
         Told /\ code = "flow" => c.told < 0, code = "calm" => ~c.polite
  PROVE  LET d == ConnError(c, code)
         IN /\ Requests(d, 0) /\ Responses(d, 0) /\ Flowing(d)
            /\ d.streams = c.streams /\ Live(d) = Live(c) /\ d.freed = c.freed /\ d.peer = c.peer
<1> DEFINE d == ConnError(c, code)
<1>1. c \in Connection BY DEF Limits
<1>2. /\ d \in Connection /\ d.streams = c.streams /\ Live(d) = Live(c) /\ d.closing = code
      /\ d.last = c.last /\ d.inflight = c.inflight /\ d.told = c.told /\ d.recv = c.recv
      /\ d.send = c.send /\ d.peer = c.peer /\ d.torn = c.torn /\ d.freed = c.freed
      /\ d.polite = c.polite
  BY <1>1, ErrorFacts
<1> HIDE DEF d
<1>3. Limits(d) BY <1>2 DEF Limits
<1>4. d.closing # "no" BY <1>2
<1>5. Requests(d, 0) BY <1>2, <1>3, <1>4 DEF Requests
<1>6. Responses(d, 0) BY <1>2 DEF Responses
<1>7. Flowing(d) BY <1>4 DEF Flowing
<1> QED BY <1>2, <1>5, <1>6, <1>7 DEF d

-----------------------------------------------------------------------------
(* A frame: what it makes of the connection, and where it leaves it. *)

Leads(d) ==
  /\ Requests(d, 0) /\ Responses(d, 0) /\ Flowing(d) /\ Within(h2, d)
  /\ d.freed => Live(d) = {}
  /\ \A j \in Live(d) :
       \/ j \in Live(h2) /\ Undisturbed(h2.streams[j], d.streams[j])
       \/ j \notin h2pending /\ (d.streams[j].dispatched => d.streams[j].fin)

(* The frame is about stream i: nothing was sent so far, the others are as they were. *)
Handles(c, i) ==
  /\ c.closing = "no" /\ Requests(c, i) /\ Responses(c, 0) /\ Flowing(c)
  /\ Live(h2) \ {i} \subseteq Live(c)
  /\ \A j \in Live(c) \ {i} : j \in Live(h2) /\ Undisturbed(h2.streams[j], c.streams[j])
  /\ \A j \in Live(c) \cap Live(h2) : c.streams[j].sent = h2.streams[j].sent

(* ... and its request has not reached a handler. *)
Receives(c, i) ==
  /\ Handles(c, i)
  /\ i \in Live(c) => i \notin h2pending /\ ~c.streams[i].dispatched

LEMMA HandlersFollow ==
  ASSUME NEW d, IInv, Leads(d)
  PROVE  Handlers(d, h2pending \cap Live(d), work)
<1>1. d \in Connection /\ h2 \in Connection BY DEF Leads, IInv, Good, Requests, Limits
<1>0. Handlers(h2, h2pending, work) BY DEF IInv, Good
<1>2. ASSUME NEW i \in Ids PROVE HandlerOf(d, h2pending \cap Live(d), work, i)
  <2>1. HandlerOf(h2, h2pending, work, i) BY <1>0 DEF Handlers
  <2>2. CASE i \in Live(d) /\ i \in Live(h2) /\ Undisturbed(h2.streams[i], d.streams[i])
    <3> DEFINE s == h2.streams[i]
               t == d.streams[i]
    <3>1. t.dispatched = s.dispatched /\ t.fin = s.fin /\ t.heads = s.heads /\ t.out <= s.out
      BY <2>2 DEF Undisturbed
    <3>2. s.out \in Nat /\ t.out \in Nat BY <1>1, <2>2, LiveFacts DEF Stream
    <3>3. i \in h2pending /\ work[i] = "streams" => t.out <= MaxQueue
      BY <2>1, <3>1, <3>2, Sizes DEF HandlerOf
    <3> QED BY <2>1, <2>2, <3>1, <3>3 DEF HandlerOf
  <2>3. CASE i \in Live(d) /\ i \notin h2pending /\ (d.streams[i].dispatched => d.streams[i].fin)
    BY <2>3 DEF HandlerOf
  <2>4. CASE i \notin Live(d) BY <2>4 DEF HandlerOf
  <2> QED BY <2>2, <2>3, <2>4 DEF Leads
<1>3. h2pending \cap Live(d) \subseteq Ids /\ work \in [Ids -> Stages] BY <1>0 DEF Handlers
<1> QED BY <1>2, <1>3 DEF Leads, Handlers

LEMMA Continues ==
  ASSUME NEW d, IInv, Leads(d), Continue(d)
  PROVE  IInv' /\ Within(h2, h2')
<1>1. h2' = d /\ h2pending' = h2pending \cap Live(d) /\ work' = work
  BY DEF Continue, StillPending
<1>2. Handlers(d, h2pending \cap Live(d), work) BY HandlersFollow
<1>3. Good(d, h2pending \cap Live(d), work) BY <1>2 DEF Good, Leads
<1>4. Within(h2, d) BY DEF Leads
<1> QED BY <1>1, <1>3, <1>4 DEF IInv

(* What is sent from c on is within the windows, if nothing was sent before. *)
LEMMA WithinFrom ==
  ASSUME NEW c \in Connection, NEW d \in Connection, h2 \in Connection, Onward(c, d),
         \A j \in Live(c) \cap Live(h2) : c.streams[j].sent = h2.streams[j].sent
  PROVE  Within(h2, d)
<1>1. Within(c, d) BY OnwardWithin
<1>2. Live(d) \subseteq Live(c) BY DEF Onward
<1> QED BY <1>1, <1>2 DEF Within

LEMMA Unsent ==
  ASSUME NEW d \in Connection, h2 \in Connection,
         \A j \in Live(d) \cap Live(h2) : d.streams[j].sent = h2.streams[j].sent
  PROVE  Within(h2, d)
<1> SUFFICES ASSUME NEW j \in Live(h2) \cap Live(d), d.streams[j].sent > h2.streams[j].sent
             PROVE  FALSE
  BY DEF Within
<1>1. h2.streams[j].sent \in Nat BY LiveFacts DEF Stream
<1> QED BY <1>1

LEMMA OthersFlow ==
  ASSUME NEW c \in Connection, NEW d \in Connection, NEW i, Flowing(c), Others(c, d, i),
         i \in Live(d) => Waits(d, i)
  PROVE  Flowing(d)
<1> SUFFICES ASSUME Pumps, d.closing = "no", NEW j \in Live(d) PROVE Waits(d, j)
  BY DEF Flowing
<1>1. j \in Live(c) /\ c.closing = "no" BY DEF Others, Onward
<1>2. Waits(c, j) BY <1>1 DEF Flowing
<1> QED BY <1>2, OthersWait

LEMMA EndLeads ==
  ASSUME NEW c, NEW i \in Live(c), IInv, Handles(c, i)
  PROVE  Leads(CloseStream(c, i))
<1> DEFINE d == CloseStream(c, i)
<1>0. h2 \in Connection /\ c \in Connection BY DEF IInv, Good, Handles, Requests, Limits
<1>1. Responses(c, i) BY <1>0, LiveFacts DEF Handles, Responses
<1>2. Requests(d, 0) /\ Responses(d, 0) /\ Others(c, d, i) /\ Live(d) = Live(c) \ {i}
  BY <1>1, EndKeeps DEF Handles
<1> HIDE DEF d
<1>3. d \in Connection BY <1>2 DEF Requests, Limits
<1>4. Flowing(d) BY <1>0, <1>2, <1>3, OthersFlow DEF Handles
<1>5. Within(h2, d) BY <1>0, <1>2, <1>3, WithinFrom DEF Handles, Others
<1>6. ~d.freed BY <1>2 DEF Handles, Others, Onward, Requests
<1>7. ASSUME NEW j \in Live(d) PROVE j \in Live(h2) /\ Undisturbed(h2.streams[j], d.streams[j])
  <2>1. j \in Live(c) \ {i} /\ d.streams[j] = c.streams[j] BY <1>2 DEF Others
  <2> QED BY <2>1 DEF Handles
<1> QED BY <1>2, <1>4, <1>5, <1>6, <1>7 DEF Leads, d

LEMMA ErrorLeads ==
  ASSUME NEW c, NEW code \in {"closed", "flow", "calm"}, IInv, Limits(c), Responses(c, 0),
         c.closing = "no", ~c.freed,
         Told /\ code = "flow" => c.told < 0, code = "calm" => ~c.polite,
         \A j \in Live(c) : \/ j \in Live(h2) /\ Undisturbed(h2.streams[j], c.streams[j])
                            \/ j \notin h2pending /\ ~c.streams[j].dispatched,
         \A j \in Live(c) \cap Live(h2) : c.streams[j].sent = h2.streams[j].sent
  PROVE  Leads(ConnError(c, code))
<1> DEFINE d == ConnError(c, code)
<1>1. /\ Requests(d, 0) /\ Responses(d, 0) /\ Flowing(d)
      /\ d.streams = c.streams /\ Live(d) = Live(c) /\ d.freed = c.freed
  BY ErrorKeeps
<1> HIDE DEF d
<1>2. d \in Connection /\ h2 \in Connection BY <1>1 DEF IInv, Good, Requests, Limits
<1>3. Within(h2, d) BY <1>1, <1>2, Unsent
<1> QED BY <1>1, <1>3 DEF Leads, d

LEMMA RestLeads ==
  ASSUME NEW c, NEW i, IInv, Receives(c, i), Requests(c, 0)
  PROVE  Leads(c)
<1>1. h2 \in Connection /\ c \in Connection BY DEF IInv, Good, Requests, Limits
<1>2. Within(h2, c) BY <1>1, Unsent DEF Receives, Handles
<1>3. ~c.freed BY DEF Receives, Handles, Requests
<1> QED BY <1>2, <1>3 DEF Leads, Receives, Handles

LEMMA ClosedLeads ==
  ASSUME NEW c, NEW i, IInv, Receives(c, i)
  PROVE  Leads(ConnError(c, "closed"))
<1>1. Limits(c) /\ Responses(c, 0) /\ c.closing = "no" /\ ~c.freed
  BY DEF Receives, Handles, Requests
<1>2. "closed" \in {"closed", "flow", "calm"} /\ "closed" # "flow" /\ "closed" # "calm" OBVIOUS
<1> DEFINE code == "closed"
<1> HIDE DEF code
<1>3. code \in {"closed", "flow", "calm"} /\ code # "flow" /\ code # "calm" BY DEF code
<1>4. Leads(ConnError(c, code)) BY <1>1, <1>3, ErrorLeads DEF Receives, Handles
<1> QED BY <1>4 DEF code

LEMMA RejectLeads ==
  ASSUME NEW c, NEW i \in Live(c), IInv, Receives(c, i)
  PROVE  Leads(RejectOversized(c, i))
<1> DEFINE d == RejectOversized(c, i)
<1>0. h2 \in Connection /\ c \in Connection /\ 0 \notin Live(c) /\ c.streams[i] \in Stream
  <2>1. h2 \in Connection /\ c \in Connection BY DEF IInv, Good, Receives, Handles, Requests, Limits
  <2> QED BY <2>1, LiveFacts
<1>1. Fresh(c, i)
  <2>1. Response(c.streams[i]) /\ ~c.streams[i].dispatched BY <1>0 DEF Receives, Handles, Responses
  <2>2. c.streams[i].heads = 0 BY <1>0, <2>1 DEF Response, Stream
  <2> QED BY <1>0, <2>1, <2>2 DEF Fresh, Receives, Handles, Responses
<1>2. Requests(d, 0) /\ Responses(d, 0) /\ Others(c, d, i) /\ Live(d) = Live(c) \ {i}
  BY <1>1, RejectKeeps DEF Receives, Handles
<1> HIDE DEF d
<1>3. d \in Connection BY <1>2 DEF Requests, Limits
<1>4. Flowing(d) BY <1>0, <1>2, <1>3, OthersFlow DEF Receives, Handles
<1>5. Within(h2, d) BY <1>0, <1>2, <1>3, WithinFrom DEF Receives, Handles, Others
<1>6. ~d.freed BY <1>2 DEF Receives, Handles, Others, Onward, Requests
<1>7. ASSUME NEW j \in Live(d) PROVE j \in Live(h2) /\ Undisturbed(h2.streams[j], d.streams[j])
  <2>1. j \in Live(c) \ {i} /\ d.streams[j] = c.streams[j] BY <1>2 DEF Others
  <2> QED BY <2>1 DEF Receives, Handles
<1> QED BY <1>2, <1>4, <1>5, <1>6, <1>7 DEF Leads, d

(* dispatch: the request is complete, and progress forgives a reset. *)
Forwarded(c, i) == Forgiven([c EXCEPT !.streams[i].dispatched = TRUE])

LEMMA ForwardedFacts ==
  ASSUME NEW c \in Connection, NEW i \in Live(c)
  PROVE  LET d == Forwarded(c, i)
             s == c.streams[i]
             t == d.streams[i]
         IN /\ d \in Connection /\ Live(d) = Live(c)
            /\ \A j \in Live(c) \ {i} : d.streams[j] = c.streams[j]
            /\ t.dispatched = TRUE /\ t.headers = s.headers /\ t.ended = s.ended
            /\ t.received = s.received /\ t.recv = s.recv /\ t.unacked = s.unacked /\ t.told = s.told
            /\ t.send = s.send /\ t.window = s.window /\ t.sent = s.sent /\ t.out = s.out
            /\ t.held = s.held /\ t.fin = s.fin /\ t.heads = s.heads /\ t.made = s.made
            /\ d.last = c.last /\ d.cont = c.cont /\ d.recv = c.recv /\ d.unacked = c.unacked
            /\ d.initial = c.initial /\ d.closing = c.closing /\ d.freed = c.freed
            /\ d.told = c.told /\ d.polite = c.polite /\ d.inflight = c.inflight
            /\ d.send = c.send /\ d.peer = c.peer /\ d.torn = c.torn
            /\ d.resets = IF c.resets = 0 THEN 0 ELSE c.resets - 1
<1> DEFINE s == c.streams[i]
           t == [s EXCEPT !.dispatched = TRUE]
           e == With(c, i, t)
           r == Max({0, c.resets - 1})
           d == Forwarded(c, i)
<1>1. s \in Stream /\ c.streams \in [Live(c) -> Stream] BY LiveFacts
<1>2. t \in Stream BY <1>1 DEF Stream
<1>3. /\ t.dispatched = TRUE /\ t.headers = s.headers /\ t.ended = s.ended
      /\ t.received = s.received /\ t.recv = s.recv /\ t.unacked = s.unacked /\ t.told = s.told
      /\ t.send = s.send /\ t.window = s.window /\ t.sent = s.sent /\ t.out = s.out
      /\ t.held = s.held /\ t.fin = s.fin /\ t.heads = s.heads /\ t.made = s.made
  BY <1>1 DEF Stream
<1>4. e = [c EXCEPT !.streams[i].dispatched = TRUE] BY <1>1 DEF With, Connection
<1> HIDE DEF t
<1>5. /\ e \in Connection /\ Live(e) = Live(c) /\ e.streams[i] = t
      /\ \A j \in Live(c) \ {i} : e.streams[j] = c.streams[j]
      /\ SameConnection(c, e) /\ e.inflight = c.inflight
      /\ e.send = c.send /\ e.peer = c.peer /\ e.torn = c.torn
  BY <1>2, WithFacts
<1>6. d = [e EXCEPT !.resets = r]
  <2>1. e.resets = c.resets BY <1>5 DEF SameConnection
  <2>2. Forgiven(e) = [e EXCEPT !.resets = Max({0, @ - 1})] BY DEF Forgiven
  <2>3. d = Forgiven(e) BY <1>4 DEF Forwarded
  <2> HIDE DEF d, e
  <2> QED BY <2>1, <2>2, <2>3
<1>7. r \in Nat /\ r = IF c.resets = 0 THEN 0 ELSE c.resets - 1
  <2>1. c.resets \in Nat BY DEF Connection
  <2> DEFINE k == c.resets - 1
  <2>2. k \in Int BY <2>1
  <2>3. r = Max({0, k}) OBVIOUS
  <2> HIDE DEF k, r
  <2>4. r = IF 0 >= k THEN 0 ELSE k BY <2>2, <2>3, MaxOfTwo
  <2> QED BY <2>1, <2>2, <2>4 DEF k
<1> HIDE DEF e, r, d
<1>8. d \in Connection /\ d.streams = e.streams BY <1>5, <1>6, <1>7 DEF Connection
<1>9. /\ d.last = e.last /\ d.cont = e.cont /\ d.recv = e.recv /\ d.unacked = e.unacked
      /\ d.initial = e.initial /\ d.closing = e.closing /\ d.freed = e.freed
      /\ d.told = e.told /\ d.polite = e.polite /\ d.inflight = e.inflight
      /\ d.send = e.send /\ d.peer = e.peer /\ d.torn = e.torn /\ d.resets = r
  BY <1>5, <1>6 DEF Connection
<1>10. Live(d) = Live(e) BY <1>8 DEF Live
<1> QED BY <1>3, <1>5, <1>7, <1>8, <1>9, <1>10 DEF SameConnection, d

Complete(c, i) ==
  /\ Receives(c, i) /\ i \in Live(c) /\ c.cont = NoBlock
  /\ c.streams[i].headers /\ c.streams[i].ended

LEMMA ForwardedKeeps ==
  ASSUME NEW c, NEW i, IInv, Complete(c, i)
  PROVE  LET d == Forwarded(c, i)
         IN /\ Requests(d, 0) /\ Responses(d, 0) /\ Flowing(d) /\ Fresh(d, i)
            /\ d.streams[i].dispatched /\ ~d.streams[i].fin
<1> DEFINE d == Forwarded(c, i)
           s == c.streams[i]
           t == d.streams[i]
<1>r. Requests(c, i) /\ Responses(c, 0) /\ Flowing(c) /\ i \in Live(c) /\ ~s.dispatched
  BY DEF Complete, Receives, Handles
<1>0. c \in Connection /\ 0 \notin Live(c) /\ s \in Stream
  <2>1. c \in Connection BY <1>r DEF Requests, Limits
  <2> QED BY <1>r, <2>1, LiveFacts
<1>1. /\ d \in Connection /\ Live(d) = Live(c)
      /\ \A j \in Live(c) \ {i} : d.streams[j] = c.streams[j]
      /\ t.dispatched = TRUE /\ t.headers = s.headers /\ t.ended = s.ended
      /\ t.received = s.received /\ t.recv = s.recv /\ t.unacked = s.unacked /\ t.told = s.told
      /\ t.send = s.send /\ t.window = s.window /\ t.sent = s.sent /\ t.out = s.out
      /\ t.held = s.held /\ t.fin = s.fin /\ t.heads = s.heads /\ t.made = s.made
      /\ d.last = c.last /\ d.cont = c.cont /\ d.recv = c.recv /\ d.unacked = c.unacked
      /\ d.initial = c.initial /\ d.closing = c.closing /\ d.freed = c.freed
      /\ d.told = c.told /\ d.polite = c.polite /\ d.inflight = c.inflight
      /\ d.send = c.send /\ d.peer = c.peer /\ d.torn = c.torn
      /\ d.resets = IF c.resets = 0 THEN 0 ELSE c.resets - 1
  BY <1>r, <1>0, ForwardedFacts
<1> HIDE DEF d
<1>2. Response(s) BY <1>r, <1>0 DEF Responses
<1>3. s.heads = 0 /\ ~s.fin /\ s.out = 0
  <2>1. s.heads = 0 BY <1>r, <1>0, <1>2 DEF Response, Stream
  <2>2. s.made = 0 /\ s.made = s.sent + s.out /\ s.sent \in Nat /\ s.out \in Nat
    BY <1>0, <1>2, <2>1 DEF Response, Stream
  <2> QED BY <1>2, <2>1, <2>2 DEF Response
<1>4. Response(t) BY <1>1, <1>2, <1>3 DEF Response
<1>5. Responses(d, 0)
  <2>1. \A j \in Live(d) \ {0} : Response(d.streams[j]) BY <1>r, <1>1, <1>4 DEF Responses
  <2> QED BY <1>r, <1>1, <2>1 DEF Responses
<1>6. Fresh(d, i) BY <1>r, <1>1, <1>3, <1>4 DEF Fresh, Responses
<1>7. Flowing(d)
  <2>1. ASSUME NEW j \in Live(d), Waits(c, j) PROVE Waits(d, j)
    <3>1. d.streams[j].out = c.streams[j].out /\ d.streams[j].send = c.streams[j].send /\ d.send = c.send
      BY <1>1
    <3> QED BY <2>1, <3>1 DEF Waits, Room
  <2> QED BY <1>r, <1>1, <2>1 DEF Flowing
<1>8. Limits(d)
  <2>1. Limits(c) BY <1>r DEF Requests
  <2>2. ASSUME NEW j \in Live(d) PROVE j <= d.last /\ d.streams[j].received <= MaxBody
    <3>1. d.streams[j].received = c.streams[j].received BY <1>1
    <3> QED BY <1>1, <2>1, <3>1 DEF Limits
  <2> QED BY <1>1, <2>1, <2>2 DEF Limits
<1>9. Total(d.streams) = Total(c.streams)
  <2>1. \A j \in Live(c) : d.streams[j].received = c.streams[j].received BY <1>1
  <2> QED BY <1>0, <1>1, <2>1, TotalOf, TotalSame
<1>10. Uploads(c, i) => Uploads(d, 0)
  <2> SUFFICES ASSUME Uploads(c, i) PROVE Uploads(d, 0)
    OBVIOUS
  <2>1. t.ended BY <1>1 DEF Complete
  <2> QED BY <1>1, <2>1 DEF Uploads
<1>11. Blocks(c, i) => Blocks(d, 0)
  <2> SUFFICES ASSUME Blocks(c, i) PROVE Blocks(d, 0)
    OBVIOUS
  <2>1. t.ended /\ t.headers /\ t.dispatched BY <1>1 DEF Complete
  <2>2. d.cont = [id |-> 0, trailer |-> FALSE] BY <1>1 DEF Complete, NoBlock
  <2>3. \A j \in Live(d) : d.cont # [id |-> j, trailer |-> FALSE] /\ d.cont # [id |-> j, trailer |-> TRUE]
    BY <1>0, <1>1, <2>2
  <2>4. ASSUME NEW j \in Live(d) \ {i}
        PROVE  d.streams[j].headers /\ (d.streams[j].ended => d.streams[j].dispatched)
                 /\ (d.streams[j].dispatched => d.streams[j].ended)
    <3>1. c.cont # [id |-> j, trailer |-> FALSE] /\ j \in Live(c) \ {i} BY <1>1, <2>3
    <3>2. c.streams[j].headers /\ (c.streams[j].ended => c.streams[j].dispatched)
            /\ (c.streams[j].dispatched => c.streams[j].ended)
      BY <3>1 DEF Blocks
    <3>3. d.streams[j] = c.streams[j] BY <1>1, <3>1
    <3> QED BY <3>2, <3>3
  <2> QED BY <2>1, <2>3, <2>4 DEF Blocks
<1>12. c.resets + Cardinality(Dispatched(c.streams)) <= MaxConcurrent
         => d.resets + Cardinality(Dispatched(d.streams)) <= MaxConcurrent
  <2> DEFINE m == Cardinality(Dispatched(c.streams))
             n == Cardinality(Dispatched(d.streams))
             l == Cardinality(Live(d))
  <2>1. Dispatched(d.streams) = Dispatched(c.streams) \cup {i} /\ i \notin Dispatched(c.streams)
    BY <1>0, <1>1, <1>r, DispatchedFinite
  <2>2. n = m + 1 /\ m \in Nat BY <1>0, <2>1, DispatchedFinite, FS_AddElement
  <2>3. n <= l /\ l <= MaxConcurrent /\ l \in Nat
    BY <1>1, <1>8, DispatchedFinite, LiveFacts DEF Limits
  <2> HIDE DEF m, n, l
  <2>4. c.resets \in Nat BY <1>0 DEF Connection
  <2>5. c.resets + m <= MaxConcurrent => d.resets + n <= MaxConcurrent
    BY <1>1, <2>2, <2>3, <2>4, Sizes
  <2> QED BY <2>5 DEF m, n
<1>13. Requests(d, 0) BY <1>r, <1>1, <1>8, <1>9, <1>10, <1>11, <1>12 DEF Requests
<1>14. t.dispatched /\ ~t.fin BY <1>1, <1>3
<1> QED BY <1>5, <1>6, <1>7, <1>13, <1>14 DEF d

LEMMA DispatchKeeps ==
  ASSUME NEW c, NEW i, IInv, Complete(c, i), Dispatch(c, i)
  PROVE  IInv' /\ Within(h2, h2')
<1> DEFINE d == Forwarded(c, i)
           s == c.streams[i]
           t == d.streams[i]
<1>r. /\ Requests(c, i) /\ i \in Live(c) /\ i \notin h2pending /\ c.closing = "no" /\ ~c.freed
      /\ \A j \in Live(c) \ {i} : j \in Live(h2) /\ Undisturbed(h2.streams[j], c.streams[j])
      /\ \A j \in Live(c) \cap Live(h2) : c.streams[j].sent = h2.streams[j].sent
  BY DEF Complete, Receives, Handles, Requests
<1>s. Live(h2) \ {i} \subseteq Live(c) BY DEF Complete, Receives, Handles
<1>0. h2 \in Connection /\ c \in Connection BY <1>r DEF IInv, Good, Requests, Limits
<1>1. /\ d \in Connection /\ Live(d) = Live(c)
      /\ \A j \in Live(c) \ {i} : d.streams[j] = c.streams[j]
      /\ t.sent = s.sent /\ t.heads = s.heads /\ d.freed = c.freed /\ d.closing = c.closing
  BY <1>r, <1>0, ForwardedFacts
<1>2. /\ Requests(d, 0) /\ Responses(d, 0) /\ Flowing(d) /\ Fresh(d, i)
      /\ t.dispatched /\ ~t.fin
  BY ForwardedKeeps
<1>3. \/ \E n \in Bodies \cup {TooBig} : Continue(Respond(d, i, n))
      \/ h2' = d /\ h2pending' = h2pending \cup {i} /\ work' = [work EXCEPT ![i] = "awaits"]
  BY DEF Dispatch, Forwarded
<1> HIDE DEF d
<1>4. \A j \in Live(d) \cap Live(h2) : d.streams[j].sent = h2.streams[j].sent BY <1>r, <1>1
<1>5. \A j \in Live(d) \ {i} : j \in Live(h2) /\ Undisturbed(h2.streams[j], d.streams[j])
  BY <1>r, <1>1
<1>6. ASSUME NEW n \in Bodies \cup {TooBig}, Continue(Respond(d, i, n)) PROVE IInv' /\ Within(h2, h2')
  <2> DEFINE e == Respond(d, i, n)
  <2>1. n \in Nat \cup {TooBig} BY Sizes
  <2>2. /\ Requests(e, 0) /\ Responses(e, 0) /\ Others(d, e, i)
        /\ i \in Live(e) => Waits(e, i) /\ e.streams[i].fin /\ e.streams[i].dispatched
    BY <1>2, <2>1, RespondKeeps
  <2>c. Continue(e) BY <1>6
  <2> HIDE DEF e
  <2>3. e \in Connection BY <2>2 DEF Requests, Limits
  <2>4. Flowing(e) BY <1>1, <1>2, <2>2, <2>3, OthersFlow
  <2>5. Within(h2, e) BY <1>0, <1>1, <1>4, <2>2, <2>3, WithinFrom DEF Others
  <2>6. ~e.freed BY <1>r, <1>1, <2>2 DEF Others, Onward
  <2>7. ASSUME NEW j \in Live(e)
        PROVE  \/ j \in Live(h2) /\ Undisturbed(h2.streams[j], e.streams[j])
               \/ j \notin h2pending /\ (e.streams[j].dispatched => e.streams[j].fin)
    <3>1. CASE j = i BY <1>r, <2>2, <3>1
    <3>2. CASE j # i
      <4>1. j \in Live(d) \ {i} /\ e.streams[j] = d.streams[j] BY <2>2, <3>2 DEF Others, Onward
      <4> QED BY <1>5, <4>1
    <3> QED BY <3>1, <3>2
  <2>8. Leads(e) BY <2>2, <2>4, <2>5, <2>6, <2>7 DEF Leads
  <2> QED BY <2>c, <2>8, Continues
<1>7. ASSUME h2' = d, h2pending' = h2pending \cup {i}, work' = [work EXCEPT ![i] = "awaits"]
      PROVE  IInv' /\ Within(h2, h2')
  <2> DEFINE P == h2pending \cup {i}
             W == [work EXCEPT ![i] = "awaits"]
  <2>1. Handlers(h2, h2pending, work) BY DEF IInv, Good
  <2>2. Within(h2, d) BY <1>0, <1>1, <1>4, Unsent
  <2>3. i \in Ids BY <1>r, <1>0, LiveFacts
  <2>4. P \subseteq Ids /\ W \in [Ids -> Stages] /\ W[i] = "awaits" /\ \A j \in Ids \ {i} : W[j] = work[j]
    BY <2>1, <2>3 DEF Handlers, Stages
  <2>p. i \in P /\ \A j \in Ids \ {i} : j \in P <=> j \in h2pending OBVIOUS
  <2> HIDE DEF P, W
  <2>5. HandlerOf(d, P, W, i)
    <3>1. t.heads = 0 BY <1>2 DEF Fresh
    <3>2. t.fin = FALSE
      <4>1. t \in Stream BY <1>r, <1>1, LiveFacts
      <4> QED BY <1>2, <4>1 DEF Stream
    <3> QED BY <1>r, <1>1, <1>2, <2>4, <2>p, <3>1, <3>2 DEF HandlerOf
  <2>6. ASSUME NEW j \in Ids \ {i} PROVE HandlerOf(d, P, W, j)
    <3>1. HandlerOf(h2, h2pending, work, j) BY <2>1 DEF Handlers
    <3>2. CASE j \in Live(d)
      <4>1. j \in Live(h2) /\ Undisturbed(h2.streams[j], d.streams[j]) BY <1>5, <2>6, <3>2
      <4>2. h2.streams[j].out \in Nat /\ d.streams[j].out \in Nat
        BY <1>0, <1>1, <3>2, <4>1, LiveFacts DEF Stream
      <4> QED BY <2>4, <2>p, <3>1, <3>2, <4>1, <4>2, Sizes DEF HandlerOf, Undisturbed
    <3>3. CASE j \notin Live(d)
      <4>1. j \notin Live(h2) BY <1>1, <1>s, <3>3
      <4> QED BY <2>p, <3>1, <3>3, <4>1 DEF HandlerOf
    <3> QED BY <3>2, <3>3
  <2>7. Handlers(d, P, W) BY <1>r, <1>1, <2>4, <2>5, <2>6 DEF Handlers
  <2>8. Good(d, P, W) BY <1>2, <2>7 DEF Good
  <2>9. h2' = d /\ h2pending' = P /\ work' = W BY <1>7 DEF P, W
  <2> QED BY <2>2, <2>8, <2>9 DEF IInv
<1> QED BY <1>3, <1>6, <1>7

-----------------------------------------------------------------------------
(* Header blocks. *)

(* d is c, but for the header block it expects and the last stream it knows. *)
Alike(c, d) ==
  /\ d \in Connection /\ d.streams = c.streams /\ Live(d) = Live(c) /\ c.last <= d.last
  /\ d.recv = c.recv /\ d.unacked = c.unacked /\ d.initial = c.initial /\ d.resets = c.resets
  /\ d.closing = c.closing /\ d.freed = c.freed /\ d.told = c.told /\ d.polite = c.polite
  /\ d.inflight = c.inflight /\ d.send = c.send /\ d.peer = c.peer /\ d.torn = c.torn

LEMMA Expects ==
  ASSUME NEW c \in Connection, NEW k \in [id : Nat, trailer : BOOLEAN]
  PROVE  Alike(c, [c EXCEPT !.cont = k]) /\ [c EXCEPT !.cont = k].cont = k
<1> DEFINE d == [c EXCEPT !.cont = k]
<1>1. d \in Connection /\ d.streams = c.streams /\ d.cont = k BY DEF Connection
<1>2. /\ d.last = c.last /\ d.recv = c.recv /\ d.unacked = c.unacked /\ d.initial = c.initial
      /\ d.resets = c.resets /\ d.closing = c.closing /\ d.freed = c.freed /\ d.told = c.told
      /\ d.polite = c.polite /\ d.inflight = c.inflight /\ d.send = c.send /\ d.peer = c.peer
      /\ d.torn = c.torn
  BY DEF Connection
<1>3. c.last \in Int BY DEF Connection
<1> HIDE DEF d
<1>4. Live(d) = Live(c) BY <1>1 DEF Live
<1> QED BY <1>1, <1>2, <1>3, <1>4 DEF Alike, d

LEMMA Counts ==
  ASSUME NEW c \in Connection, NEW i \in 1..MaxStream, c.last < i
  PROVE  Alike(c, [c EXCEPT !.last = i]) /\ [c EXCEPT !.last = i].cont = c.cont
<1> DEFINE d == [c EXCEPT !.last = i]
<1>1. d \in Connection /\ d.streams = c.streams /\ d.cont = c.cont BY DEF Connection
<1>2. /\ d.last = i /\ d.recv = c.recv /\ d.unacked = c.unacked /\ d.initial = c.initial
      /\ d.resets = c.resets /\ d.closing = c.closing /\ d.freed = c.freed /\ d.told = c.told
      /\ d.polite = c.polite /\ d.inflight = c.inflight /\ d.send = c.send /\ d.peer = c.peer
      /\ d.torn = c.torn
  BY DEF Connection
<1>3. c.last \in Int BY DEF Connection
<1> HIDE DEF d
<1>4. Live(d) = Live(c) BY <1>1 DEF Live
<1> QED BY <1>1, <1>2, <1>3, <1>4 DEF Alike, d

LEMMA AlikeKeeps ==
  ASSUME NEW c, NEW d, NEW x, NEW y, Requests(c, x), Alike(c, d),
         Uploads(c, x) /\ Blocks(c, x) => Uploads(c, y) /\ Blocks(d, y)
  PROVE  Requests(d, y)
<1>1. Limits(c) BY DEF Requests
<1>2. c \in Connection /\ c.last \in Int /\ d.last \in Int
  BY <1>1 DEF Limits, Connection, Alike
<1>3. \A j \in Live(d) : j <= d.last /\ d.streams[j].received <= MaxBody
  <2> SUFFICES ASSUME NEW j \in Live(d) PROVE j <= d.last /\ d.streams[j].received <= MaxBody
    OBVIOUS
  <2>1. j \in Live(c) /\ j \in Int BY <1>2, LiveFacts DEF Alike, Ids
  <2> QED BY <1>1, <1>2, <2>1 DEF Alike, Limits
<1>4. Limits(d) BY <1>1, <1>3 DEF Limits, Alike
<1>5. Uploads(c, y) => Uploads(d, y) BY DEF Uploads, Alike
<1> QED BY <1>4, <1>5 DEF Requests, Alike

LEMMA AlikeHandles ==
  ASSUME NEW c, NEW d, NEW i, Handles(c, i), Alike(c, d), Requests(d, i)
  PROVE  Handles(d, i)
<1>1. Responses(d, 0) BY DEF Handles, Responses, Alike
<1>2. Flowing(d) BY DEF Handles, Flowing, Waits, Room, Alike
<1> QED BY <1>1, <1>2 DEF Handles, Alike

LEMMA Spared ==
  ASSUME NEW c, NEW i, Requests(c, 0)
  PROVE  Requests(c, i)
<1>1. c \in Connection BY DEF Requests, Limits
<1>2. 0 \notin Live(c) BY <1>1, LiveFacts
<1>3. Uploads(c, 0) => Uploads(c, i) BY <1>2 DEF Uploads
<1>4. Blocks(c, 0) => Blocks(c, i) BY <1>2 DEF Blocks
<1> QED BY <1>3, <1>4 DEF Requests

LEMMA HandlesSelf ==
  ASSUME NEW i, IInv, Open
  PROVE  Handles(h2, i)
<1>1. h2 \in Connection BY DEF IInv, Good, Requests, Limits
<1>2. \A j \in Live(h2) : Undisturbed(h2.streams[j], h2.streams[j])
  BY <1>1, LiveFacts DEF Undisturbed, Stream
<1>3. Requests(h2, i) BY Spared DEF IInv, Good
<1> QED BY <1>2, <1>3 DEF Handles, IInv, Good, Open

(* The frame is one to close for. *)
LEMMA CloseNow ==
  ASSUME IInv, Open, Continue(ConnError(h2, "closed"))
  PROVE  IInv' /\ Within(h2, h2')
<1> DEFINE code == "closed"
<1>1. code \in {"closed", "flow", "calm"} /\ code # "flow" /\ code # "calm" OBVIOUS
<1> HIDE DEF code
<1>2. Handles(h2, 0) BY HandlesSelf
<1>3. Limits(h2) /\ Responses(h2, 0) /\ h2.closing = "no" /\ ~h2.freed
  BY <1>2 DEF Handles, Requests
<1>4. h2 \in Connection /\ 0 \notin Live(h2)
  <2>1. h2 \in Connection BY <1>3 DEF Limits
  <2> QED BY <2>1, LiveFacts
<1>5. \A j \in Live(h2) : j \in Live(h2) /\ Undisturbed(h2.streams[j], h2.streams[j])
  BY <1>2, <1>4 DEF Handles
<1>6. Leads(ConnError(h2, code)) BY <1>1, <1>3, <1>5, ErrorLeads
<1> QED BY <1>6, Continues DEF code

(* Stream i is again as every stream is between two frames. *)
LEMMA Settled ==
  ASSUME NEW c, NEW i \in Live(c), Requests(c, i),
         ~c.streams[i].ended => /\ c.streams[i].recv + c.streams[i].unacked = RecvInitial
                                /\ c.streams[i].unacked < RecvInitial
                                /\ c.streams[i].told = c.streams[i].recv,
         ~c.streams[i].headers => c.cont = [id |-> i, trailer |-> FALSE],
         c.streams[i].ended => c.cont = [id |-> i, trailer |-> FALSE],
         ~c.streams[i].dispatched,
         c.cont = [id |-> i, trailer |-> FALSE] => ~c.streams[i].headers,
         c.cont = [id |-> i, trailer |-> TRUE] => ~c.streams[i].ended
  PROVE  Requests(c, 0)
<1>1. c \in Connection BY DEF Requests, Limits
<1>2. Uploads(c, i) => Uploads(c, 0) BY DEF Uploads
<1>3. Blocks(c, i) => Blocks(c, 0) BY DEF Blocks
<1> QED BY <1>2, <1>3 DEF Requests

(* Frames that belong to the request leave the response alone. *)
SameAnswer(s, t) ==
  /\ t \in Stream /\ t.dispatched = s.dispatched /\ t.received = s.received
  /\ t.send = s.send /\ t.window = s.window /\ t.sent = s.sent /\ t.out = s.out
  /\ t.held = s.held /\ t.fin = s.fin /\ t.heads = s.heads /\ t.made = s.made

LEMMA MarkedHandles ==
  ASSUME NEW c, NEW i \in Live(c), NEW t, Handles(c, i), SameAnswer(c.streams[i], t)
  PROVE  LET d == With(c, i, t)
         IN /\ Handles(d, i) /\ Live(d) = Live(c) /\ d.streams[i] = t
            /\ \A j \in Live(c) \ {i} : d.streams[j] = c.streams[j]
            /\ SameConnection(c, d) /\ d.inflight = c.inflight
<1> DEFINE d == With(c, i, t)
           s == c.streams[i]
<1>r. Requests(c, i) /\ Responses(c, 0) /\ Flowing(c) /\ Limits(c) /\ c \in Connection
  BY DEF Handles, Requests, Limits
<1>0. 0 \notin Live(c) /\ s \in Stream BY <1>r, LiveFacts
<1>1. /\ d \in Connection /\ Live(d) = Live(c) /\ d.streams[i] = t
      /\ \A j \in Live(c) \ {i} : d.streams[j] = c.streams[j]
      /\ SameConnection(c, d) /\ d.inflight = c.inflight
      /\ d.send = c.send /\ d.peer = c.peer /\ d.torn = c.torn
  BY <1>r, WithFacts DEF SameAnswer
<1> HIDE DEF d
<1>2. \A j \in Live(c) : d.streams[j].received = c.streams[j].received
        /\ d.streams[j].dispatched = c.streams[j].dispatched
        /\ d.streams[j].sent = c.streams[j].sent
        /\ d.streams[j].out = c.streams[j].out /\ d.streams[j].send = c.streams[j].send
  <2> SUFFICES ASSUME NEW j \in Live(c)
               PROVE  d.streams[j].received = c.streams[j].received
                        /\ d.streams[j].dispatched = c.streams[j].dispatched
                        /\ d.streams[j].sent = c.streams[j].sent
                        /\ d.streams[j].out = c.streams[j].out /\ d.streams[j].send = c.streams[j].send
    OBVIOUS
  <2>1. CASE j = i BY <1>1, <2>1 DEF SameAnswer
  <2>2. CASE j # i BY <1>1, <2>2
  <2> QED BY <2>1, <2>2
<1>3. Total(d.streams) = Total(c.streams) BY <1>r, <1>1, <1>2, TotalOf, TotalSame
<1>4. Dispatched(d.streams) = Dispatched(c.streams) BY <1>r, <1>1, <1>2, SameDispatched
<1>5. Limits(d) BY <1>r, <1>1, <1>2 DEF Limits, SameConnection
<1>6. Uploads(c, i) => Uploads(d, i) BY <1>1 DEF Uploads, SameConnection
<1>7. Blocks(c, i) => Blocks(d, i) BY <1>1, SameBlocks DEF SameConnection
<1>8. Requests(d, i) BY <1>r, <1>1, <1>3, <1>4, <1>5, <1>6, <1>7 DEF Requests, SameConnection
<1>9. Responses(d, 0)
  <2>1. Response(t) BY <1>r, <1>0 DEF Responses, Response, SameAnswer
  <2> QED BY <1>r, <1>1, <2>1 DEF Responses
<1>10. Flowing(d)
  <2>1. \A j \in Live(d) : Waits(c, j) => Waits(d, j) BY <1>1, <1>2 DEF Waits, Room
  <2> QED BY <1>r, <1>1, <2>1 DEF Flowing, SameConnection
<1>11. Handles(d, i) BY <1>1, <1>2, <1>8, <1>9, <1>10 DEF Handles, SameConnection
<1> QED BY <1>1, <1>11 DEF d

LEMMA MarkedReceives ==
  ASSUME NEW c, NEW i \in Live(c), NEW t, Receives(c, i), SameAnswer(c.streams[i], t)
  PROVE  LET d == With(c, i, t)
         IN Receives(d, i) /\ Live(d) = Live(c) /\ d.streams[i] = t /\ d.cont = c.cont
<1> DEFINE d == With(c, i, t)
<1>1. /\ Handles(d, i) /\ Live(d) = Live(c) /\ d.streams[i] = t /\ SameConnection(c, d)
  BY MarkedHandles DEF Receives
<1> HIDE DEF d
<1>2. Receives(d, i) BY <1>1 DEF Receives, SameAnswer
<1> QED BY <1>1, <1>2 DEF SameConnection, d

LEMMA Marks ==
  ASSUME NEW c \in Connection, NEW i \in Live(c)
  PROVE  LET s == c.streams[i]
             t == [s EXCEPT !.headers = TRUE]
             u == [s EXCEPT !.ended = TRUE]
         IN /\ SameAnswer(s, t) /\ t.headers = TRUE /\ t.ended = s.ended
            /\ t.recv = s.recv /\ t.unacked = s.unacked /\ t.told = s.told
            /\ SameAnswer(s, u) /\ u.ended = TRUE /\ u.headers = s.headers
            /\ [c EXCEPT !.streams[i].headers = TRUE] = With(c, i, t)
            /\ [c EXCEPT !.streams[i].ended = TRUE] = With(c, i, u)
<1> DEFINE s == c.streams[i]
           t == [s EXCEPT !.headers = TRUE]
           u == [s EXCEPT !.ended = TRUE]
<1>1. s \in Stream /\ c.streams \in [Live(c) -> Stream] BY LiveFacts
<1>2. /\ SameAnswer(s, t) /\ t.headers = TRUE /\ t.ended = s.ended
      /\ t.recv = s.recv /\ t.unacked = s.unacked /\ t.told = s.told
  BY <1>1 DEF SameAnswer, Stream
<1>3. SameAnswer(s, u) /\ u.ended = TRUE /\ u.headers = s.headers BY <1>1 DEF SameAnswer, Stream
<1>4. [c EXCEPT !.streams[i].headers = TRUE] = With(c, i, t) BY <1>1 DEF With, Connection
<1>5. [c EXCEPT !.streams[i].ended = TRUE] = With(c, i, u) BY <1>1 DEF With, Connection
<1> QED BY <1>2, <1>3, <1>4, <1>5

Opening(c, i) ==
  /\ Receives(c, i) /\ i \in Live(c) /\ c.cont = NoBlock
  /\ ~c.streams[i].ended => /\ c.streams[i].recv + c.streams[i].unacked = RecvInitial
                            /\ c.streams[i].unacked < RecvInitial
                            /\ c.streams[i].told = c.streams[i].recv

LEMMA NoBlockOf ==
  ASSUME NEW c \in Connection, NEW i \in Live(c), c.cont = NoBlock, NEW b
  PROVE  c.cont # [id |-> i, trailer |-> b]
<1>1. i # 0 BY LiveFacts
<1>2. NoBlock.id = 0 BY DEF NoBlock
<1>3. [id |-> i, trailer |-> b].id = i OBVIOUS
<1> QED BY <1>1, <1>2, <1>3

LEMMA FinishHeadersKeeps ==
  ASSUME NEW c, NEW i, IInv, Opening(c, i), FinishHeaders(c, i)
  PROVE  IInv' /\ Within(h2, h2')
<1> DEFINE s == c.streams[i]
           t == [s EXCEPT !.headers = TRUE]
           d == With(c, i, t)
           e == [c EXCEPT !.streams[i].headers = TRUE]
<1>0. c \in Connection /\ i \in Live(c) /\ Receives(c, i)
  BY DEF Opening, Receives, Handles, Requests, Limits
<1>1. /\ SameAnswer(s, t) /\ t.headers = TRUE /\ t.ended = s.ended /\ e = d
      /\ t.recv = s.recv /\ t.unacked = s.unacked /\ t.told = s.told
  BY <1>0, Marks
<1>2. \/ Continue(ConnError(c, "closed"))
      \/ Continue(StreamError(e, i))
      \/ IF e.streams[i].ended THEN Dispatch(e, i) ELSE Continue(e)
  BY DEF FinishHeaders
<1> HIDE DEF e, t
<1>3. Receives(d, i) /\ Live(d) = Live(c) /\ d.streams[i] = t /\ d.cont = c.cont
  BY <1>0, <1>1, MarkedReceives
<1> HIDE DEF d
<1>4. CASE Continue(ConnError(c, "closed")) BY <1>0, <1>4, ClosedLeads, Continues
<1>5. CASE Continue(StreamError(d, i))
  <2>1. Continue(CloseStream(d, i)) BY <1>5 DEF StreamError
  <2>2. Leads(CloseStream(d, i)) BY <1>0, <1>3, EndLeads DEF Receives
  <2> QED BY <2>1, <2>2, Continues
<1>6. CASE t.ended /\ Dispatch(d, i)
  <2>1. Complete(d, i) BY <1>0, <1>1, <1>3, <1>6 DEF Complete, Opening
  <2> QED BY <1>6, <2>1, DispatchKeeps
<1>7. CASE ~t.ended /\ Continue(d)
  <2>1. d \in Connection /\ d.cont = NoBlock BY <1>3 DEF Receives, Handles, Requests, Limits, Opening
  <2>2. d.cont # [id |-> i, trailer |-> FALSE] /\ d.cont # [id |-> i, trailer |-> TRUE]
    BY <1>0, <1>3, <2>1, NoBlockOf
  <2>3. ~s.ended /\ ~t.dispatched BY <1>0, <1>1, <1>7 DEF Receives, SameAnswer
  <2>4. t.recv + t.unacked = RecvInitial /\ t.unacked < RecvInitial /\ t.told = t.recv
    BY <1>1, <2>3 DEF Opening, SameAnswer
  <2>5. Requests(d, i) BY <1>3 DEF Receives, Handles
  <2>6. Requests(d, 0) BY <1>0, <1>1, <1>3, <1>7, <2>2, <2>3, <2>4, <2>5, Settled
  <2> QED BY <1>3, <1>7, <2>6, RestLeads, Continues
<1> QED BY <1>1, <1>2, <1>3, <1>4, <1>5, <1>6, <1>7

LEMMA FinishTrailersKeeps ==
  ASSUME NEW c, NEW i, IInv, Opening(c, i), c.streams[i].headers, FinishTrailers(c, i)
  PROVE  IInv' /\ Within(h2, h2')
<1> DEFINE s == c.streams[i]
           t == [s EXCEPT !.ended = TRUE]
           d == With(c, i, t)
           e == [c EXCEPT !.streams[i].ended = TRUE]
<1>0. c \in Connection /\ i \in Live(c) /\ Receives(c, i)
  BY DEF Opening, Receives, Handles, Requests, Limits
<1>1. SameAnswer(s, t) /\ t.ended = TRUE /\ t.headers = s.headers /\ e = d BY <1>0, Marks
<1>2. \/ Continue(ConnError(c, "closed"))
      \/ Continue(StreamError(e, i))
      \/ Dispatch(e, i)
  BY DEF FinishTrailers
<1> HIDE DEF e, t
<1>3. Receives(d, i) /\ Live(d) = Live(c) /\ d.streams[i] = t /\ d.cont = c.cont
  BY <1>0, <1>1, MarkedReceives
<1> HIDE DEF d
<1>4. CASE Continue(ConnError(c, "closed")) BY <1>0, <1>4, ClosedLeads, Continues
<1>5. CASE Continue(StreamError(d, i))
  <2>1. Continue(CloseStream(d, i)) BY <1>5 DEF StreamError
  <2>2. Leads(CloseStream(d, i)) BY <1>0, <1>3, EndLeads DEF Receives
  <2> QED BY <2>1, <2>2, Continues
<1>6. CASE Dispatch(d, i)
  <2>1. Complete(d, i) BY <1>0, <1>1, <1>3 DEF Complete, Opening
  <2> QED BY <1>6, <2>1, DispatchKeeps
<1> QED BY <1>1, <1>2, <1>4, <1>5, <1>6

LEMMA RefuseKeeps ==
  ASSUME NEW c, NEW i, IInv, Receives(c, i), Requests(c, 0), Refuse(c, i)
  PROVE  IInv' /\ Within(h2, h2')
<1>1. CASE Continue(ConnError(c, "closed")) BY <1>1, ClosedLeads, Continues
<1>2. CASE Continue(c) BY <1>2, RestLeads, Continues
<1> QED BY <1>1, <1>2 DEF Refuse

Opens(c, i, s) == [c EXCEPT !.streams = WithStream(@, i, s), !.last = i]

LEMMA Opened ==
  ASSUME NEW c \in Connection, NEW i \in Ids, i \notin Live(c), NEW s \in Stream
  PROVE  LET d == Opens(c, i, s)
         IN /\ d \in Connection /\ Live(d) = Live(c) \cup {i} /\ d.streams[i] = s
            /\ \A j \in Live(c) : d.streams[j] = c.streams[j]
            /\ d.last = i /\ d.cont = c.cont /\ d.recv = c.recv /\ d.unacked = c.unacked
            /\ d.initial = c.initial /\ d.resets = c.resets /\ d.closing = c.closing
            /\ d.freed = c.freed /\ d.told = c.told /\ d.polite = c.polite
            /\ d.inflight = c.inflight /\ d.send = c.send /\ d.peer = c.peer /\ d.torn = c.torn
<1> DEFINE f == WithStream(c.streams, i, s)
           E == Live(c) \cup {i}
           d == Opens(c, i, s)
<1>1. c.streams \in [Live(c) -> Stream] /\ Live(c) \in SUBSET Ids /\ DOMAIN c.streams = Live(c)
  BY LiveFacts
<1>2. f \in [E -> Stream] /\ f[i] = s /\ \A j \in Live(c) : f[j] = c.streams[j]
  BY <1>1 DEF WithStream
<1>3. E \in SUBSET Ids BY <1>1
<1>4. d = [c EXCEPT !.streams = f, !.last = i] BY DEF Connection, Opens
<1> HIDE DEF f, d, E
<1>5. f \in UNION {[D -> Stream] : D \in SUBSET Ids} BY <1>2, <1>3
<1>6. i \in 0..MaxStream BY Sizes DEF Ids
<1>7. d \in Connection /\ d.streams = f /\ d.last = i BY <1>4, <1>5, <1>6 DEF Connection
<1>8. /\ d.cont = c.cont /\ d.recv = c.recv /\ d.unacked = c.unacked
      /\ d.initial = c.initial /\ d.resets = c.resets /\ d.closing = c.closing
      /\ d.freed = c.freed /\ d.told = c.told /\ d.polite = c.polite
      /\ d.inflight = c.inflight /\ d.send = c.send /\ d.peer = c.peer /\ d.torn = c.torn
  BY <1>4 DEF Connection
<1>9. Live(d) = E BY <1>2, <1>7 DEF Live
<1> QED BY <1>2, <1>7, <1>8, <1>9 DEF E, d

LEMMA NewStreamFacts ==
  ASSUME NEW c \in Connection, NEW end \in BOOLEAN
  PROVE  LET s == [NewStream(c) EXCEPT !.ended = end]
         IN /\ s \in Stream /\ s.headers = FALSE /\ s.ended = end /\ s.dispatched = FALSE
            /\ s.received = 0 /\ s.recv = RecvInitial /\ s.unacked = 0
            /\ s.told = RecvInitial /\ s.sent = 0 /\ s.out = 0 /\ s.made = 0 /\ s.heads = 0
            /\ Response(s)
<1> DEFINE s == [NewStream(c) EXCEPT !.ended = end]
<1>1. c.initial \in Nat /\ c.initial \in Int BY DEF Connection
<1>2. RecvInitial \in Int /\ 0 \in Nat BY Sizes
<1>3. /\ s.headers = FALSE /\ s.ended = end /\ s.dispatched = FALSE
      /\ s.received = 0 /\ s.recv = RecvInitial /\ s.unacked = 0
      /\ s.told = RecvInitial /\ s.sent = 0 /\ s.out = 0 /\ s.made = 0 /\ s.heads = 0
      /\ s.send = c.initial /\ s.window = c.initial /\ s.held = FALSE /\ s.fin = FALSE
  BY DEF NewStream
<1>4. s \in Stream BY <1>1, <1>2 DEF Stream, NewStream
<1> HIDE DEF s
<1>5. Response(s) BY <1>3 DEF Response
<1> QED BY <1>3, <1>4, <1>5 DEF s

LEMMA NextIdsIn == ASSUME h2 \in Connection, NEW i \in NextIds PROVE i \in Ids
<1>1. h2.last + 1 \in Int /\ MaxStream \in Int BY Sizes DEF Connection
<1>2. Min({h2.last + 1, MaxStream}) <= MaxStream /\ Min({h2.last + 1, MaxStream}) \in Int
  <2> DEFINE a == h2.last + 1
  <2>1. a \in Int BY <1>1
  <2> HIDE DEF a
  <2>2. Min({a, MaxStream}) = IF a <= MaxStream THEN a ELSE MaxStream BY <1>1, <2>1, MinOfTwo
  <2>3. Min({a, MaxStream}) <= MaxStream /\ Min({a, MaxStream}) \in Int BY <1>1, <2>1, <2>2
  <2> QED BY <2>3 DEF a
<1> QED BY <1>1, <1>2 DEF NextIds, Ids

(* onHeaders, openStream. *)
LEMMA OpenStreamKeeps ==
  ASSUME IInv, NEW i \in NextIds, NEW end \in BOOLEAN, NEW whole \in BOOLEAN,
         OpenStream(i, end, whole)
  PROVE  IInv' /\ Within(h2, h2')
<1> DEFINE s == [NewStream(h2) EXCEPT !.ended = end]
           c == Opens(h2, i, s)
           k == [id |-> i, trailer |-> FALSE]
           e == [c EXCEPT !.cont = k]
<1>1. /\ Open /\ h2.cont = NoBlock /\ i > h2.last /\ Cardinality(Live(h2)) < MaxConcurrent
      /\ IF whole THEN FinishHeaders(c, i) ELSE Continue(e)
  BY DEF OpenStream, BetweenBlocks, Opens
<1>2. Handles(h2, i) /\ Requests(h2, 0) /\ Limits(h2) BY <1>1, HandlesSelf DEF IInv, Good, Requests
<1>3. h2 \in Connection BY <1>2 DEF Limits
<1>4. i \in Ids BY <1>3, NextIdsIn
<1>5. i \notin Live(h2)
  <2> SUFFICES ASSUME i \in Live(h2) PROVE FALSE
    OBVIOUS
  <2>1. i <= h2.last BY <1>2 DEF Limits
  <2> QED BY <1>1, <1>3, <1>4, <2>1 DEF Connection, Ids
<1>6. /\ s \in Stream /\ s.headers = FALSE /\ s.ended = end /\ s.dispatched = FALSE
      /\ s.received = 0 /\ s.recv = RecvInitial /\ s.unacked = 0
      /\ s.told = RecvInitial /\ s.sent = 0 /\ s.out = 0 /\ s.made = 0 /\ s.heads = 0
      /\ Response(s)
  BY <1>3, NewStreamFacts
<1> HIDE DEF s
<1>7. /\ c \in Connection /\ Live(c) = Live(h2) \cup {i} /\ c.streams[i] = s
      /\ \A j \in Live(h2) : c.streams[j] = h2.streams[j]
      /\ c.last = i /\ c.cont = h2.cont /\ c.recv = h2.recv /\ c.unacked = h2.unacked
      /\ c.initial = h2.initial /\ c.resets = h2.resets /\ c.closing = h2.closing
      /\ c.freed = h2.freed /\ c.told = h2.told /\ c.polite = h2.polite
      /\ c.inflight = h2.inflight /\ c.send = h2.send /\ c.peer = h2.peer /\ c.torn = h2.torn
  BY <1>3, <1>4, <1>5, <1>6, Opened
<1> HIDE DEF c
<1>0. c.closing = "no" /\ 0 \notin Live(c) BY <1>1, <1>7, LiveFacts DEF Open
<1>8. Limits(c)
  <2>1. Cardinality(Live(c)) <= MaxConcurrent
    <3> DEFINE m == Cardinality(Live(h2))
               n == Cardinality(Live(c))
    <3>1. n = m + 1 /\ m \in Nat /\ m < MaxConcurrent
      <4>1. IsFiniteSet(Live(h2)) /\ m \in Nat BY <1>3, LiveFacts
      <4>2. Cardinality(Live(h2) \cup {i}) = m + 1 BY <1>5, <4>1, FS_AddElement
      <4> QED BY <1>1, <1>7, <4>1, <4>2
    <3> HIDE DEF m, n
    <3>2. n <= MaxConcurrent BY <3>1, Sizes
    <3> QED BY <3>2 DEF n
  <2>2. ASSUME NEW j \in Live(c) PROVE j <= c.last /\ c.streams[j].received <= MaxBody
    <3>1. CASE j = i BY <1>4, <1>6, <1>7, <3>1, Sizes DEF Ids
    <3>2. CASE j # i
      <4>1. j \in Live(h2) /\ c.streams[j] = h2.streams[j] BY <1>7, <3>2
      <4>2. j <= h2.last /\ h2.streams[j].received <= MaxBody BY <1>2, <4>1 DEF Limits
      <4>3. j \in Int /\ h2.last \in Int /\ i \in Int
        BY <1>3, <1>4, <4>1, LiveFacts DEF Connection, Ids
      <4> QED BY <1>1, <1>7, <4>1, <4>2, <4>3
    <3> QED BY <3>1, <3>2
  <2> QED BY <1>2, <1>7, <2>1, <2>2 DEF Limits
<1>9. Total(c.streams) = Total(h2.streams)
  <2>1. Total(c.streams) = c.streams[i].received + Total(h2.streams)
    <3>1. DOMAIN h2.streams = DOMAIN c.streams \ {i} /\ i \in DOMAIN c.streams
      BY <1>3, <1>5, <1>7, TotalOf
    <3>2. \A j \in DOMAIN h2.streams : h2.streams[j].received = c.streams[j].received
      BY <1>3, <1>7, TotalOf
    <3> QED BY <1>7, <3>1, <3>2, TotalOf, TotalBut
  <2> QED BY <1>3, <1>6, <1>7, <2>1, TotalOf
<1>10. Dispatched(c.streams) = Dispatched(h2.streams)
  <2>1. /\ Dispatched(c.streams) = {j \in Live(c) : c.streams[j].dispatched}
        /\ Dispatched(h2.streams) = {j \in Live(h2) : h2.streams[j].dispatched}
    BY <1>3, <1>7, DispatchedFinite
  <2>2. \A j \in Live(c) : j = i \/ (j \in Live(h2) /\ c.streams[j] = h2.streams[j])
    <3>1. Live(c) = Live(h2) \cup {i} /\ \A j \in Live(h2) : c.streams[j] = h2.streams[j] BY <1>7
    <3> QED BY <3>1
  <2>3. ~c.streams[i].dispatched BY <1>6, <1>7
  <2>4. Live(h2) \subseteq Live(c) /\ i \notin Live(h2) BY <1>5, <1>7
  <2> QED BY <2>1, <2>2, <2>3, <2>4
<1>11. Uploads(h2, i) => Uploads(c, i) BY <1>7 DEF Uploads
<1>12. Blocks(h2, i) => Blocks(c, i) BY <1>7 DEF Blocks
<1>13. Requests(h2, i) BY <1>2 DEF Handles
<1>14. Requests(c, i) BY <1>7, <1>8, <1>9, <1>10, <1>11, <1>12, <1>13 DEF Requests
<1>15. Responses(c, 0) BY <1>2, <1>6, <1>7, <1>0 DEF Handles, Responses
<1>16. Flowing(c)
  <2> SUFFICES ASSUME Pumps, NEW j \in Live(c) PROVE Waits(c, j)
    BY DEF Flowing
  <2>1. CASE j = i BY <1>6, <1>7, <2>1 DEF Waits
  <2>2. CASE j # i
    <3>1. j \in Live(h2) /\ c.streams[j] = h2.streams[j] BY <1>7, <2>2
    <3>2. Waits(h2, j) BY <1>1, <1>2, <3>1 DEF Handles, Flowing
    <3> QED BY <1>7, <3>1, <3>2 DEF Waits, Room
  <2> QED BY <2>1, <2>2
<1>17. Handles(c, i) BY <1>2, <1>5, <1>7, <1>14, <1>15, <1>16, <1>0 DEF Handles
<1>18. i \notin h2pending
  <2>1. HandlerOf(h2, h2pending, work, i) BY <1>4 DEF IInv, Good, Handlers
  <2> QED BY <1>5, <2>1 DEF HandlerOf
<1>19. Receives(c, i) BY <1>6, <1>7, <1>17, <1>18 DEF Receives
<1>20. CASE whole
  <2>1. s.recv + s.unacked = RecvInitial /\ s.unacked < RecvInitial /\ s.told = s.recv
    BY <1>6, Sizes
  <2>2. Opening(c, i) BY <1>1, <1>7, <1>19, <2>1 DEF Opening
  <2> QED BY <1>1, <1>20, <2>2, FinishHeadersKeeps
<1>21. CASE ~whole
  <2>1. k \in [id : Nat, trailer : BOOLEAN] /\ k.id = i /\ k.trailer = FALSE BY <1>4 DEF Ids
  <2> HIDE DEF k
  <2>2. Alike(c, e) /\ e.cont = k BY <1>7, <2>1, Expects
  <2> HIDE DEF e
  <2>3. Blocks(c, i) => Blocks(e, i)
    <3> SUFFICES ASSUME Blocks(c, i), NEW j \in Live(e) \ {i}
                 PROVE  /\ e.streams[j].headers
                        /\ e.streams[j].ended => e.streams[j].dispatched
                        /\ e.streams[j].dispatched => e.streams[j].ended
                        /\ e.cont # [id |-> j, trailer |-> FALSE] /\ e.cont # [id |-> j, trailer |-> TRUE]
      BY DEF Blocks
    <3>1. e.cont # [id |-> j, trailer |-> FALSE] /\ e.cont # [id |-> j, trailer |-> TRUE]
      BY <2>1, <2>2
    <3>2. j \in Live(c) \ {i} /\ e.streams[j] = c.streams[j] BY <2>2 DEF Alike
    <3>3. c.cont # [id |-> j, trailer |-> FALSE]
      BY <1>1, <1>7, <3>2, NoBlockOf
    <3>4. /\ c.streams[j].headers
          /\ c.streams[j].ended => c.streams[j].dispatched
          /\ c.streams[j].dispatched => c.streams[j].ended
      BY <3>2, <3>3 DEF Blocks
    <3> QED BY <3>1, <3>2, <3>4
  <2>4. Requests(e, i) BY <1>14, <2>2, <2>3, AlikeKeeps
  <2>5. Receives(e, i) BY <1>17, <1>19, <2>2, <2>4, AlikeHandles DEF Receives, Alike
  <2>6. e.streams[i] = s /\ i \in Live(e) BY <1>7, <2>2 DEF Alike
  <2>7. s.recv + s.unacked = RecvInitial /\ s.unacked < RecvInitial /\ s.told = s.recv
    BY <1>6, Sizes
  <2>8. e.cont = [id |-> i, trailer |-> FALSE] /\ e.cont # [id |-> i, trailer |-> TRUE]
    BY <2>1, <2>2 DEF k
  <2>9. Requests(e, 0) BY <1>6, <2>4, <2>6, <2>7, <2>8, Settled
  <2>10. Continue(e) BY <1>1, <1>21
  <2> QED BY <2>5, <2>9, <2>10, RestLeads, Continues
<1> QED BY <1>20, <1>21

LEMMA Idle ==
  ASSUME IInv, Open, NEW i
  PROVE  /\ h2 \in Connection /\ Limits(h2) /\ Requests(h2, 0) /\ Requests(h2, i) /\ Handles(h2, i)
         /\ Responses(h2, 0) /\ Flowing(h2) /\ Handlers(h2, h2pending, work)
         /\ Uploads(h2, 0) /\ Blocks(h2, 0) /\ h2.closing = "no" /\ ~h2.freed
         /\ 0 \notin Live(h2)
<1>1. Requests(h2, 0) /\ Limits(h2) /\ h2 \in Connection BY DEF IInv, Good, Requests, Limits
<1>2. Handles(h2, i) BY HandlesSelf
<1>3. 0 \notin Live(h2) BY <1>1, LiveFacts
<1> QED BY <1>1, <1>2, <1>3 DEF IInv, Good, Requests, Handles, Open

(* A request that is not complete is with no handler. *)
LEMMA Incomplete ==
  ASSUME IInv, Open, NEW i \in Live(h2), ~h2.streams[i].ended
  PROVE  ~h2.streams[i].dispatched /\ i \notin h2pending /\ Receives(h2, i)
<1>1. Blocks(h2, 0) /\ 0 \notin Live(h2) /\ Handles(h2, i) /\ h2 \in Connection BY Idle
<1>2. ~h2.streams[i].dispatched BY <1>1 DEF Blocks
<1>3. i \in Ids BY <1>1, LiveFacts
<1>4. HandlerOf(h2, h2pending, work, i) BY <1>3, Idle DEF Handlers
<1>5. i \notin h2pending BY <1>2, <1>4 DEF HandlerOf
<1> QED BY <1>1, <1>2, <1>5 DEF Receives

LEMMA Gone ==
  ASSUME IInv, Open, NEW c, NEW i, i \notin Live(h2), Alike(h2, c), Requests(c, 0)
  PROVE  Receives(c, i)
<1>1. Handles(h2, i) BY Idle
<1>2. Requests(c, i) BY Spared
<1>3. Handles(c, i) BY <1>1, <1>2, AlikeHandles
<1>4. i \notin Live(c) BY DEF Alike
<1> QED BY <1>3, <1>4 DEF Receives

(* The block of stream i is awaited: no other stream is without its headers. *)
LEMMA Awaits ==
  ASSUME NEW c \in Connection, NEW d, NEW i, NEW b, Alike(c, d), Blocks(c, i), c.cont = NoBlock,
         d.cont = [id |-> i, trailer |-> b]
  PROVE  Blocks(d, i)
<1> SUFFICES ASSUME NEW j \in Live(d) \ {i}
             PROVE  /\ d.streams[j].headers
                    /\ d.streams[j].ended => d.streams[j].dispatched
                    /\ d.streams[j].dispatched => d.streams[j].ended
                    /\ d.cont # [id |-> j, trailer |-> FALSE] /\ d.cont # [id |-> j, trailer |-> TRUE]
  BY DEF Blocks
<1>1. d.cont # [id |-> j, trailer |-> FALSE] /\ d.cont # [id |-> j, trailer |-> TRUE] OBVIOUS
<1>2. j \in Live(c) \ {i} /\ d.streams[j] = c.streams[j] BY DEF Alike
<1>3. c.cont # [id |-> j, trailer |-> FALSE] BY <1>2, NoBlockOf
<1>4. /\ c.streams[j].headers
      /\ c.streams[j].ended => c.streams[j].dispatched
      /\ c.streams[j].dispatched => c.streams[j].ended
  BY <1>2, <1>3 DEF Blocks
<1> QED BY <1>1, <1>2, <1>4

LEMMA RefuseStreamKeeps ==
  ASSUME IInv, NEW i \in NextIds, NEW whole \in BOOLEAN, RefuseStream(i, whole)
  PROVE  IInv' /\ Within(h2, h2')
<1> DEFINE c == [h2 EXCEPT !.last = i]
           k == [id |-> i, trailer |-> FALSE]
           d == [c EXCEPT !.cont = k]
<1>1. /\ Open /\ h2.cont = NoBlock /\ i > h2.last
      /\ IF whole THEN Refuse(c, i) ELSE Continue(d)
  BY DEF RefuseStream, BetweenBlocks
<1>2. /\ h2 \in Connection /\ Limits(h2) /\ Requests(h2, 0) /\ Requests(h2, i) /\ Blocks(h2, i)
  BY <1>1, Idle DEF Requests
<1>3. i \in Ids /\ h2.last \in Int /\ i \in Int BY <1>2, NextIdsIn DEF Ids, Connection
<1>4. i \notin Live(h2)
  <2>1. i \in Live(h2) => i <= h2.last BY <1>2 DEF Limits
  <2> QED BY <1>1, <1>3, <2>1
<1>5. Alike(h2, c) /\ c.cont = h2.cont
  <2>1. h2.last < i /\ i \in 1..MaxStream BY <1>1, <1>3 DEF Ids
  <2> HIDE DEF c
  <2> QED BY <1>2, <2>1, Counts DEF c
<1> HIDE DEF c
<1>6. Blocks(h2, 0) => Blocks(c, 0) BY <1>5 DEF Blocks, Alike
<1>7. Requests(c, 0) BY <1>2, <1>5, <1>6, AlikeKeeps
<1>8. Receives(c, i) BY <1>1, <1>4, <1>5, <1>7, Gone
<1>9. CASE whole BY <1>1, <1>7, <1>8, <1>9, RefuseKeeps
<1>10. CASE ~whole
  <2>1. k \in [id : Nat, trailer : BOOLEAN] BY <1>3 DEF Ids
  <2>0. c \in Connection /\ i \notin Live(c) BY <1>4, <1>5 DEF Alike
  <2> HIDE DEF k
  <2>2. Alike(c, d) /\ d.cont = k BY <2>0, <2>1, Expects
  <2> HIDE DEF d
  <2>3. Blocks(c, i) BY <1>2, <1>5 DEF Blocks, Alike
  <2>4. Blocks(d, i) BY <1>1, <1>5, <2>0, <2>2, <2>3, Awaits DEF k
  <2>5. Blocks(d, 0)
    <3>1. i \notin Live(d) BY <2>0, <2>2 DEF Alike
    <3> QED BY <2>4, <3>1 DEF Blocks
  <2>6. Requests(d, 0) BY <1>7, <2>2, <2>5, AlikeKeeps
  <2>7. Requests(d, i) BY <2>6, Spared
  <2>8. Handles(d, i) BY <1>8, <2>2, <2>7, AlikeHandles DEF Receives
  <2>9. Receives(d, i) BY <2>0, <2>2, <2>8 DEF Receives, Alike
  <2>10. Continue(d) BY <1>1, <1>10
  <2> QED BY <2>6, <2>9, <2>10, RestLeads, Continues
<1> QED BY <1>9, <1>10

LEMMA UploadOf ==
  ASSUME NEW c \in Connection, Uploads(c, 0), NEW i \in Live(c), ~c.streams[i].ended
  PROVE  /\ c.streams[i].recv + c.streams[i].unacked = RecvInitial
         /\ c.streams[i].unacked < RecvInitial
         /\ c.streams[i].told = c.streams[i].recv
<1>1. i # 0 BY LiveFacts
<1> QED BY <1>1 DEF Uploads

LEMMA TrailersKeeps ==
  ASSUME IInv, NEW i, NEW end, NEW whole \in BOOLEAN, Trailers(i, end, whole)
  PROVE  IInv' /\ Within(h2, h2')
<1> DEFINE s == h2.streams[i]
           k == [id |-> i, trailer |-> TRUE]
           d == [h2 EXCEPT !.cont = k]
<1>1. /\ Open /\ h2.cont = NoBlock /\ i \in Live(h2)
      /\ \/ Continue(ConnError(h2, "closed"))
         \/ s.headers /\ ~s.ended /\ (IF whole THEN FinishTrailers(h2, i) ELSE Continue(d))
  BY DEF Trailers, BetweenBlocks
<1>2. CASE Continue(ConnError(h2, "closed")) BY <1>1, <1>2, CloseNow
<1>3. CASE s.headers /\ ~s.ended /\ (IF whole THEN FinishTrailers(h2, i) ELSE Continue(d))
  <2>1. Receives(h2, i) /\ ~s.dispatched BY <1>1, <1>3, Incomplete
  <2>2. h2 \in Connection /\ Uploads(h2, 0) /\ Requests(h2, i) /\ Blocks(h2, 0) /\ i \in Ids
    <3>1. h2 \in Connection BY <1>1, Idle
    <3> QED BY <1>1, <3>1, Idle, LiveFacts
  <2>3. s.recv + s.unacked = RecvInitial /\ s.unacked < RecvInitial /\ s.told = s.recv
    BY <1>1, <1>3, <2>2, UploadOf
  <2>4. CASE whole
    <3>1. Opening(h2, i) BY <1>1, <2>1, <2>3 DEF Opening
    <3> QED BY <1>3, <2>4, <3>1, FinishTrailersKeeps
  <2>5. CASE ~whole
    <3>1. k \in [id : Nat, trailer : BOOLEAN] BY <2>2 DEF Ids
    <3> HIDE DEF k
    <3>2. Alike(h2, d) /\ d.cont = k BY <2>2, <3>1, Expects
    <3>3. Continue(d) BY <1>3, <2>5
    <3> HIDE DEF d
    <3>4. Blocks(h2, i) BY <1>1, <2>2, Idle DEF Requests
    <3>5. Blocks(d, i) BY <1>1, <2>2, <3>2, <3>4, Awaits DEF k
    <3>6. Requests(d, i) BY <2>2, <3>2, <3>5, AlikeKeeps
    <3>7. Receives(d, i) BY <2>1, <3>2, <3>6, AlikeHandles DEF Receives, Alike
    <3>8. d.streams[i] = s /\ i \in Live(d) BY <1>1, <3>2 DEF Alike
    <3>9. d.cont # [id |-> i, trailer |-> FALSE]
      <4>1. k.trailer = TRUE BY DEF k
      <4> QED BY <3>2, <4>1
    <3>10. Requests(d, 0) BY <1>3, <2>1, <2>3, <3>6, <3>8, <3>9, Settled
    <3> QED BY <3>3, <3>7, <3>10, RestLeads, Continues
  <2> QED BY <2>4, <2>5
<1> QED BY <1>1, <1>2, <1>3

LEMMA ContinuationKeeps ==
  ASSUME IInv, Continuation
  PROVE  IInv' /\ Within(h2, h2')
<1> DEFINE i == h2.cont.id
           b == h2.cont.trailer
           c == [h2 EXCEPT !.cont = NoBlock]
<1>1. /\ Open /\ h2.cont # NoBlock
      /\ \/ Continue(ConnError(h2, "closed"))
         \/ i \notin Live(c) /\ Refuse(c, i)
         \/ i \in Live(c) /\ b /\ FinishTrailers(c, i)
         \/ i \in Live(c) /\ ~b /\ FinishHeaders(c, i)
  BY DEF Continuation
<1>2. /\ h2 \in Connection /\ Requests(h2, 0) /\ Requests(h2, i) /\ Handles(h2, i)
      /\ Uploads(h2, 0) /\ Blocks(h2, 0) /\ 0 \notin Live(h2)
  BY <1>1, Idle
<1>3. h2.cont \in [id : Nat, trailer : BOOLEAN] /\ NoBlock \in [id : Nat, trailer : BOOLEAN]
  BY <1>2 DEF Connection, NoBlock
<1>4. Alike(h2, c) /\ c.cont = NoBlock BY <1>2, <1>3, Expects
<1>5. i \in Nat /\ b \in BOOLEAN /\ h2.cont = [id |-> i, trailer |-> b] BY <1>3
<1> HIDE DEF c, i, b
<1>6. ASSUME NEW j \in Live(h2) \ {i}
      PROVE  /\ h2.streams[j].headers
             /\ h2.streams[j].ended => h2.streams[j].dispatched
             /\ h2.streams[j].dispatched => h2.streams[j].ended
  <2>1. h2.cont # [id |-> j, trailer |-> FALSE] BY <1>5
  <2>2. j \in Live(h2) \ {0} BY <1>2
  <2> QED BY <1>2, <2>1, <2>2 DEF Blocks
<1>7. c \in Connection /\ Live(c) = Live(h2) /\ c.streams = h2.streams BY <1>4 DEF Alike
<1>8. \A j \in Live(c) : c.cont # [id |-> j, trailer |-> FALSE] /\ c.cont # [id |-> j, trailer |-> TRUE]
  BY <1>4, <1>7, NoBlockOf
<1>9. Blocks(c, i) BY <1>6, <1>7, <1>8 DEF Blocks
<1>10. Requests(c, i) BY <1>2, <1>4, <1>9, AlikeKeeps
<1>11. Handles(c, i) BY <1>2, <1>4, <1>10, AlikeHandles
<1>12. CASE Continue(ConnError(h2, "closed")) BY <1>1, <1>12, CloseNow
<1>13. CASE i \notin Live(c) /\ Refuse(c, i)
  <2>1. Receives(c, i) BY <1>11, <1>13 DEF Receives
  <2>2. Blocks(c, 0) BY <1>9, <1>13 DEF Blocks
  <2>3. Requests(c, 0) BY <1>2, <1>4, <2>2, AlikeKeeps
  <2> QED BY <1>13, <2>1, <2>3, RefuseKeeps
<1>14. ASSUME i \in Live(c), ~b \/ ~c.streams[i].ended
       PROVE  /\ Opening(c, i)
              /\ b => c.streams[i].headers
  <2>1. i \in Live(h2) \ {0} /\ c.streams[i] = h2.streams[i] /\ i \in Ids
    <3>1. i \in Live(h2) BY <1>7, <1>14
    <3> QED BY <1>2, <1>7, <3>1, LiveFacts
  <2>2. h2.cont = [id |-> i, trailer |-> FALSE] => ~h2.streams[i].headers BY <1>2, <2>1 DEF Blocks
  <2>3. ~h2.streams[i].dispatched
    <3>1. h2.streams[i].dispatched => h2.streams[i].headers /\ h2.streams[i].ended
      BY <1>2, <2>1 DEF Blocks
    <3> QED BY <1>5, <1>14, <2>1, <2>2, <3>1
  <2>4. HandlerOf(h2, h2pending, work, i) BY <1>1, <2>1, Idle DEF Handlers
  <2>5. i \notin h2pending BY <2>3, <2>4 DEF HandlerOf
  <2>6. Receives(c, i) BY <1>11, <2>1, <2>3, <2>5 DEF Receives
  <2>7. ~c.streams[i].ended => /\ c.streams[i].recv + c.streams[i].unacked = RecvInitial
                               /\ c.streams[i].unacked < RecvInitial
                               /\ c.streams[i].told = c.streams[i].recv
    BY <1>2, <2>1, UploadOf
  <2>8. b => c.streams[i].headers
    <3>1. ~h2.streams[i].headers => h2.cont = [id |-> i, trailer |-> FALSE]
      BY <1>2, <2>1 DEF Blocks
    <3> QED BY <1>5, <2>1, <3>1
  <2> QED BY <1>4, <1>14, <2>6, <2>7, <2>8 DEF Opening
<1>15. CASE i \in Live(c) /\ b /\ FinishTrailers(c, i)
  <2>1. ~c.streams[i].ended
    <3>1. i \in Live(h2) \ {0} /\ c.streams[i] = h2.streams[i] BY <1>2, <1>7, <1>15
    <3>2. h2.cont = [id |-> i, trailer |-> TRUE] BY <1>5, <1>15
    <3> QED BY <1>2, <3>1, <3>2 DEF Blocks
  <2> QED BY <1>14, <1>15, <2>1, FinishTrailersKeeps
<1>16. CASE i \in Live(c) /\ ~b /\ FinishHeaders(c, i) BY <1>14, <1>16, FinishHeadersKeeps
<1> QED BY <1>1, <1>12, <1>13, <1>15, <1>16

-----------------------------------------------------------------------------
(* DATA: the windows it uses, and the credit that comes back. *)

Credits(c, r, t, u) == [c EXCEPT !.recv = r, !.told = t, !.unacked = u]

LEMMA CreditFacts ==
  ASSUME NEW c \in Connection, NEW r \in Int, NEW t \in Int, NEW u \in Nat
  PROVE  LET d == Credits(c, r, t, u)
         IN /\ d \in Connection /\ d.streams = c.streams /\ Live(d) = Live(c)
            /\ d.recv = r /\ d.told = t /\ d.unacked = u
            /\ d.last = c.last /\ d.cont = c.cont /\ d.initial = c.initial /\ d.resets = c.resets
            /\ d.closing = c.closing /\ d.freed = c.freed /\ d.polite = c.polite
            /\ d.inflight = c.inflight /\ d.send = c.send /\ d.peer = c.peer /\ d.torn = c.torn
<1> DEFINE d == Credits(c, r, t, u)
<1>1. /\ d \in Connection /\ d.streams = c.streams /\ d.recv = r /\ d.told = t /\ d.unacked = u
  BY DEF Credits, Connection
<1>2. /\ d.last = c.last /\ d.cont = c.cont /\ d.initial = c.initial /\ d.resets = c.resets
      /\ d.closing = c.closing /\ d.freed = c.freed /\ d.polite = c.polite
      /\ d.inflight = c.inflight /\ d.send = c.send /\ d.peer = c.peer /\ d.torn = c.torn
  BY DEF Credits, Connection
<1> HIDE DEF d
<1>3. Live(d) = Live(c) BY <1>1 DEF Live
<1> QED BY <1>1, <1>2, <1>3 DEF d

LEMMA CreditKeeps ==
  ASSUME NEW c, NEW x, NEW r \in Int, NEW t \in Int, NEW u \in Nat, Handles(c, x),
         r + u = RecvInitial, u < RecvInitial, Told => t = r
  PROVE  LET d == Credits(c, r, t, u)
         IN /\ Handles(d, x) /\ d.streams = c.streams /\ Live(d) = Live(c)
            /\ d.last = c.last /\ d.cont = c.cont
            /\ Requests(c, 0) => Requests(d, 0)
<1> DEFINE d == Credits(c, r, t, u)
<1>1. c \in Connection /\ Limits(c) /\ Requests(c, x) BY DEF Handles, Requests, Limits
<1>2. /\ d \in Connection /\ d.streams = c.streams /\ Live(d) = Live(c)
      /\ d.recv = r /\ d.told = t /\ d.unacked = u
      /\ d.last = c.last /\ d.cont = c.cont /\ d.initial = c.initial /\ d.resets = c.resets
      /\ d.closing = c.closing /\ d.freed = c.freed /\ d.polite = c.polite
      /\ d.inflight = c.inflight /\ d.send = c.send /\ d.peer = c.peer /\ d.torn = c.torn
  BY <1>1, CreditFacts
<1> HIDE DEF d
<1>3. Limits(d) BY <1>1, <1>2 DEF Limits
<1>4. ASSUME NEW y, Requests(c, y) PROVE Requests(d, y)
  <2>1. Uploads(c, y) => Uploads(d, y) BY <1>2 DEF Uploads
  <2>2. Blocks(c, y) => Blocks(d, y) BY <1>2 DEF Blocks
  <2>3. c.closing = "no" BY DEF Handles
  <2> QED BY <1>2, <1>3, <1>4, <2>1, <2>2, <2>3 DEF Requests
<1>5. Responses(d, 0) BY <1>2 DEF Handles, Responses
<1>6. Flowing(d) BY <1>2 DEF Handles, Flowing, Waits, Room
<1>7. Handles(d, x) BY <1>1, <1>2, <1>4, <1>5, <1>6 DEF Handles
<1> QED BY <1>2, <1>4, <1>7 DEF d

Used(c, i, n) == [c.streams[i] EXCEPT !.told = @ - n]

LEMMA UsedFacts ==
  ASSUME NEW c \in Connection, NEW i \in Live(c), NEW n \in Nat
  PROVE  LET s == c.streams[i]
             t == Used(c, i, n)
         IN /\ SameAnswer(s, t) /\ t.told = s.told - n
            /\ t.recv = s.recv /\ t.unacked = s.unacked /\ t.headers = s.headers /\ t.ended = s.ended
<1> DEFINE s == c.streams[i]
           t == Used(c, i, n)
<1>1. s \in Stream BY LiveFacts
<1>2. s.told - n \in Int BY <1>1 DEF Stream
<1>3. t \in Stream BY <1>1, <1>2 DEF Used, Stream
<1>4. SameAnswer(s, t) BY <1>1, <1>3 DEF Used, Stream, SameAnswer
<1>5. /\ t.told = s.told - n
      /\ t.recv = s.recv /\ t.unacked = s.unacked /\ t.headers = s.headers /\ t.ended = s.ended
  BY <1>1 DEF Used, Stream
<1> QED BY <1>4, <1>5

LEMMA ChargedIs ==
  ASSUME NEW c \in Connection, NEW i, NEW n \in Nat
  PROVE  LET b == Credits(c, c.recv - n, c.told - n, c.unacked)
         IN Charged(c, i, n) = IF i \in Live(c) THEN With(b, i, Used(c, i, n)) ELSE b
<1> DEFINE b == Credits(c, c.recv - n, c.told - n, c.unacked)
           d == [c EXCEPT !.recv = @ - n, !.told = @ - n]
<1>1. b = d BY DEF Credits, Connection
<1>2. Charged(c, i, n) = IF i \in Live(c) THEN [d EXCEPT !.streams[i].told = @ - n] ELSE d
  BY DEF Charged
<1>3. d.streams = c.streams /\ c.streams \in [Live(c) -> Stream] BY LiveFacts DEF Connection
<1> HIDE DEF d
<1>4. i \in Live(c) => [d EXCEPT !.streams[i].told = @ - n] = With(d, i, Used(c, i, n))
  BY <1>3 DEF With, Used
<1> QED BY <1>1, <1>2, <1>4

LEMMA AckConnIs ==
  ASSUME NEW c \in Connection, NEW n \in Nat
  PROVE  \E r \in Int, t \in Int, u \in Nat :
           /\ AckConn(c, n) = Credits(c, r, t, u)
           /\ r + u = c.recv + c.unacked + n /\ u < RecvInitial /\ t - r = c.told - c.recv
<1> DEFINE m == c.unacked + n
           h == RecvInitial \div 2
<1>1. /\ c.recv \in Int /\ c.told \in Int /\ c.unacked \in Nat /\ m \in Nat /\ h \in Nat
      /\ h <= RecvInitial /\ RecvInitial > 0
  BY Sizes DEF Connection
<1>2. CASE m >= h
  <2>1. AckConn(c, n) = [c EXCEPT !.recv = @ + c.unacked + n, !.told = @ + c.unacked + n, !.unacked = 0]
    BY <1>2 DEF AckConn
  <2>2. AckConn(c, n) = Credits(c, c.recv + c.unacked + n, c.told + c.unacked + n, 0)
    BY <2>1 DEF Credits
  <2>3. c.recv + c.unacked + n \in Int /\ c.told + c.unacked + n \in Int /\ 0 \in Nat BY <1>1
  <2>4. (c.told + c.unacked + n) - (c.recv + c.unacked + n) = c.told - c.recv BY <1>1
  <2> QED BY <1>1, <2>2, <2>3, <2>4
<1>3. CASE ~(m >= h)
  <2>1. AckConn(c, n) = [c EXCEPT !.unacked = @ + n] BY <1>3 DEF AckConn
  <2>2. AckConn(c, n) = Credits(c, c.recv, c.told, m)
    BY <2>1 DEF Credits, Connection
  <2>3. c.recv + m = c.recv + c.unacked + n BY <1>1
  <2>4. m < RecvInitial
    <3> HIDE DEF m, h
    <3> QED BY <1>1, <1>3, Sizes
  <2> QED BY <1>1, <2>2, <2>3, <2>4
<1> QED BY <1>2, <1>3

LEMMA CreditsTwice ==
  ASSUME NEW c \in Connection, NEW r0, NEW t0, NEW u0, NEW r, NEW t, NEW u
  PROVE  Credits(Credits(c, r0, t0, u0), r, t, u) = Credits(c, r, t, u)
BY DEF Credits, Connection

LEMMA CreditsLast ==
  ASSUME NEW c \in Connection, NEW i, NEW x, NEW r0, NEW t0, NEW u0, NEW r, NEW t, NEW u
  PROVE  Credits(With(Credits(c, r0, t0, u0), i, x), r, t, u) = Credits(With(c, i, x), r, t, u)
<1> DEFINE f == [c.streams EXCEPT ![i] = x]
           e == With(c, i, x)
           b == Credits(c, r0, t0, u0)
           g == With(b, i, x)
<1>1. b.streams = c.streams BY DEF Credits, Connection
<1>2. g = [b EXCEPT !.streams = f] BY <1>1 DEF With
<1>3. e = [c EXCEPT !.streams = f] BY DEF With
<1> HIDE DEF f, g, e
<1>4. Credits(g, r, t, u) = Credits(e, r, t, u) BY <1>2, <1>3 DEF Credits, Connection
<1> QED BY <1>4 DEF g, e

LEMMA ArrivedHandles ==
  ASSUME IInv, Open, NEW i, NEW n \in Nat
  PROVE  LET d == Arrived(h2, i, n)
         IN /\ Handles(d, i) /\ Live(d) = Live(h2) /\ d.last = h2.last /\ d.cont = h2.cont
            /\ i \notin Live(h2) => Requests(d, 0)
            /\ i \in Live(h2) => d.streams[i] = Used(h2, i, n)
            /\ \A j \in Live(h2) \ {i} : d.streams[j] = h2.streams[j]
<1> DEFINE a == Charged(h2, i, n)
           d == Arrived(h2, i, n)
           r0 == h2.recv - n
           t0 == h2.told - n
           b == Credits(h2, r0, t0, h2.unacked)
           x == Used(h2, i, n)
           e == With(h2, i, x)
<1>1. /\ h2 \in Connection /\ Limits(h2) /\ Requests(h2, 0) /\ Handles(h2, i) /\ Uploads(h2, 0)
  BY Idle
<1>2. /\ h2.recv \in Int /\ h2.told \in Int /\ h2.unacked \in Nat /\ r0 \in Int /\ t0 \in Int
      /\ h2.recv + h2.unacked = RecvInitial /\ (Told => h2.told = h2.recv)
  BY <1>1 DEF Connection, Limits, Uploads
<1>3. a = IF i \in Live(h2) THEN With(b, i, x) ELSE b BY <1>1, ChargedIs
<1>4. /\ b \in Connection /\ b.streams = h2.streams /\ Live(b) = Live(h2)
      /\ b.recv = r0 /\ b.told = t0 /\ b.unacked = h2.unacked
  <2> HIDE DEF r0, t0
  <2> QED BY <1>1, <1>2, CreditFacts
<1>5. d = AckConn(a, n) BY DEF Arrived
<1> HIDE DEF a, b, d, x
<1>6. CASE i \notin Live(h2)
  <2>1. a = b BY <1>3, <1>6
  <2>2. PICK r \in Int, t \in Int, u \in Nat :
          /\ d = Credits(b, r, t, u)
          /\ r + u = b.recv + b.unacked + n /\ u < RecvInitial /\ t - r = b.told - b.recv
    BY <1>4, <1>5, <2>1, AckConnIs
  <2>3. d = Credits(h2, r, t, u)
    <3> DEFINE u0 == h2.unacked
    <3>1. b = Credits(h2, r0, t0, u0) BY DEF b
    <3> HIDE DEF r0, t0, u0
    <3>2. Credits(Credits(h2, r0, t0, u0), r, t, u) = Credits(h2, r, t, u) BY <1>1, CreditsTwice
    <3> QED BY <2>2, <3>1, <3>2
  <2>4. r + u = RecvInitial /\ (Told => t = r) BY <1>2, <1>4, <2>2, Sizes
  <2>5. /\ Handles(d, i) /\ d.streams = h2.streams /\ Live(d) = Live(h2)
        /\ d.last = h2.last /\ d.cont = h2.cont /\ Requests(d, 0)
    <3>1. u < RecvInitial /\ r + u = RecvInitial /\ (Told => t = r) BY <2>2, <2>4
    <3>2. Handles(h2, i) /\ Requests(h2, 0) BY <1>1
    <3> DEFINE g == Credits(h2, r, t, u)
    <3>3. /\ Handles(g, i) /\ g.streams = h2.streams /\ Live(g) = Live(h2)
          /\ g.last = h2.last /\ g.cont = h2.cont
          /\ Requests(h2, 0) => Requests(g, 0)
      BY <3>1, <3>2, CreditKeeps
    <3>4. d = g BY <2>3
    <3> HIDE DEF g
    <3> QED BY <3>2, <3>3, <3>4
  <2> QED BY <1>6, <2>5 DEF d
<1>7. CASE i \in Live(h2)
  <2>0. SameAnswer(h2.streams[i], x) /\ x \in Stream
    BY <1>1, <1>7, UsedFacts DEF x, SameAnswer
  <2>1. a = With(b, i, x) BY <1>3, <1>7
  <2>b. /\ a \in Connection /\ SameConnection(b, a) BY <1>4, <1>7, <2>0, <2>1, WithFacts
  <2>2. PICK r \in Int, t \in Int, u \in Nat :
          /\ d = Credits(a, r, t, u)
          /\ r + u = a.recv + a.unacked + n /\ u < RecvInitial /\ t - r = a.told - a.recv
    BY <1>5, <2>b, AckConnIs
  <2>3. d = Credits(e, r, t, u)
    <3> DEFINE u0 == h2.unacked
    <3>1. b = Credits(h2, r0, t0, u0) BY DEF b
    <3> HIDE DEF r0, t0, u0, e
    <3>2. Credits(With(Credits(h2, r0, t0, u0), i, x), r, t, u) = Credits(With(h2, i, x), r, t, u)
      BY <1>1, CreditsLast
    <3> QED BY <2>1, <2>2, <3>1, <3>2 DEF e
  <2>4. a.recv = r0 /\ a.told = t0 /\ a.unacked = h2.unacked BY <1>4, <2>b DEF SameConnection
  <2>5. r + u = RecvInitial /\ (Told => t = r) BY <1>2, <2>2, <2>4, Sizes
  <2>6. /\ Handles(e, i) /\ Live(e) = Live(h2) /\ e.streams[i] = x
        /\ \A j \in Live(h2) \ {i} : e.streams[j] = h2.streams[j]
        /\ SameConnection(h2, e)
    BY <1>1, <1>7, <2>0, MarkedHandles
  <2> HIDE DEF e
  <2>7. /\ Handles(d, i) /\ d.streams = e.streams /\ Live(d) = Live(e)
        /\ d.last = e.last /\ d.cont = e.cont
    BY <2>2, <2>3, <2>5, <2>6, CreditKeeps
  <2> QED BY <1>7, <2>6, <2>7 DEF d, x, SameConnection
<1> QED BY <1>6, <1>7

LEMMA DataRefusedKeeps ==
  ASSUME IInv, NEW i \in NextIds, NEW n \in Payloads, DataRefused(i, n)
  PROVE  IInv' /\ Within(h2, h2')
<1> DEFINE d == Arrived(h2, i, n)
           c == Charged(h2, i, n)
<1>1. Open /\ n \in Nat BY Sizes DEF DataRefused, BetweenBlocks
<1>2. \/ n > h2.recv /\ Continue(ConnError(c, "flow"))
      \/ Continue(ConnError(d, "closed"))
      \/ i \notin Live(h2) /\ Continue(d)
      \/ i \in Live(h2) /\ Continue(StreamError(d, i))
  BY DEF DataRefused
<1>3. /\ Handles(d, i) /\ Live(d) = Live(h2) /\ d.last = h2.last /\ d.cont = h2.cont
      /\ i \notin Live(h2) => Requests(d, 0)
      /\ i \in Live(h2) => d.streams[i] = Used(h2, i, n)
      /\ \A j \in Live(h2) \ {i} : d.streams[j] = h2.streams[j]
  BY <1>1, ArrivedHandles
<1>4. /\ h2 \in Connection /\ Limits(h2) /\ Requests(h2, 0) /\ Handles(h2, i) /\ Uploads(h2, 0)
      /\ h2.closing = "no" /\ ~h2.freed /\ Responses(h2, 0)
  BY <1>1, Idle
<1>u. i \in Live(h2) => SameAnswer(h2.streams[i], Used(h2, i, n)) BY <1>1, <1>4, UsedFacts
<1>x. \A j \in Live(h2) : Undisturbed(h2.streams[j], h2.streams[j])
  BY <1>4, LiveFacts DEF Undisturbed, Stream
<1> HIDE DEF c, d
<1>5. CASE n > h2.recv /\ Continue(ConnError(c, "flow"))
  <2> DEFINE r0 == h2.recv - n
             t0 == h2.told - n
             b == Credits(h2, r0, t0, h2.unacked)
             x == Used(h2, i, n)
  <2>1. r0 \in Int /\ t0 \in Int /\ h2.unacked \in Nat /\ r0 < 0 /\ (Told => t0 = r0)
    BY <1>1, <1>4, <1>5 DEF Connection, Limits
  <2>2. c = IF i \in Live(h2) THEN With(b, i, x) ELSE b BY <1>1, <1>4, ChargedIs DEF c
  <2> HIDE DEF r0, t0
  <2>3. /\ b \in Connection /\ b.streams = h2.streams /\ Live(b) = Live(h2)
        /\ b.recv = r0 /\ b.told = t0 /\ b.last = h2.last /\ b.inflight = h2.inflight
        /\ b.send = h2.send /\ b.peer = h2.peer /\ b.torn = h2.torn
        /\ b.closing = h2.closing /\ b.freed = h2.freed
    BY <1>4, <2>1, CreditFacts
  <2> HIDE DEF b
  <2>4. /\ c \in Connection /\ Live(c) = Live(h2)
        /\ \A j \in Live(h2) \ {i} : c.streams[j] = h2.streams[j]
        /\ i \in Live(h2) => SameAnswer(h2.streams[i], c.streams[i])
        /\ c.recv = r0 /\ c.told = t0 /\ c.last = h2.last /\ c.inflight = h2.inflight
        /\ c.send = h2.send /\ c.peer = h2.peer /\ c.torn = h2.torn
        /\ c.closing = "no" /\ ~c.freed
    <3>1. CASE i \notin Live(h2) BY <1>4, <2>2, <2>3, <3>1
    <3>2. CASE i \in Live(h2)
      <4>1. x \in Stream /\ SameAnswer(h2.streams[i], x) BY <1>u, <3>2 DEF SameAnswer
      <4> HIDE DEF x
      <4>2. /\ c \in Connection /\ Live(c) = Live(b) /\ c.streams[i] = x
            /\ \A j \in Live(b) \ {i} : c.streams[j] = b.streams[j]
            /\ SameConnection(b, c) /\ c.inflight = b.inflight
            /\ c.send = b.send /\ c.peer = b.peer /\ c.torn = b.torn
        BY <2>2, <2>3, <3>2, <4>1, WithFacts
      <4> QED BY <1>4, <2>3, <4>1, <4>2 DEF SameConnection
    <3> QED BY <3>1, <3>2
  <2>5. \A j \in Live(h2) : c.streams[j] = h2.streams[j] \/ SameAnswer(h2.streams[j], c.streams[j])
    BY <2>4
  <2>6. Limits(c)
    <3>1. \A j \in Live(c) : c.streams[j].received = h2.streams[j].received
      BY <2>4, <2>5 DEF SameAnswer
    <3> QED BY <1>4, <2>1, <2>4, <3>1 DEF Limits
  <2>7. Responses(c, 0)
    <3>1. ASSUME NEW j \in Live(h2), Response(h2.streams[j]) PROVE Response(c.streams[j])
      BY <2>5, <3>1 DEF SameAnswer, Response
    <3> QED BY <1>4, <2>4, <3>1 DEF Responses
  <2>8. ASSUME NEW j \in Live(h2)
        PROVE  Undisturbed(h2.streams[j], c.streams[j]) /\ c.streams[j].sent = h2.streams[j].sent
    BY <1>4, <1>x, <2>5, LiveFacts DEF SameAnswer, Undisturbed
  <2> DEFINE code == "flow"
  <2>9. code \in {"closed", "flow", "calm"} /\ code = "flow" /\ code # "calm" OBVIOUS
  <2>10. Continue(ConnError(c, code)) BY <1>5
  <2> HIDE DEF code
  <2>11. Told => c.told < 0 BY <2>1, <2>4
  <2>12. Leads(ConnError(c, code))
    BY <2>4, <2>6, <2>7, <2>8, <2>9, <2>11, ErrorLeads
  <2> QED BY <2>10, <2>12, Continues
<1>6. CASE Continue(ConnError(d, "closed"))
  <2> DEFINE code == "closed"
  <2>1. code \in {"closed", "flow", "calm"} /\ code # "flow" /\ code # "calm" OBVIOUS
  <2>2. Continue(ConnError(d, code)) BY <1>6
  <2> HIDE DEF code
  <2>3. Limits(d) /\ Responses(d, 0) /\ d.closing = "no" /\ ~d.freed BY <1>3 DEF Handles, Requests
  <2>4. ASSUME NEW j \in Live(d)
        PROVE  j \in Live(h2) /\ Undisturbed(h2.streams[j], d.streams[j])
    <3>1. CASE j # i BY <1>3, <3>1 DEF Handles
    <3>2. CASE j = i
      <4>1. d.streams[i] = Used(h2, i, n) /\ i \in Live(h2) BY <1>3, <2>4, <3>2
      <4>2. SameAnswer(h2.streams[i], d.streams[i]) BY <1>u, <4>1
      <4> QED BY <1>x, <3>2, <4>1, <4>2 DEF SameAnswer, Undisturbed
    <3> QED BY <3>1, <3>2
  <2>5. Leads(ConnError(d, code)) BY <1>3, <2>1, <2>3, <2>4, ErrorLeads DEF Handles
  <2> QED BY <2>2, <2>5, Continues
<1>7. CASE i \notin Live(h2) /\ Continue(d)
  <2>1. Receives(d, i) /\ Requests(d, 0) BY <1>3, <1>7 DEF Receives
  <2> QED BY <1>7, <2>1, RestLeads, Continues
<1>8. CASE i \in Live(h2) /\ Continue(StreamError(d, i))
  <2>1. Leads(CloseStream(d, i)) BY <1>3, <1>8, EndLeads
  <2> QED BY <1>8, <2>1, Continues DEF StreamError
<1> QED BY <1>2, <1>5, <1>6, <1>7, <1>8
(* DATA that is taken: n bytes of credit, k of them for the body. *)
Stored(c, i, k) == [c EXCEPT !.streams[i].received = @ + k, !.inflight = @ + k]

LEMMA TotalMore ==
  ASSUME NEW c \in Connection, NEW d \in Connection, NEW i \in Live(c), NEW k \in Nat,
         Live(d) = Live(c), \A j \in Live(c) \ {i} : d.streams[j] = c.streams[j],
         d.streams[i].received = c.streams[i].received + k
  PROVE  Total(d.streams) = Total(c.streams) + k
<1> DEFINE f == c.streams
           g == d.streams
           e == [j \in DOMAIN f \ {i} |-> f[j]]
<1>1. /\ IsFiniteSet(DOMAIN f) /\ DOMAIN f = Live(c) /\ \A j \in DOMAIN f : f[j].received \in Nat
      /\ Total(f) \in Nat
  BY TotalOf
<1>2. /\ IsFiniteSet(DOMAIN g) /\ DOMAIN g = Live(c) /\ \A j \in DOMAIN g : g[j].received \in Nat
      /\ Total(g) \in Nat
  BY TotalOf
<1>3. DOMAIN e = DOMAIN f \ {i} /\ \A j \in DOMAIN e : e[j] = f[j] OBVIOUS
<1>4. \A j \in Live(c) \ {i} : g[j] = f[j] OBVIOUS
<1>5. g[i].received = f[i].received + k OBVIOUS
<1> HIDE DEF f, g, e
<1>6. Total(f) = f[i].received + Total(e)
  <2>1. i \in DOMAIN f /\ \A j \in DOMAIN e : e[j].received = f[j].received BY <1>1, <1>3
  <2> QED BY <1>1, <1>3, <2>1, TotalBut
<1>7. Total(g) = g[i].received + Total(e)
  <2>1. i \in DOMAIN g /\ DOMAIN e = DOMAIN g \ {i} BY <1>1, <1>2, <1>3
  <2>2. \A j \in DOMAIN e : e[j].received = g[j].received BY <1>1, <1>3, <1>4
  <2> QED BY <1>2, <2>1, <2>2, TotalBut
<1>8. Total(e) \in Nat
  <2>1. IsFiniteSet(DOMAIN e) BY <1>1, <1>3, FS_Subset
  <2> QED BY <1>1, <1>3, <2>1, TotalNat
<1>9. f[i].received \in Nat BY <1>1
<1>10. Total(g) = Total(f) + k BY <1>5, <1>6, <1>7, <1>8, <1>9
<1> QED BY <1>10 DEF f, g

LEMMA StoredFacts ==
  ASSUME NEW c \in Connection, NEW i \in Live(c), NEW k \in Nat
  PROVE  LET d == Stored(c, i, k)
             s == c.streams[i]
             t == d.streams[i]
         IN /\ d \in Connection /\ Live(d) = Live(c)
            /\ \A j \in Live(c) \ {i} : d.streams[j] = c.streams[j]
            /\ t.received = s.received + k /\ t.dispatched = s.dispatched
            /\ t.headers = s.headers /\ t.ended = s.ended
            /\ t.recv = s.recv /\ t.unacked = s.unacked /\ t.told = s.told
            /\ t.send = s.send /\ t.window = s.window /\ t.sent = s.sent /\ t.out = s.out
            /\ t.held = s.held /\ t.fin = s.fin /\ t.heads = s.heads /\ t.made = s.made
            /\ SameConnection(c, d) /\ d.inflight = c.inflight + k
            /\ d.send = c.send /\ d.peer = c.peer /\ d.torn = c.torn
<1> DEFINE s == c.streams[i]
           t == [s EXCEPT !.received = @ + k]
           m == c.inflight + k
           e == With(c, i, t)
           d == Stored(c, i, k)
<1>1. s \in Stream /\ m \in Nat /\ c.streams \in [Live(c) -> Stream] BY LiveFacts DEF Connection
<1>2. s.received + k \in Nat BY <1>1 DEF Stream
<1>3. t \in Stream BY <1>1, <1>2 DEF Stream
<1>4. /\ t.received = s.received + k /\ t.dispatched = s.dispatched
      /\ t.headers = s.headers /\ t.ended = s.ended
      /\ t.recv = s.recv /\ t.unacked = s.unacked /\ t.told = s.told
      /\ t.send = s.send /\ t.window = s.window /\ t.sent = s.sent /\ t.out = s.out
      /\ t.held = s.held /\ t.fin = s.fin /\ t.heads = s.heads /\ t.made = s.made
  BY <1>1 DEF Stream
<1>5. d = [e EXCEPT !.inflight = m] BY <1>1 DEF Stored, With, Connection
<1> HIDE DEF t, d, m
<1>6. /\ e \in Connection /\ Live(e) = Live(c) /\ e.streams[i] = t
      /\ \A j \in Live(c) \ {i} : e.streams[j] = c.streams[j]
      /\ SameConnection(c, e)
      /\ e.send = c.send /\ e.peer = c.peer /\ e.torn = c.torn
  BY <1>3, WithFacts
<1> HIDE DEF e, s
<1>7. /\ d \in Connection /\ d.streams = e.streams /\ d.inflight = m
      /\ d.send = e.send /\ d.peer = e.peer /\ d.torn = e.torn
  BY <1>1, <1>5, <1>6 DEF Connection
<1>8. SameConnection(e, d) BY <1>5, <1>6 DEF Connection, SameConnection
<1>9. Live(d) = Live(e) BY <1>7 DEF Live
<1>10. SameConnection(c, d) BY <1>6, <1>8 DEF SameConnection
<1>11. d.streams[i] = t /\ \A j \in Live(c) \ {i} : d.streams[j] = c.streams[j] BY <1>6, <1>7
<1> QED BY <1>4, <1>6, <1>7, <1>9, <1>10, <1>11 DEF d, m, s

LEMMA StoredReceives ==
  ASSUME NEW c, NEW i \in Live(c), NEW k \in Nat, Receives(c, i), ~TooLarge(c, i, k)
  PROVE  Receives(Stored(c, i, k), i)
<1> DEFINE d == Stored(c, i, k)
           s == c.streams[i]
           t == d.streams[i]
<1>r. /\ Handles(c, i) /\ Requests(c, i) /\ Responses(c, 0) /\ Flowing(c) /\ Limits(c) /\ c \in Connection
      /\ c.closing = "no"
  BY DEF Receives, Handles, Requests, Limits
<1>0. 0 \notin Live(c) /\ s \in Stream BY <1>r, LiveFacts
<1>1. /\ d \in Connection /\ Live(d) = Live(c)
      /\ \A j \in Live(c) \ {i} : d.streams[j] = c.streams[j]
      /\ t.received = s.received + k /\ t.dispatched = s.dispatched
      /\ t.headers = s.headers /\ t.ended = s.ended
      /\ t.recv = s.recv /\ t.unacked = s.unacked /\ t.told = s.told
      /\ t.send = s.send /\ t.window = s.window /\ t.sent = s.sent /\ t.out = s.out
      /\ t.held = s.held /\ t.fin = s.fin /\ t.heads = s.heads /\ t.made = s.made
      /\ SameConnection(c, d) /\ d.inflight = c.inflight + k
      /\ d.send = c.send /\ d.peer = c.peer /\ d.torn = c.torn
  BY <1>r, StoredFacts
<1> HIDE DEF d
<1>2. \A j \in Live(c) : /\ d.streams[j].dispatched = c.streams[j].dispatched
                         /\ d.streams[j].sent = c.streams[j].sent
                         /\ d.streams[j].out = c.streams[j].out /\ d.streams[j].send = c.streams[j].send
  <2> SUFFICES ASSUME NEW j \in Live(c)
               PROVE  /\ d.streams[j].dispatched = c.streams[j].dispatched
                      /\ d.streams[j].sent = c.streams[j].sent
                      /\ d.streams[j].out = c.streams[j].out /\ d.streams[j].send = c.streams[j].send
    OBVIOUS
  <2>1. CASE j = i BY <1>1, <2>1
  <2>2. CASE j # i BY <1>1, <2>2
  <2> QED BY <2>1, <2>2
<1>3. Total(d.streams) = Total(c.streams) + k BY <1>r, <1>1, TotalMore
<1>4. Dispatched(d.streams) = Dispatched(c.streams) BY <1>r, <1>1, <1>2, SameDispatched
<1>5. Limits(d)
  <2>1. c.inflight + k <= BodyBudget /\ s.received + k <= MaxBody
    <3>1. c.inflight \in Nat /\ s.received \in Nat /\ BodyBudget \in Nat /\ MaxBody \in Nat
      BY <1>r, <1>0, Sizes DEF Connection, Stream
    <3>2. ~(c.inflight + k > BodyBudget) /\ ~(s.received + k > MaxBody) BY DEF TooLarge
    <3> QED BY <3>1, <3>2
  <2>2. \A j \in Live(c) : d.streams[j].received <= MaxBody
    BY <1>r, <1>1, <2>1 DEF Limits
  <2> QED BY <1>r, <1>1, <2>1, <2>2 DEF Limits, SameConnection
<1>6. Uploads(c, i) => Uploads(d, i) BY <1>1 DEF Uploads, SameConnection
<1>7. Blocks(c, i) => Blocks(d, i) BY <1>1, SameBlocks DEF SameConnection
<1>8. Requests(d, i) BY <1>r, <1>1, <1>3, <1>4, <1>5, <1>6, <1>7 DEF Requests, SameConnection
<1>9. Responses(d, 0)
  <2>1. Response(t) BY <1>r, <1>0, <1>1 DEF Responses, Response
  <2> QED BY <1>r, <1>1, <2>1 DEF Responses
<1>10. Flowing(d)
  <2>1. \A j \in Live(d) : Waits(c, j) => Waits(d, j) BY <1>1, <1>2 DEF Waits, Room
  <2> QED BY <1>r, <1>1, <2>1 DEF Flowing, SameConnection
<1>11. Handles(d, i) BY <1>r, <1>1, <1>2, <1>8, <1>9, <1>10 DEF Handles, SameConnection
<1> QED BY <1>1, <1>11 DEF d, Receives

LEMMA AckStreamIs ==
  ASSUME NEW c \in Connection, NEW i \in Live(c), NEW n \in Nat, ~c.streams[i].ended
  PROVE  \E t \in Stream :
           LET s == c.streams[i]
           IN /\ AckStream(c, i, n) = With(c, i, t) /\ SameAnswer(s, t)
              /\ t.headers = s.headers /\ t.ended = s.ended
              /\ t.recv + t.unacked = s.recv + s.unacked + n
              /\ t.unacked < RecvInitial /\ t.told - t.recv = s.told - s.recv
<1> DEFINE s == c.streams[i]
           m == s.unacked + n
           h == RecvInitial \div 2
<1>1. s \in Stream /\ c.streams \in [Live(c) -> Stream] BY LiveFacts
<1>2. /\ s.recv \in Int /\ s.told \in Int /\ s.unacked \in Nat /\ m \in Nat /\ h \in Nat
      /\ h <= RecvInitial /\ RecvInitial > 0
  BY <1>1, Sizes DEF Stream
<1>3. CASE m >= h
  <2> DEFINE r == s.recv + s.unacked + n
             u == s.told + s.unacked + n
             t == [s EXCEPT !.recv = r, !.told = u, !.unacked = 0]
  <2>2. AckStream(c, i, n) = With(c, i, t) BY <1>3 DEF AckStream, With
  <2>3. r \in Int /\ u \in Int /\ u - r = s.told - s.recv BY <1>2
  <2> HIDE DEF r, u
  <2>4. t \in Stream BY <1>1, <2>3 DEF Stream
  <2>5. SameAnswer(s, t) BY <1>1, <2>4 DEF Stream, SameAnswer
  <2>6. t.headers = s.headers /\ t.ended = s.ended /\ t.recv = r /\ t.told = u /\ t.unacked = 0
    BY <1>1 DEF Stream
  <2> HIDE DEF t
  <2>7. t.recv + t.unacked = s.recv + s.unacked + n BY <1>2, <2>3, <2>6 DEF r
  <2> QED BY <1>2, <2>2, <2>3, <2>4, <2>5, <2>6, <2>7
<1>4. CASE ~(m >= h)
  <2> DEFINE t == [s EXCEPT !.unacked = m]
  <2>2. AckStream(c, i, n) = With(c, i, t) BY <1>4 DEF AckStream, With
  <2>3. m < RecvInitial
    <3> HIDE DEF m, h
    <3> QED BY <1>2, <1>4, Sizes
  <2>7. s.recv + m = s.recv + s.unacked + n BY <1>2
  <2> HIDE DEF m
  <2>4. t \in Stream BY <1>1, <1>2 DEF Stream
  <2>5. SameAnswer(s, t) BY <1>1, <2>4 DEF Stream, SameAnswer
  <2>6. t.headers = s.headers /\ t.ended = s.ended /\ t.recv = s.recv /\ t.told = s.told /\ t.unacked = m
    BY <1>1 DEF Stream
  <2> HIDE DEF t
  <2> QED BY <2>2, <2>3, <2>4, <2>5, <2>6, <2>7
<1> QED BY <1>3, <1>4

LEMMA TakenFacts ==
  ASSUME NEW c \in Connection, NEW i \in Live(c), NEW n \in Nat
  PROVE  \E t \in Stream :
           LET s == c.streams[i]
           IN /\ [c EXCEPT !.streams[i].recv = @ - n] = With(c, i, t) /\ SameAnswer(s, t)
              /\ t.headers = s.headers /\ t.ended = s.ended
              /\ t.recv = s.recv - n /\ t.unacked = s.unacked /\ t.told = s.told
<1> DEFINE s == c.streams[i]
           r == s.recv - n
           t == [s EXCEPT !.recv = r]
<1>1. s \in Stream /\ c.streams \in [Live(c) -> Stream] BY LiveFacts
<1>2. r \in Int BY <1>1 DEF Stream
<1>3. [c EXCEPT !.streams[i].recv = @ - n] = With(c, i, t) BY <1>1 DEF With, Connection
<1> HIDE DEF r
<1>4. t \in Stream BY <1>1, <1>2 DEF Stream
<1>5. SameAnswer(s, t) BY <1>1, <1>4 DEF Stream, SameAnswer
<1>6. /\ t.headers = s.headers /\ t.ended = s.ended
      /\ t.recv = r /\ t.unacked = s.unacked /\ t.told = s.told
  BY <1>1 DEF Stream
<1> QED BY <1>3, <1>4, <1>5, <1>6 DEF r

(* onDataFrame, of a body within its limits or not. *)
LEMMA DataKeeps ==
  ASSUME IInv, NEW i \in NextIds, NEW n \in Payloads, NEW k \in {0, n}, NEW end \in BOOLEAN,
         Data(i, n, k, end)
  PROVE  IInv' /\ Within(h2, h2')
<1> DEFINE a == Arrived(h2, i, n)
           s == h2.streams[i]
           c == [a EXCEPT !.streams[i].recv = @ - n]
           b == Stored(c, i, k)
           d == AckStream(b, i, n)
           e == [d EXCEPT !.streams[i].ended = TRUE]
<1>1. /\ Open /\ h2.cont = NoBlock /\ i \in Live(h2) /\ ~s.ended /\ n \in Nat /\ k \in Nat
  <2>1. n \in Nat /\ k \in Nat BY Sizes
  <2> HIDE DEF a, b, c, d, e
  <2>2. BetweenBlocks /\ i \in Live(h2) /\ ~h2.streams[i].ended BY DEF Data
  <2> QED BY <2>1, <2>2 DEF BetweenBlocks
<1>2. /\ TooLarge(c, i, k) => Continue(RejectOversized(c, i))
      /\ ~TooLarge(c, i, k) /\ ~end => Continue(d)
      /\ ~TooLarge(c, i, k) /\ end =>
           \/ Continue(StreamError(e, i))
           \/ IF e.streams[i].headers THEN Dispatch(e, i) ELSE Continue(e)
  BY DEF Data, Stored
<1>3. /\ h2 \in Connection /\ Uploads(h2, 0) /\ Blocks(h2, 0) /\ 0 \notin Live(h2) BY <1>1, Idle
<1>4. ~s.dispatched /\ i \notin h2pending BY <1>1, Incomplete
<1>5. /\ s.recv + s.unacked = RecvInitial /\ s.unacked < RecvInitial /\ s.told = s.recv
  BY <1>1, <1>3, UploadOf
<1>6. s.headers
  <2>1. h2.cont # [id |-> i, trailer |-> FALSE] BY <1>1, <1>3, NoBlockOf
  <2> QED BY <1>1, <1>3, <2>1 DEF Blocks
<1>s. /\ s \in Stream /\ s.recv \in Int /\ s.unacked \in Nat /\ s.told \in Int
  BY <1>1, <1>3, LiveFacts DEF Stream
<1>7. /\ Handles(a, i) /\ Live(a) = Live(h2) /\ a.cont = h2.cont /\ a.streams[i] = Used(h2, i, n)
  BY <1>1, ArrivedHandles
<1>8. LET x == a.streams[i]
      IN /\ ~x.dispatched /\ x.headers /\ ~x.ended
         /\ x.recv = s.recv /\ x.unacked = s.unacked /\ x.told = s.told - n
  BY <1>1, <1>3, <1>4, <1>6, <1>7, UsedFacts DEF SameAnswer
<1>9. Receives(a, i) /\ a \in Connection /\ i \in Live(a) /\ a.cont = NoBlock
  BY <1>1, <1>4, <1>7, <1>8 DEF Receives, Handles, Requests, Limits
<1> HIDE DEF a
<1>10. PICK x \in Stream :
         /\ c = With(a, i, x) /\ SameAnswer(a.streams[i], x)
         /\ x.headers /\ ~x.ended
         /\ x.recv = s.recv - n /\ x.unacked = s.unacked /\ x.told = s.told - n
  BY <1>1, <1>8, <1>9, TakenFacts
<1> HIDE DEF c
<1>11. Receives(c, i) /\ i \in Live(c) /\ c.cont = NoBlock /\ c.streams[i] = x
  BY <1>9, <1>10, MarkedReceives
<1>12. CASE TooLarge(c, i, k)
  <2>1. Leads(RejectOversized(c, i)) BY <1>11, RejectLeads
  <2> QED BY <1>2, <1>12, <2>1, Continues
<1>13. CASE ~TooLarge(c, i, k)
  <2>1. c \in Connection BY <1>11 DEF Receives, Handles, Requests, Limits
  <2>2. Receives(b, i) BY <1>1, <1>11, <1>13, StoredReceives
  <2>3. LET y == b.streams[i]
        IN /\ i \in Live(b) /\ b.cont = NoBlock /\ b \in Connection
           /\ y.headers /\ ~y.ended
           /\ y.recv = s.recv - n /\ y.unacked = s.unacked /\ y.told = s.told - n
    BY <1>1, <1>10, <1>11, <2>1, StoredFacts DEF SameConnection
  <2> HIDE DEF b
  <2>4. PICK z \in Stream :
          /\ d = With(b, i, z) /\ SameAnswer(b.streams[i], z)
          /\ z.headers /\ ~z.ended
          /\ z.recv + z.unacked = b.streams[i].recv + b.streams[i].unacked + n
          /\ z.unacked < RecvInitial
          /\ z.told - z.recv = b.streams[i].told - b.streams[i].recv
    <3>1. b \in Connection /\ i \in Live(b) /\ ~b.streams[i].ended BY <2>3
    <3> QED BY <1>1, <2>3, <3>1, AckStreamIs
  <2>5. z.recv \in Int /\ z.told \in Int /\ z.unacked \in Nat BY DEF Stream
  <2>6. z.recv + z.unacked = RecvInitial /\ z.told = z.recv
    <3>1. z.recv + z.unacked = (s.recv - n) + s.unacked + n BY <2>3, <2>4
    <3>2. z.told - z.recv = (s.told - n) - (s.recv - n) BY <2>3, <2>4
    <3> QED BY <1>1, <1>5, <1>s, <2>5, <3>1, <3>2
  <2> HIDE DEF d
  <2>7. Receives(d, i) /\ i \in Live(d) /\ d.cont = NoBlock /\ d.streams[i] = z
    BY <2>2, <2>3, <2>4, MarkedReceives
  <2>8. d \in Connection /\ Requests(d, i) BY <2>7 DEF Receives, Handles, Requests, Limits
  <2>9. CASE ~end
    <3>1. \A t : d.cont # [id |-> i, trailer |-> t] BY <2>7, <2>8, NoBlockOf
    <3>2. ~d.streams[i].dispatched BY <2>7 DEF Receives
    <3>3. Requests(d, 0) BY <2>4, <2>6, <2>7, <2>8, <3>1, <3>2, Settled
    <3>4. Leads(d) BY <2>7, <3>3, RestLeads
    <3> QED BY <1>2, <1>13, <2>9, <3>4, Continues
  <2>10. CASE end
    <3>1. PICK u \in Stream : /\ e = With(d, i, u) /\ SameAnswer(d.streams[i], u)
                              /\ u.ended /\ u.headers
      <4> DEFINE u == [d.streams[i] EXCEPT !.ended = TRUE]
      <4>1. /\ SameAnswer(d.streams[i], u) /\ u.ended = TRUE /\ u.headers = d.streams[i].headers
            /\ e = With(d, i, u)
        BY <2>7, <2>8, Marks
      <4> HIDE DEF u, e
      <4>2. u \in Stream BY <4>1 DEF SameAnswer
      <4> QED BY <2>4, <2>7, <4>1, <4>2
    <3> HIDE DEF e
    <3>2. Receives(e, i) /\ i \in Live(e) /\ e.cont = NoBlock /\ e.streams[i] = u
      BY <2>7, <3>1, MarkedReceives
    <3>3. CASE Continue(StreamError(e, i))
      <4>1. Leads(CloseStream(e, i)) BY <3>2, EndLeads DEF Receives
      <4> QED BY <3>3, <4>1, Continues DEF StreamError
    <3>4. CASE Dispatch(e, i)
      <4>1. Complete(e, i) BY <3>1, <3>2 DEF Complete
      <4> QED BY <3>4, <4>1, DispatchKeeps
    <3> QED BY <1>2, <1>13, <2>10, <3>1, <3>2, <3>3, <3>4
  <2> QED BY <2>9, <2>10
<1> QED BY <1>12, <1>13

-----------------------------------------------------------------------------
(* Windows: what opens one pumps. *)
LEMMA PumpedLeads ==
  ASSUME NEW c, NEW d \in PumpAll(c), IInv, Open, Requests(c, 0), Responses(c, 0),
         c.closing = "no", ~c.freed, Live(c) = Live(h2),
         \A j \in Live(h2) : /\ Undisturbed(h2.streams[j], c.streams[j])
                             /\ c.streams[j].sent = h2.streams[j].sent
  PROVE  Leads(d)
<1>1. c \in Connection /\ h2 \in Connection BY Idle DEF Requests, Limits
<1>2. PICK R : PumpedTo(c, d, 0, R) /\ (Pumps => R = Held(c)) BY PumpAllKeeps
<1>3. Requests(d, 0) /\ Responses(d, 0) /\ Onward(c, d) /\ d \in Connection
  BY <1>2 DEF PumpedTo, Requests, Limits
<1>4. Live(d) \subseteq Live(c) /\ d.freed = c.freed BY <1>3 DEF Onward
<1>5. Flowing(d)
  <2> SUFFICES ASSUME Pumps, NEW j \in Live(d), d.streams[j].out > 0 PROVE Waits(d, j)
    BY DEF Flowing, Waits
  <2>1. j \in Live(c) /\ j # 0 BY <1>1, <1>4, LiveFacts
  <2>2. c.streams[j].out > 0
    <3>1. d.streams[j].out <= c.streams[j].out BY <1>2 DEF PumpedTo, Undisturbed
    <3>2. d.streams[j].out \in Nat /\ c.streams[j].out \in Nat
      BY <1>1, <1>3, <2>1, LiveFacts DEF Stream
    <3> QED BY <3>1, <3>2
  <2>3. j \in Held(c) BY <2>1, <2>2 DEF Responses, Response, Held
  <2> QED BY <1>2, <2>3 DEF PumpedTo
<1>6. Within(h2, d) BY <1>1, <1>3, WithinFrom
<1>7. ASSUME NEW j \in Live(d)
      PROVE  j \in Live(h2) /\ Undisturbed(h2.streams[j], d.streams[j])
  <2>1. j \in Live(h2) BY <1>4
  <2>2. Undisturbed(h2.streams[j], c.streams[j]) /\ Undisturbed(c.streams[j], d.streams[j])
    BY <1>2, <2>1 DEF PumpedTo
  <2>3. h2.streams[j].out \in Nat /\ c.streams[j].out \in Nat /\ d.streams[j].out \in Nat
    BY <1>1, <1>3, <2>1, LiveFacts DEF Stream
  <2> QED BY <2>1, <2>2, <2>3 DEF Undisturbed
<1> QED BY <1>3, <1>4, <1>5, <1>6, <1>7 DEF Leads

(* A window shifts. *)
LEMMA ShiftedFacts ==
  ASSUME NEW s \in Stream, NEW n \in Int
  PROVE  LET t == Shifted(s, n)
         IN /\ t \in Stream /\ SameRequest(s, t) /\ Undisturbed(s, t)
            /\ t.sent = s.sent
            /\ Response(s) => Response(t)
<1> DEFINE t == Shifted(s, n)
<1>1. s.send + n \in Int /\ s.window + n \in Int BY DEF Stream
<1>2. t \in Stream BY <1>1 DEF Stream, Shifted
<1>3. SameRequest(s, t) BY DEF Stream, SameRequest, Shifted
<1>4. /\ t.send = s.send + n /\ t.window = s.window + n /\ t.sent = s.sent
      /\ t.out = s.out /\ t.held = s.held /\ t.fin = s.fin
      /\ t.heads = s.heads /\ t.made = s.made /\ t.dispatched = s.dispatched
  BY DEF Stream, Shifted
<1> HIDE DEF t
<1>5. Undisturbed(s, t) BY <1>4 DEF Undisturbed, Stream
<1>6. Response(s) => Response(t) BY <1>4 DEF Response
<1> QED BY <1>2, <1>3, <1>4, <1>5, <1>6 DEF t

(* The streams are what they were for the request side. *)
LEMMA SameRequestsKeep ==
  ASSUME NEW c, NEW d \in Connection, Requests(c, 0), Live(d) = Live(c),
         \A j \in Live(c) : SameRequest(c.streams[j], d.streams[j]),
         d.last = c.last, d.cont = c.cont, d.recv = c.recv, d.unacked = c.unacked,
         d.resets = c.resets, d.closing = c.closing, d.freed = c.freed, d.told = c.told,
         d.polite = c.polite, d.inflight = c.inflight
  PROVE  Requests(d, 0)
<1>1. c \in Connection BY DEF Requests, Limits
<1>2. Total(d.streams) = Total(c.streams) BY <1>1, TotalOf, TotalSame DEF SameRequest
<1>3. Dispatched(d.streams) = Dispatched(c.streams) BY <1>1, SameDispatched DEF SameRequest
<1>4. Limits(d) BY DEF Requests, Limits, SameRequest
<1>5. Uploads(c, 0) => Uploads(d, 0) BY DEF Uploads, SameRequest
<1>6. Blocks(c, 0) => Blocks(d, 0) BY SameBlocks DEF SameRequest
<1> QED BY <1>2, <1>3, <1>4, <1>5, <1>6 DEF Requests

Resized(c, w) ==
  [c EXCEPT !.initial = w, !.streams = [i \in DOMAIN @ |-> Shifted(@[i], w - c.initial)]]

LEMMA ResizedFacts ==
  ASSUME NEW c \in Connection, NEW w \in Nat
  PROVE  LET d == Resized(c, w)
         IN /\ d \in Connection /\ Live(d) = Live(c)
            /\ \A j \in Live(c) : d.streams[j] = Shifted(c.streams[j], w - c.initial)
            /\ d.last = c.last /\ d.cont = c.cont /\ d.recv = c.recv /\ d.unacked = c.unacked
            /\ d.resets = c.resets /\ d.closing = c.closing /\ d.freed = c.freed
            /\ d.told = c.told /\ d.polite = c.polite /\ d.inflight = c.inflight
            /\ d.send = c.send /\ d.peer = c.peer /\ d.torn = c.torn
<1> DEFINE n == w - c.initial
           f == [i \in DOMAIN c.streams |-> Shifted(c.streams[i], n)]
           d == Resized(c, w)
<1>1. n \in Int BY DEF Connection
<1>2. Live(c) \in SUBSET Ids /\ \A i \in Live(c) : c.streams[i] \in Stream BY LiveFacts
<1>3. d = [c EXCEPT !.initial = w, !.streams = f] BY DEF Resized
<1> HIDE DEF n
<1>4. f \in [Live(c) -> Stream] BY <1>1, <1>2, ShiftedFacts DEF Live
<1>5. f \in UNION {[E -> Stream] : E \in SUBSET Ids} BY <1>2, <1>4
<1>6. \A j \in Live(c) : f[j] = Shifted(c.streams[j], n) BY DEF Live
<1> HIDE DEF f, d
<1>7. d \in Connection /\ d.streams = f BY <1>3, <1>5 DEF Connection
<1>8. /\ d.last = c.last /\ d.cont = c.cont /\ d.recv = c.recv /\ d.unacked = c.unacked
      /\ d.resets = c.resets /\ d.closing = c.closing /\ d.freed = c.freed
  BY <1>3 DEF Connection
<1>9. /\ d.told = c.told /\ d.polite = c.polite /\ d.inflight = c.inflight
      /\ d.send = c.send /\ d.peer = c.peer /\ d.torn = c.torn
  BY <1>3 DEF Connection
<1>10. Live(d) = Live(c) BY <1>4, <1>7 DEF Live
<1> QED BY <1>6, <1>7, <1>8, <1>9, <1>10 DEF d, n

(* onSettings. *)
LEMMA SettingsKeeps ==
  ASSUME IInv, NEW w \in Windows, Settings(w)
  PROVE  IInv' /\ Within(h2, h2')
<1> DEFINE c == Resized(h2, w)
           n == w - h2.initial
<1>1. Open /\ w \in Nat BY Sizes DEF Settings, BetweenBlocks
<1>2. PICK d \in PumpAll(c) : Continue(d) BY DEF Settings, Pumped, Resized
<1>3. /\ h2 \in Connection /\ Requests(h2, 0) /\ Responses(h2, 0)
      /\ h2.closing = "no" /\ ~h2.freed
  BY <1>1, Idle
<1>4. n \in Int BY <1>1, <1>3 DEF Connection
<1>5. /\ c \in Connection /\ Live(c) = Live(h2)
      /\ \A j \in Live(h2) : c.streams[j] = Shifted(h2.streams[j], n)
      /\ c.last = h2.last /\ c.cont = h2.cont /\ c.recv = h2.recv /\ c.unacked = h2.unacked
      /\ c.resets = h2.resets /\ c.closing = h2.closing /\ c.freed = h2.freed
      /\ c.told = h2.told /\ c.polite = h2.polite /\ c.inflight = h2.inflight
      /\ c.send = h2.send /\ c.peer = h2.peer /\ c.torn = h2.torn
  BY <1>1, <1>3, ResizedFacts
<1> HIDE DEF c, n
<1>6. ASSUME NEW j \in Live(h2)
      PROVE  /\ SameRequest(h2.streams[j], c.streams[j]) /\ Undisturbed(h2.streams[j], c.streams[j])
             /\ c.streams[j].sent = h2.streams[j].sent
             /\ Response(h2.streams[j]) => Response(c.streams[j])
  <2>1. h2.streams[j] \in Stream BY <1>3, LiveFacts
  <2> QED BY <1>4, <1>5, <2>1, ShiftedFacts
<1>7. Requests(c, 0) BY <1>3, <1>5, <1>6, SameRequestsKeep
<1>8. Responses(c, 0) BY <1>3, <1>5, <1>6 DEF Responses
<1>9. Leads(d) BY <1>1, <1>2, <1>3, <1>5, <1>6, <1>7, <1>8, PumpedLeads
<1> QED BY <1>2, <1>9, Continues

Granted(c, n) == [c EXCEPT !.send = @ + n, !.peer = @ + n]

LEMMA GrantedFacts ==
  ASSUME NEW c \in Connection, NEW n \in Nat
  PROVE  LET d == Granted(c, n)
         IN /\ d \in Connection /\ d.streams = c.streams /\ Live(d) = Live(c)
            /\ d.send = c.send + n /\ d.peer = c.peer + n
            /\ d.last = c.last /\ d.cont = c.cont /\ d.recv = c.recv /\ d.unacked = c.unacked
            /\ d.resets = c.resets /\ d.closing = c.closing /\ d.freed = c.freed
            /\ d.told = c.told /\ d.polite = c.polite /\ d.inflight = c.inflight
            /\ d.torn = c.torn
<1> DEFINE a == c.send + n
           b == c.peer + n
           d == Granted(c, n)
<1>1. a \in Int /\ b \in Int BY DEF Connection
<1>2. d = [c EXCEPT !.send = a, !.peer = b] BY DEF Granted, Connection
<1> HIDE DEF a, b, d
<1>3. d \in Connection BY <1>1, <1>2 DEF Connection
<1>4. /\ d.streams = c.streams /\ d.send = a /\ d.peer = b
      /\ d.last = c.last /\ d.cont = c.cont /\ d.recv = c.recv /\ d.unacked = c.unacked
  BY <1>2 DEF Connection
<1>5. /\ d.resets = c.resets /\ d.closing = c.closing /\ d.freed = c.freed
      /\ d.told = c.told /\ d.polite = c.polite /\ d.inflight = c.inflight
      /\ d.torn = c.torn
  BY <1>2 DEF Connection
<1> QED BY <1>3, <1>4, <1>5 DEF Live, a, b, d

(* onWindowUpdate, of the connection. *)
LEMMA WindowUpdateConnKeeps ==
  ASSUME IInv, NEW n \in Increments, WindowUpdateConn(n)
  PROVE  IInv' /\ Within(h2, h2')
<1> DEFINE c == Granted(h2, n)
<1>1. Open /\ n \in Nat BY Sizes DEF WindowUpdateConn, BetweenBlocks
<1>2. \/ Continue(ConnError(h2, "closed"))
      \/ Continue(ConnError(c, "closed"))
      \/ \E d \in PumpAll(c) : Continue(d)
  BY DEF WindowUpdateConn, Pumped, Granted
<1>3. /\ h2 \in Connection /\ Requests(h2, 0) /\ Responses(h2, 0) /\ Limits(h2)
      /\ h2.closing = "no" /\ ~h2.freed
  BY <1>1, Idle
<1>4. /\ c \in Connection /\ c.streams = h2.streams /\ Live(c) = Live(h2)
      /\ c.send = h2.send + n /\ c.peer = h2.peer + n
      /\ c.last = h2.last /\ c.cont = h2.cont /\ c.recv = h2.recv /\ c.unacked = h2.unacked
      /\ c.resets = h2.resets /\ c.closing = h2.closing /\ c.freed = h2.freed
      /\ c.told = h2.told /\ c.polite = h2.polite /\ c.inflight = h2.inflight
      /\ c.torn = h2.torn
  BY <1>1, <1>3, GrantedFacts
<1> HIDE DEF c
<1>5. ASSUME NEW j \in Live(h2)
      PROVE  /\ SameRequest(h2.streams[j], c.streams[j]) /\ Undisturbed(h2.streams[j], c.streams[j])
             /\ c.streams[j].sent = h2.streams[j].sent
  <2>1. h2.streams[j] \in Stream BY <1>3, LiveFacts
  <2> QED BY <1>4, <2>1 DEF SameRequest, Undisturbed, Stream
<1>6. Requests(c, 0) BY <1>3, <1>4, <1>5, SameRequestsKeep
<1>7. Responses(c, 0) BY <1>3, <1>4 DEF Responses
<1>8. CASE Continue(ConnError(c, "closed"))
  <2> DEFINE code == "closed"
  <2>1. code \in {"closed", "flow", "calm"} /\ code # "flow" /\ code # "calm" OBVIOUS
  <2>2. Continue(ConnError(c, code)) BY <1>8
  <2> HIDE DEF code
  <2>3. Limits(c) BY <1>6 DEF Requests
  <2>4. Leads(ConnError(c, code)) BY <1>3, <1>4, <1>5, <1>7, <2>1, <2>3, ErrorLeads
  <2> QED BY <2>2, <2>4, Continues
<1>9. CASE \E d \in PumpAll(c) : Continue(d)
  <2>1. PICK d \in PumpAll(c) : Continue(d) BY <1>9
  <2>2. Leads(d) BY <1>1, <1>3, <1>4, <1>5, <1>6, <1>7, PumpedLeads
  <2> QED BY <2>1, <2>2, Continues
<1>10. CASE Continue(ConnError(h2, "closed")) BY <1>1, <1>10, CloseNow
<1> QED BY <1>2, <1>8, <1>9, <1>10

(* What was granted to stream i is used, or stream i ends. *)
LEMMA GrantLeads ==
  ASSUME NEW c, NEW i \in Live(h2), NEW d, IInv, Open,
         Rewrites(h2, c, i), Undisturbed(h2.streams[i], c.streams[i]),
         c.streams[i].sent = h2.streams[i].sent, c.send = h2.send,
         Requests(d, 0), Responses(d, 0), Others(c, d, i),
         i \in Live(d) => Waits(d, i) /\ Undisturbed(c.streams[i], d.streams[i])
  PROVE  Leads(d)
<1>1. /\ h2 \in Connection /\ h2.closing = "no" /\ ~h2.freed /\ Flowing(h2) BY Idle
<1>2. c \in Connection /\ Live(c) = Live(h2) /\ c.closing = h2.closing /\ c.freed = h2.freed
  BY DEF Rewrites, SameConnection
<1>3. d \in Connection /\ Onward(c, d) BY DEF Requests, Limits, Others
<1>4. Live(d) \subseteq Live(c) /\ d.freed = c.freed BY <1>3 DEF Onward
<1>5. \A j \in Live(c) \ {i} : c.streams[j] = h2.streams[j] BY <1>2 DEF Rewrites
<1>6. Flowing(d)
  <2> SUFFICES ASSUME Pumps, NEW j \in Live(d) PROVE Waits(d, j) BY DEF Flowing
  <2>1. CASE j = i BY <2>1
  <2>2. CASE j # i
    <3>1. Waits(h2, j) BY <1>1, <1>2, <1>4 DEF Flowing
    <3>2. Waits(c, j) BY <1>4, <1>5, <2>2, <3>1 DEF Waits, Room
    <3> QED BY <1>2, <1>3, <2>2, <3>2, OthersWait
  <2> QED BY <2>1, <2>2
<1>7. Within(h2, d)
  <2>1. \A j \in Live(c) \cap Live(h2) : c.streams[j].sent = h2.streams[j].sent BY <1>2, <1>5
  <2> QED BY <1>1, <1>2, <1>3, <2>1, WithinFrom
<1>8. ASSUME NEW j \in Live(d)
      PROVE  j \in Live(h2) /\ Undisturbed(h2.streams[j], d.streams[j])
  <2>1. j \in Live(h2) /\ j \in Live(c) BY <1>2, <1>4
  <2>2. h2.streams[j].out \in Nat /\ c.streams[j].out \in Nat /\ d.streams[j].out \in Nat
    BY <1>1, <1>2, <1>3, <2>1, LiveFacts DEF Stream
  <2>3. CASE j = i BY <2>1, <2>2, <2>3 DEF Undisturbed
  <2>4. CASE j # i
    <3>1. d.streams[j] = h2.streams[j] BY <1>5, <2>1, <2>4 DEF Others
    <3> QED BY <2>1, <2>2, <3>1 DEF Undisturbed
  <2> QED BY <2>3, <2>4
<1> QED BY <1>1, <1>2, <1>4, <1>6, <1>7, <1>8 DEF Leads

(* ... of a stream. *)
LEMMA WindowUpdateStreamKeeps ==
  ASSUME IInv, NEW i, NEW n \in Increments, WindowUpdateStream(i, n)
  PROVE  IInv' /\ Within(h2, h2')
<1> DEFINE t == Shifted(h2.streams[i], n)
           c == With(h2, i, t)
<1>1. Open /\ n \in Nat /\ n \in Int BY Sizes DEF WindowUpdateStream, BetweenBlocks
<1>2. \/ Continue(ConnError(h2, "closed"))
      \/ i \in Live(h2) /\ Continue(CloseStream(h2, i))
      \/ i \in Live(h2) /\ Continue(CloseStream(c, i))
      \/ i \in Live(h2) /\ Continue(PumpStream(c, i))
  BY DEF WindowUpdateStream, StreamError, With
<1>3. CASE Continue(ConnError(h2, "closed")) BY <1>1, <1>3, CloseNow
<1>4. CASE i \in Live(h2) /\ Continue(CloseStream(h2, i))
  <2>1. Leads(CloseStream(h2, i)) BY <1>1, <1>4, Idle, EndLeads
  <2> QED BY <1>4, <2>1, Continues
<1>5. CASE i \in Live(h2) /\ (Continue(CloseStream(c, i)) \/ Continue(PumpStream(c, i)))
  <2>1. /\ h2 \in Connection /\ Requests(h2, 0) /\ Responses(h2, 0) /\ 0 \notin Live(h2)
        /\ h2.streams[i] \in Stream
    BY <1>1, <1>5, Idle, LiveFacts
  <2>2. /\ t \in Stream /\ SameRequest(h2.streams[i], t) /\ Undisturbed(h2.streams[i], t)
        /\ t.sent = h2.streams[i].sent
        /\ Response(h2.streams[i]) => Response(t)
    BY <1>1, <2>1, ShiftedFacts
  <2> HIDE DEF t
  <2>3. /\ Rewrites(h2, c, i) /\ c.streams[i] = t /\ Live(c) = Live(h2) /\ c \in Connection
        /\ \A j \in Live(h2) \ {i} : c.streams[j] = h2.streams[j]
        /\ c.send = h2.send /\ c.peer = h2.peer /\ c.torn = h2.torn
    BY <1>5, <2>1, <2>2, WithFacts, WithRewrites
  <2> HIDE DEF c
  <2>4. \A j \in Live(h2) : SameRequest(h2.streams[j], c.streams[j])
    BY <2>2, <2>3 DEF SameRequest
  <2>5. Requests(c, 0)
    <3>1. SameConnection(h2, c) /\ c.inflight = h2.inflight BY <2>3 DEF Rewrites
    <3> QED BY <2>1, <2>3, <2>4, <3>1, SameRequestsKeep DEF SameConnection
  <2>6. Responses(c, 0) BY <1>5, <2>1, <2>2, <2>3 DEF Responses
  <2>7. CASE Continue(CloseStream(c, i))
    <3> DEFINE d == CloseStream(c, i)
    <3>1. Responses(c, i) BY <2>1, <2>3, <2>6 DEF Responses
    <3>2. Requests(d, 0) /\ Responses(d, 0) /\ Others(c, d, i) /\ i \notin Live(d)
      BY <1>5, <2>3, <2>5, <3>1, EndKeeps
    <3> HIDE DEF d
    <3>3. Leads(d) BY <1>1, <1>5, <2>2, <2>3, <3>2, GrantLeads
    <3> QED BY <2>7, <3>3, Continues DEF d
  <2>8. CASE Continue(PumpStream(c, i))
    <3> DEFINE d == PumpStream(c, i)
    <3>1. /\ Requests(d, 0) /\ Responses(d, 0) /\ Others(c, d, i)
          /\ i \in Live(d) => Waits(d, i) /\ Undisturbed(c.streams[i], d.streams[i])
      BY <1>5, <2>3, <2>5, <2>6, PumpKeeps
    <3> HIDE DEF d
    <3>2. Leads(d) BY <1>1, <1>5, <2>2, <2>3, <3>1, GrantLeads
    <3> QED BY <2>8, <3>2, Continues DEF d
  <2> QED BY <1>5, <2>7, <2>8
<1> QED BY <1>2, <1>3, <1>4, <1>5

(* onRstStream: what a reset adds to the budget is no more than what its stream leaves. *)
Counted(c, p) == [c EXCEPT !.resets = @ + 1, !.polite = p]

LEMMA CountedFacts ==
  ASSUME NEW c \in Connection, NEW p \in BOOLEAN
  PROVE  LET d == Counted(c, p)
         IN /\ d \in Connection /\ d.streams = c.streams /\ Live(d) = Live(c)
            /\ d.resets = c.resets + 1 /\ d.polite = p
            /\ d.last = c.last /\ d.cont = c.cont /\ d.recv = c.recv /\ d.unacked = c.unacked
            /\ d.closing = c.closing /\ d.freed = c.freed
            /\ d.told = c.told /\ d.inflight = c.inflight
            /\ d.send = c.send /\ d.peer = c.peer /\ d.torn = c.torn
<1> DEFINE r == c.resets + 1
           d == Counted(c, p)
<1>1. r \in Nat BY DEF Connection
<1>2. d = [c EXCEPT !.resets = r, !.polite = p] BY DEF Counted, Connection
<1> HIDE DEF r, d
<1>3. d \in Connection BY <1>1, <1>2 DEF Connection
<1>4. /\ d.streams = c.streams /\ d.resets = r /\ d.polite = p
      /\ d.last = c.last /\ d.cont = c.cont /\ d.recv = c.recv /\ d.unacked = c.unacked
  BY <1>2 DEF Connection
<1>5. /\ d.closing = c.closing /\ d.freed = c.freed
      /\ d.told = c.told /\ d.inflight = c.inflight
      /\ d.send = c.send /\ d.peer = c.peer /\ d.torn = c.torn
  BY <1>2 DEF Connection
<1> QED BY <1>3, <1>4, <1>5 DEF Live, r, d

LEMMA CountedClose ==
  ASSUME NEW c \in Connection, NEW i \in Live(c), NEW p \in BOOLEAN
  PROVE  CloseStream(Counted(c, p), i) = Counted(CloseStream(c, i), p)
<1>1. CloseStream(c, i) =
        [c EXCEPT !.streams = Restrict(c.streams, Live(c) \ {i}),
                  !.inflight = Max({0, c.inflight - c.streams[i].received})]
  BY DEF CloseStream, Connection
<1>2. /\ Counted(c, p).streams = c.streams /\ Counted(c, p).inflight = c.inflight
      /\ Live(Counted(c, p)) = Live(c) /\ Counted(c, p) \in Connection
  BY CountedFacts
<1> DEFINE f == Restrict(c.streams, Live(c) \ {i})
           m == Max({0, c.inflight - c.streams[i].received})
<1>3. CloseStream(Counted(c, p), i) = [Counted(c, p) EXCEPT !.streams = f, !.inflight = m]
  BY <1>2 DEF CloseStream, Connection
<1> HIDE DEF f, m
<1>4. CloseStream(c, i) = [c EXCEPT !.streams = f, !.inflight = m] BY <1>1 DEF f, m
<1>5. [Counted(c, p) EXCEPT !.streams = f, !.inflight = m]
        = Counted([c EXCEPT !.streams = f, !.inflight = m], p)
  BY DEF Counted, Connection
<1> QED BY <1>3, <1>4, <1>5

LEMMA ResetKeeps ==
  ASSUME IInv, NEW i, Reset(i)
  PROVE  IInv' /\ Within(h2, h2')
<1> DEFINE p == h2.polite /\ h2.streams[i].dispatched
           b == Counted(h2, p)
           c == CloseStream(b, i)
           m == Cardinality(Dispatched(h2.streams))
<1>1. Open BY DEF Reset, BetweenBlocks
<1>2. \/ Continue(ConnError(h2, "closed"))
      \/ i \in Live(h2) /\ Continue(c)
      \/ i \in Live(h2) /\ h2.resets >= ResetCap /\ Continue(ConnError(c, "calm"))
  BY DEF Reset, Counted
<1>3. CASE Continue(ConnError(h2, "closed")) BY <1>1, <1>3, CloseNow
<1>4. CASE i \in Live(h2)
  <2>1. /\ h2 \in Connection /\ Requests(h2, 0) /\ Requests(h2, i) /\ Handles(h2, i)
        /\ h2.closing = "no" /\ ~h2.freed /\ 0 \notin Live(h2)
    BY <1>1, Idle
  <2>2. h2.polite \in BOOLEAN /\ h2.resets \in Nat /\ h2.streams[i].dispatched \in BOOLEAN
    BY <1>4, <2>1, LiveFacts DEF Connection, Stream
  <2>3. p \in BOOLEAN BY <2>2
  <2>4. h2.polite => h2.resets + m <= MaxConcurrent BY <2>1 DEF Requests
  <2> DEFINE D == Dispatched(h2.streams)
             e == CloseStream(h2, i)
  <2>5. IsFiniteSet(D) /\ m \in Nat /\ D = {j \in Live(h2) : h2.streams[j].dispatched}
    BY <2>1, DispatchedFinite
  <2>6. /\ e \in Connection /\ Live(e) = Live(h2) \ {i}
        /\ \A j \in Live(e) : e.streams[j] = h2.streams[j]
        /\ SameConnection(h2, e)
    BY <1>4, <2>1, CloseFacts
  <2>7. Leads(e) BY <1>1, <1>4, <2>1, EndLeads
  <2>8. c = Counted(e, p) BY <1>4, <2>1, <2>3, CountedClose
  <2> HIDE DEF e, c
  <2>9. Dispatched(e.streams) = D \ {i}
    BY <2>5, <2>6, DispatchedFinite
  <2>10. p => i \in D /\ Cardinality(D \ {i}) = m - 1 /\ m > 0
    <3> SUFFICES ASSUME p PROVE i \in D /\ Cardinality(D \ {i}) = m - 1 /\ m > 0 OBVIOUS
    <3>1. i \in D BY <1>4, <2>5
    <3>2. Cardinality(D \ {i}) = m - 1 BY <2>5, <3>1, FS_RemoveElement
    <3>3. Cardinality(D \ {i}) \in Nat BY <2>5, FS_Subset, FS_CardinalityType
    <3> HIDE DEF m, D, p
    <3> QED BY <2>5, <3>1, <3>2, <3>3
  <2>11. /\ c \in Connection /\ c.streams = e.streams /\ Live(c) = Live(e)
         /\ c.resets = e.resets + 1 /\ c.polite = p
         /\ c.last = e.last /\ c.cont = e.cont /\ c.recv = e.recv /\ c.unacked = e.unacked
         /\ c.closing = e.closing /\ c.freed = e.freed
         /\ c.told = e.told /\ c.inflight = e.inflight
         /\ c.send = e.send /\ c.peer = e.peer /\ c.torn = e.torn
    BY <2>3, <2>6, <2>8, CountedFacts
  <2>12. Requests(e, 0) /\ Responses(e, 0) /\ Flowing(e) /\ Limits(e) BY <2>7 DEF Leads, Requests
  <2>13. c.closing = "no" /\ ~c.freed /\ e.resets = h2.resets BY <2>1, <2>6, <2>11 DEF SameConnection
  <2>14. c.polite => c.resets + Cardinality(Dispatched(c.streams)) <= MaxConcurrent
    <3> SUFFICES ASSUME p PROVE h2.resets + 1 + Cardinality(D \ {i}) <= MaxConcurrent
      BY <2>9, <2>11, <2>13
    <3>1. Cardinality(D \ {i}) = m - 1 /\ h2.resets + m <= MaxConcurrent BY <2>4, <2>10
    <3> DEFINE q == Cardinality(D \ {i})
    <3>2. q = m - 1 BY <3>1
    <3> HIDE DEF q, m, p
    <3>3. h2.resets + m <= MaxConcurrent BY <3>1
    <3>4. h2.resets + 1 + q <= MaxConcurrent BY <2>2, <2>5, <3>2, <3>3, Sizes
    <3> QED BY <3>4 DEF q
  <2> HIDE DEF D
  <2>15. Limits(c) BY <2>11, <2>12 DEF Limits
  <2>16. Requests(c, 0)
    <3>1. Uploads(e, 0) => Uploads(c, 0) BY <2>11 DEF Uploads
    <3>2. Blocks(e, 0) => Blocks(c, 0) BY <2>11 DEF Blocks
    <3>3. c.closing # "flow" /\ c.closing # "calm" BY <2>13
    <3> HIDE DEF m, p
    <3> QED BY <2>11, <2>12, <2>13, <2>14, <2>15, <3>1, <3>2, <3>3 DEF Requests
  <2>17. Responses(c, 0) BY <2>11, <2>12 DEF Responses
  <2>18. ASSUME NEW j \in Live(c)
         PROVE  /\ j \in Live(h2) /\ Undisturbed(h2.streams[j], c.streams[j])
                /\ c.streams[j].sent = h2.streams[j].sent
    <3>1. j \in Live(h2) /\ c.streams[j] = h2.streams[j] BY <2>6, <2>11
    <3> QED BY <2>1, <3>1, LiveFacts DEF Undisturbed, Stream
  <2>19. CASE Continue(c)
    <3>1. Flowing(c) BY <2>11, <2>12 DEF Flowing, Waits, Room
    <3>2. Within(h2, c) BY <2>1, <2>11, <2>18, Unsent
    <3>3. Leads(c) BY <2>13, <2>16, <2>17, <2>18, <3>1, <3>2 DEF Leads
    <3> QED BY <2>19, <3>3, Continues
  <2>20. CASE h2.resets >= ResetCap /\ Continue(ConnError(c, "calm"))
    <3>1. ~c.polite
      <4>1. ~p
        <5> SUFFICES ASSUME p PROVE FALSE OBVIOUS
        <5>1. h2.resets + m <= MaxConcurrent /\ m > 0 BY <2>4, <2>10
        <5> HIDE DEF m, p
        <5> QED BY <2>2, <2>5, <2>20, <5>1, Sizes
      <4> QED BY <2>11, <4>1
    <3> DEFINE code == "calm"
    <3>2. code \in {"closed", "flow", "calm"} /\ code # "flow" OBVIOUS
    <3>3. Continue(ConnError(c, code)) BY <2>20
    <3> HIDE DEF code, p, b, m
    <3>4. Leads(ConnError(c, code))
      BY <2>13, <2>15, <2>17, <2>18, <3>1, <3>2, ErrorLeads
    <3> QED BY <3>3, <3>4, Continues
  <2> QED BY <1>2, <1>3, <2>19, <2>20
<1> QED BY <1>2, <1>3, <1>4

LEMMA FrameKeeps ==
  ASSUME IInv, Frame
  PROVE  IInv' /\ Within(h2, h2')
<1>1. ASSUME NEW i \in NextIds, NEW end \in BOOLEAN, NEW whole \in BOOLEAN,
             OpenStream(i, end, whole) \/ RefuseStream(i, whole) \/ Trailers(i, end, whole)
      PROVE  IInv' /\ Within(h2, h2')
  BY <1>1, OpenStreamKeeps, RefuseStreamKeeps, TrailersKeeps
<1>2. ASSUME NEW i \in NextIds, StaleHeaders(i) \/ Reset(i)
      PROVE  IInv' /\ Within(h2, h2')
  <2>1. CASE StaleHeaders(i) BY <2>1, CloseNow DEF StaleHeaders, BetweenBlocks
  <2>2. CASE Reset(i) BY <2>2, ResetKeeps
  <2> QED BY <1>2, <2>1, <2>2
<1>3. ASSUME NEW i \in NextIds, NEW n \in Payloads, DataRefused(i, n)
      PROVE  IInv' /\ Within(h2, h2')
  BY <1>3, DataRefusedKeeps
<1>4. ASSUME NEW i \in NextIds, NEW n \in Payloads, NEW end \in BOOLEAN, NEW k \in {0, n},
             Data(i, n, k, end)
      PROVE  IInv' /\ Within(h2, h2')
  BY <1>4, DataKeeps
<1>5. ASSUME NEW i \in NextIds, NEW n \in Increments, WindowUpdateStream(i, n)
      PROVE  IInv' /\ Within(h2, h2')
  BY <1>5, WindowUpdateStreamKeeps
<1>6. ASSUME NEW n \in Increments, WindowUpdateConn(n)
      PROVE  IInv' /\ Within(h2, h2')
  BY <1>6, WindowUpdateConnKeeps
<1>7. ASSUME NEW w \in Windows, Settings(w)
      PROVE  IInv' /\ Within(h2, h2')
  BY <1>7, SettingsKeeps
<1>8. CASE Interleaves BY <1>8, CloseNow DEF Interleaves
<1>9. CASE Continuation BY <1>9, ContinuationKeeps
<1>10. CASE BadFrame BY <1>10, CloseNow DEF BadFrame, BetweenBlocks
<1> QED BY <1>1, <1>2, <1>3, <1>4, <1>5, <1>6, <1>7, <1>8, <1>9, <1>10 DEF Frame

-----------------------------------------------------------------------------
(* The handlers, which may act on a connection that is closing too. *)
LEMMA ActKeeps ==
  ASSUME IInv, NEW i \in Ids, NEW d, NEW next \in Stages,
         Requests(d, 0), Responses(d, 0), Others(h2, d, i),
         i \in Live(d) /\ Waits(h2, i) => Waits(d, i),
         h2' = d, work' = [work EXCEPT ![i] = next], h2pending' \subseteq Ids,
         \A j \in Ids \ {i} : j \in h2pending' <=> j \in h2pending /\ j \in Live(d),
         HandlerOf(d, h2pending', work', i)
  PROVE  IInv' /\ Within(h2, h2')
<1>1. /\ h2 \in Connection /\ Flowing(h2) /\ Handlers(h2, h2pending, work) /\ d \in Connection
  BY DEF IInv, Good, Requests, Limits
<1>2. /\ Onward(h2, d) /\ Live(d) \subseteq Live(h2) /\ d.freed = h2.freed
      /\ d.closing = h2.closing
  BY DEF Others, Onward
<1>3. Within(h2, d) BY <1>1, <1>2, OnwardWithin
<1>4. Flowing(d)
  <2> SUFFICES ASSUME Pumps, d.closing = "no", NEW j \in Live(d) PROVE Waits(d, j) BY DEF Flowing
  <2>1. j \in Live(h2) /\ Waits(h2, j) BY <1>1, <1>2 DEF Flowing
  <2>2. CASE j = i BY <2>1, <2>2
  <2>3. CASE j # i BY <1>1, <2>1, <2>3, OthersWait
  <2> QED BY <2>2, <2>3
<1>5. d.freed => Live(d) = {} BY <1>1, <1>2 DEF Handlers
<1>6. work' \in [Ids -> Stages] /\ \A j \in Ids \ {i} : work'[j] = work[j] BY <1>1 DEF Handlers
<1>7. ASSUME NEW j \in Ids \ {i} PROVE HandlerOf(d, h2pending', work', j)
  <2>1. HandlerOf(h2, h2pending, work, j) BY <1>1 DEF Handlers
  <2>2. j \in Live(h2) <=> j \in Live(d) BY <1>2 DEF Others
  <2>3. j \in Live(d) => d.streams[j] = h2.streams[j] BY DEF Others
  <2>4. j \in h2pending' <=> j \in h2pending BY <2>1, <2>2 DEF HandlerOf
  <2> QED BY <1>6, <2>1, <2>2, <2>3, <2>4 DEF HandlerOf
<1>8. Handlers(d, h2pending', work') BY <1>5, <1>6, <1>7 DEF Handlers
<1>9. Good(d, h2pending', work') BY <1>4, <1>8 DEF Good
<1> QED BY <1>3, <1>9 DEF IInv

(* The connection as a handler finds it. *)
LEMMA Found ==
  ASSUME IInv, NEW i \in Ids
  PROVE  /\ h2 \in Connection /\ Requests(h2, 0) /\ Responses(h2, 0) /\ 0 \notin Live(h2)
         /\ HandlerOf(h2, h2pending, work, i) /\ h2pending \subseteq Live(h2)
         /\ h2pending \subseteq Ids
         /\ i \in Live(h2) => h2.streams[i] \in Stream /\ Response(h2.streams[i])
<1>1. h2 \in Connection /\ Requests(h2, 0) /\ Responses(h2, 0) /\ Handlers(h2, h2pending, work)
  BY DEF IInv, Good, Requests, Limits
<1>2. h2pending \subseteq Live(h2) BY <1>1 DEF Handlers, HandlerOf
<1>3. 0 \notin Live(h2) /\ (i \in Live(h2) => h2.streams[i] \in Stream) BY <1>1, LiveFacts
<1> QED BY <1>1, <1>2, <1>3 DEF Handlers, Responses

LEMMA OthersSelf ==
  ASSUME NEW c \in Connection, NEW i
  PROVE  Others(c, c, i)
<1>1. c.send \in Int BY DEF Connection
<1>2. \A j \in Live(c) : c.streams[j].sent \in Nat BY LiveFacts DEF Stream
<1> QED BY <1>1, <1>2 DEF Others, Onward

(* A call that comes too late leaves everything as it is. *)
LEMMA TooLateKeeps ==
  ASSUME IInv, NEW i \in Ids, i \notin h2pending, NEW next \in Stages,
         h2' = h2, h2pending' = h2pending, work' = [work EXCEPT ![i] = next]
  PROVE  IInv' /\ Within(h2, h2')
<1>1. /\ h2 \in Connection /\ Requests(h2, 0) /\ Responses(h2, 0)
      /\ HandlerOf(h2, h2pending, work, i) /\ h2pending \subseteq Live(h2)
      /\ h2pending \subseteq Ids
  BY Found
<1>2. Others(h2, h2, i) BY <1>1, OthersSelf
<1>3. HandlerOf(h2, h2pending', work', i) BY <1>1 DEF HandlerOf
<1> QED BY <1>1, <1>2, <1>3, ActKeeps

LEMMA RewritesOthers ==
  ASSUME NEW c \in Connection, NEW d, NEW i \in Live(c), Rewrites(c, d, i),
         d.send = c.send, d.peer = c.peer,
         d.streams[i].sent = c.streams[i].sent, d.streams[i].window = c.streams[i].window
  PROVE  Others(c, d, i)
<1>1. /\ d \in Connection /\ Live(d) = Live(c) /\ d.closing = c.closing /\ d.freed = c.freed
      /\ \A j \in Live(c) \ {i} : d.streams[j] = c.streams[j]
  BY DEF Rewrites, SameConnection
<1>2. c.send \in Int BY DEF Connection
<1>3. \A j \in Live(c) : c.streams[j].sent \in Nat BY LiveFacts DEF Stream
<1>4. Onward(c, d) BY <1>1, <1>2, <1>3 DEF Onward
<1> QED BY <1>1, <1>4 DEF Others

LEMMA RewritesResponses ==
  ASSUME NEW c \in Connection, NEW d, NEW i \in Live(c), Rewrites(c, d, i), Responses(c, 0),
         d.peer = d.send, ~d.torn
  PROVE  Responses(d, i) /\ (Response(d.streams[i]) => Responses(d, 0))
<1>1. 0 \notin Live(c) BY LiveFacts
<1> QED BY <1>1 DEF Responses, Rewrites

(* closeStream, by whichever handler. *)
LEMMA GivesUpKeeps ==
  ASSUME IInv, NEW i \in Live(h2), NEW next \in Stages,
         h2' = CloseStream(h2, i), h2pending' = StillPending(CloseStream(h2, i)),
         work' = [work EXCEPT ![i] = next]
  PROVE  IInv' /\ Within(h2, h2')
<1> DEFINE d == CloseStream(h2, i)
<1>0. i \in Ids
  <2>1. h2 \in Connection BY DEF IInv, Good, Requests, Limits
  <2> QED BY <2>1, LiveFacts
<1>1. /\ h2 \in Connection /\ Requests(h2, 0) /\ Responses(h2, 0) /\ h2pending \subseteq Ids
      /\ 0 \notin Live(h2)
  BY <1>0, Found
<1>2. Responses(h2, i) BY <1>1 DEF Responses
<1>3. Requests(d, 0) /\ Responses(d, 0) /\ Others(h2, d, i) /\ i \notin Live(d)
  BY <1>1, <1>2, EndKeeps
<1>4. h2' = d /\ h2pending' = h2pending \cap Live(d) BY DEF StillPending
<1> HIDE DEF d
<1>5. HandlerOf(d, h2pending', work', i) BY <1>3, <1>4 DEF HandlerOf
<1> QED BY <1>0, <1>1, <1>3, <1>4, <1>5, ActKeeps

(* submitResponse, and the 408 of a timeout. *)
LEMMA AnswerKeeps ==
  ASSUME IInv, NEW i \in Ids, NEW n \in Nat \cup {TooBig}, NEW next \in Stages,
         work[i] \in {"awaits", "late"}, Answer(i, n, next)
  PROVE  IInv' /\ Within(h2, h2')
<1>1. /\ h2 \in Connection /\ Requests(h2, 0) /\ Responses(h2, 0)
      /\ HandlerOf(h2, h2pending, work, i) /\ h2pending \subseteq Live(h2)
      /\ h2pending \subseteq Ids
      /\ i \in Live(h2) => h2.streams[i] \in Stream /\ Response(h2.streams[i])
  BY Found
<1>2. CASE i \notin h2pending
  <2>1. h2' = h2 /\ h2pending' = h2pending /\ work' = [work EXCEPT ![i] = next]
    BY <1>1, <1>2 DEF Answer, Unclaimed
  <2> QED BY <1>2, <2>1, TooLateKeeps
<1>3. CASE i \in h2pending
  <2> DEFINE d == Respond(h2, i, n)
  <2>1. /\ h2' = d /\ h2pending' = (h2pending \ {i}) \cap Live(d)
        /\ work' = [work EXCEPT ![i] = next]
    BY <1>3 DEF Answer, Unclaimed
  <2>2. i \in Live(h2) /\ h2.streams[i].dispatched /\ h2.streams[i].heads = 0
    BY <1>1, <1>3 DEF HandlerOf
  <2>3. Fresh(h2, i) BY <1>1, <2>2 DEF Fresh, Responses
  <2>4. /\ Requests(d, 0) /\ Responses(d, 0) /\ Others(h2, d, i)
        /\ i \in Live(d) => Waits(d, i) /\ d.streams[i].fin /\ d.streams[i].dispatched
    BY <1>1, <2>2, <2>3, RespondKeeps
  <2> HIDE DEF d
  <2>5. HandlerOf(d, h2pending', work', i) BY <2>1, <2>4 DEF HandlerOf
  <2>6. h2pending' \subseteq Ids BY <1>1, <2>1
  <2>7. \A j \in Ids \ {i} : j \in h2pending' <=> j \in h2pending /\ j \in Live(d) BY <2>1
  <2> QED BY <2>1, <2>4, <2>5, <2>6, <2>7, ActKeeps
<1> QED BY <1>2, <1>3

(* A handler that holds its stream: only it answers. *)
LEMMA Claimed ==
  ASSUME IInv, NEW i \in h2pending
  PROVE  /\ i \in Ids /\ i \in Live(h2) /\ h2.streams[i] \in Stream /\ Response(h2.streams[i])
         /\ h2.streams[i].dispatched /\ h2.streams[i].fin = (work[i] = "over")
         /\ work[i] = "awaits" => h2.streams[i].heads = 0
         /\ work[i] = "streams" => h2.streams[i].heads = 1 /\ h2.streams[i].out <= MaxQueue
         /\ work[i] \in {"awaits", "streams", "over"}
<1>1. i \in Ids BY DEF IInv, Good, Handlers
<1> QED BY <1>1, Found DEF HandlerOf

(* startStream. *)
LEMMA StreamStartKeeps ==
  ASSUME IInv, NEW i \in Ids, StreamStart(i)
  PROVE  IInv' /\ Within(h2, h2')
<1>1. /\ h2 \in Connection /\ Requests(h2, 0) /\ Responses(h2, 0)
      /\ h2pending \subseteq Live(h2) /\ h2pending \subseteq Ids
  BY Found
<1>2. CASE i \notin h2pending
  <2>1. h2' = h2 /\ h2pending' = h2pending /\ work' = [work EXCEPT ![i] = "streams"]
    BY <1>1, <1>2 DEF StreamStart, Works, StillPending
  <2> DEFINE next == "streams"
  <2>2. next \in Stages /\ work' = [work EXCEPT ![i] = next] BY <2>1 DEF Stages
  <2> HIDE DEF next
  <2> QED BY <1>2, <2>1, <2>2, TooLateKeeps
<1>3. CASE i \in h2pending
  <2>1. /\ i \in Live(h2) /\ h2.streams[i] \in Stream /\ Response(h2.streams[i])
        /\ h2.streams[i].dispatched /\ h2.streams[i].fin = (work[i] = "over")
        /\ work[i] = "awaits" => h2.streams[i].heads = 0
        /\ work[i] \in {"awaits", "streams", "over"}
    BY <1>3, Claimed
  <2>2. work[i] = "awaits" BY <2>1 DEF StreamStart
  <2>3. \/ Works(SendHeaders(h2, i, FALSE), i, "streams")
        \/ Works(CloseStream(h2, i), i, "streams")
    BY <1>3 DEF StreamStart, StreamError
  <2> DEFINE next == "streams"
  <2>4. next \in Stages /\ next = "streams" /\ next # "over" /\ next # "awaits" BY DEF Stages
  <2>5. CASE Works(CloseStream(h2, i), i, "streams")
    <3>1. /\ h2' = CloseStream(h2, i) /\ h2pending' = StillPending(CloseStream(h2, i))
          /\ work' = [work EXCEPT ![i] = next]
      BY <2>5 DEF Works
    <3> HIDE DEF next
    <3> QED BY <2>1, <2>4, <3>1, GivesUpKeeps
  <2>6. CASE Works(SendHeaders(h2, i, FALSE), i, "streams")
    <3> DEFINE d == SendHeaders(h2, i, FALSE)
    <3>1. h2' = d /\ h2pending' = h2pending \cap Live(d) /\ work' = [work EXCEPT ![i] = next]
      BY <2>6 DEF Works, StillPending
    <3> HIDE DEF next
    <3>2. LET s == h2.streams[i]
              t == d.streams[i]
          IN /\ Rewrites(h2, d, i)
             /\ t.send = s.send /\ t.window = s.window /\ t.sent = s.sent
             /\ t.out = s.out /\ t.held = s.held /\ t.fin = s.fin
             /\ t.heads = s.heads + 1 /\ t.made = s.made
             /\ d.send = h2.send /\ d.peer = h2.peer /\ d.torn = h2.torn
      <4> DEFINE end == FALSE
                 e == SendHeaders(h2, i, end)
                 s == h2.streams[i]
                 t == e.streams[i]
      <4>1. end \in BOOLEAN /\ ~end /\ d = e OBVIOUS
      <4> HIDE DEF end, d
      <4>2. /\ Rewrites(h2, e, i)
            /\ t.send = s.send /\ t.window = s.window /\ t.sent = s.sent
            /\ t.out = s.out /\ t.held = s.held /\ t.fin = s.fin
            /\ t.heads = s.heads + 1 /\ t.made = s.made
            /\ e.send = h2.send /\ e.peer = h2.peer
            /\ e.torn = (h2.torn \/ (end /\ (s.heads # 0 \/ s.sent # s.made)))
        BY <1>1, <2>1, <4>1, SendHeadersFacts
      <4>3. e.torn = h2.torn
        <5>1. h2.torn = FALSE BY <1>1 DEF Responses, Connection
        <5> HIDE DEF e, t, s
        <5> QED BY <4>1, <4>2, <5>1
      <4> QED BY <4>1, <4>2, <4>3
    <3> HIDE DEF d
    <3>3. Requests(d, 0) BY <1>1, <2>1, <3>2, RewritesKeeps
    <3>4. d.streams[i].heads = 1 /\ d.streams[i].out = 0 /\ d.streams[i].made = 0
      <4>1. h2.streams[i].heads = 0 /\ h2.streams[i].made = 0 BY <2>1, <2>2 DEF Response
      <4>2. h2.streams[i].out = 0 BY <2>1, <4>1 DEF Response, Stream
      <4> QED BY <3>2, <4>1, <4>2
    <3>5. d.streams[i].dispatched BY <2>1, <3>2 DEF Rewrites, SameRequest
    <3>6. Response(d.streams[i])
      <4>1. ~h2.streams[i].held /\ ~h2.streams[i].fin BY <2>1, <2>2 DEF Response
      <4> QED BY <2>1, <3>2, <3>4, <3>5, <4>1 DEF Response
    <3>7. Responses(d, 0) BY <1>1, <2>1, <3>2, <3>6, RewritesResponses DEF Responses
    <3>8. Others(h2, d, i) BY <1>1, <2>1, <3>2, RewritesOthers
    <3>9. Live(d) = Live(h2) BY <3>2 DEF Rewrites
    <3>10. Waits(h2, i) => Waits(d, i) BY <3>2 DEF Waits, Room
    <3>11. h2pending' = h2pending BY <1>1, <3>1, <3>9
    <3>12. work'[i] = next
      <4>1. work \in [Ids -> Stages] BY DEF IInv, Good, Handlers
      <4> QED BY <3>1, <4>1
    <3>13. HandlerOf(d, h2pending', work', i)
      <4>1. d.streams[i].fin = FALSE BY <2>1, <2>2, <3>2
      <4>2. d.streams[i].out <= MaxQueue BY <3>4, Sizes
      <4>3. i \in Live(d) /\ i \in h2pending' BY <1>3, <2>1, <3>9, <3>11
      <4> QED BY <2>4, <3>4, <3>5, <3>12, <4>1, <4>2, <4>3 DEF HandlerOf
    <3>14. \A j \in Ids \ {i} : j \in h2pending' <=> j \in h2pending /\ j \in Live(d)
      BY <3>1
    <3> QED BY <1>1, <2>4, <3>1, <3>3, <3>7, <3>8, <3>10, <3>11, <3>13, <3>14, ActKeeps
  <2> QED BY <2>3, <2>5, <2>6
<1> QED BY <1>2, <1>3

(* What a source has produced, and its end. *)
Queued(s, n) == [s EXCEPT !.out = @ + n, !.held = TRUE, !.made = @ + n]
Finished(s) == [s EXCEPT !.fin = TRUE]

LEMMA QueuedFacts ==
  ASSUME NEW s \in Stream, NEW n \in Nat
  PROVE  LET t == Queued(s, n)
         IN /\ t \in Stream /\ SameRequest(s, t)
            /\ t.send = s.send /\ t.window = s.window /\ t.sent = s.sent
            /\ t.out = s.out + n /\ t.held = TRUE /\ t.fin = s.fin
            /\ t.heads = s.heads /\ t.made = s.made + n
<1> DEFINE t == Queued(s, n)
<1>1. s.out + n \in Nat /\ s.made + n \in Nat BY DEF Stream
<1>2. t \in Stream BY <1>1 DEF Queued, Stream
<1>3. SameRequest(s, t) BY DEF Queued, Stream, SameRequest
<1>4. /\ t.send = s.send /\ t.window = s.window /\ t.sent = s.sent
      /\ t.out = s.out + n /\ t.held = TRUE /\ t.fin = s.fin
      /\ t.heads = s.heads /\ t.made = s.made + n
  BY DEF Queued, Stream
<1> QED BY <1>2, <1>3, <1>4

LEMMA FinishedFacts ==
  ASSUME NEW s \in Stream
  PROVE  LET t == Finished(s)
         IN /\ t \in Stream /\ SameRequest(s, t)
            /\ t.send = s.send /\ t.window = s.window /\ t.sent = s.sent
            /\ t.out = s.out /\ t.held = s.held /\ t.fin = TRUE
            /\ t.heads = s.heads /\ t.made = s.made
<1> DEFINE t == Finished(s)
<1>1. t \in Stream BY DEF Finished, Stream
<1>2. SameRequest(s, t) BY DEF Finished, Stream, SameRequest
<1>3. /\ t.send = s.send /\ t.window = s.window /\ t.sent = s.sent
      /\ t.out = s.out /\ t.held = s.held /\ t.fin = TRUE
      /\ t.heads = s.heads /\ t.made = s.made
  BY DEF Finished, Stream
<1> QED BY <1>1, <1>2, <1>3

(* What a handler has put on its stream goes out as far as the windows let it. *)
LEMMA HandedKeeps ==
  ASSUME IInv, NEW i \in h2pending, NEW t \in Stream, NEW next \in Stages,
         SameRequest(h2.streams[i], t), Response(t), t.sent = h2.streams[i].sent,
         t.window = h2.streams[i].window,
         t.fin <=> next = "over", next \in {"streams", "over"},
         next = "streams" => t.heads = 1 /\ t.out <= MaxQueue,
         h2' = PumpStream(With(h2, i, t), i),
         h2pending' = StillPending(PumpStream(With(h2, i, t), i)),
         work' = [work EXCEPT ![i] = next]
  PROVE  IInv' /\ Within(h2, h2')
<1> DEFINE c == With(h2, i, t)
           d == PumpStream(c, i)
<1>1. /\ i \in Ids /\ i \in Live(h2) /\ h2.streams[i].dispatched BY Claimed
<1>2. /\ h2 \in Connection /\ Requests(h2, 0) /\ Responses(h2, 0)
      /\ h2pending \subseteq Live(h2) /\ h2pending \subseteq Ids
  BY <1>1, Found
<1>3. /\ Rewrites(h2, c, i) /\ c.streams[i] = t /\ Live(c) = Live(h2) /\ c \in Connection
      /\ c.send = h2.send /\ c.peer = h2.peer /\ c.torn = h2.torn
  BY <1>1, <1>2, WithFacts, WithRewrites
<1>4. h2' = d /\ h2pending' = h2pending \cap Live(d) BY DEF StillPending
<1> HIDE DEF c
<1>5. Requests(c, 0) BY <1>1, <1>2, <1>3, RewritesKeeps
<1>6. Responses(c, 0) BY <1>1, <1>2, <1>3, RewritesResponses DEF Responses
<1>7. Others(h2, c, i) BY <1>1, <1>2, <1>3, RewritesOthers
<1>8. /\ Requests(d, 0) /\ Responses(d, 0) /\ Others(c, d, i)
      /\ IF i \in Live(d) THEN Waits(d, i) /\ Undisturbed(c.streams[i], d.streams[i])
         ELSE c.streams[i].fin
  BY <1>1, <1>3, <1>5, <1>6, PumpKeeps
<1> HIDE DEF d
<1>9. d \in Connection BY <1>8 DEF Requests, Limits
<1>10. Others(h2, d, i) BY <1>2, <1>3, <1>7, <1>8, <1>9, OthersTrans
<1>11. work'[i] = next
  <2>1. work \in [Ids -> Stages] BY DEF IInv, Good, Handlers
  <2> QED BY <1>1, <2>1
<1>12. HandlerOf(d, h2pending', work', i)
  <2>1. CASE i \notin Live(d) BY <1>4, <2>1 DEF HandlerOf
  <2>2. CASE i \in Live(d)
    <3>1. LET u == d.streams[i]
          IN u.dispatched = t.dispatched /\ u.fin = t.fin /\ u.heads = t.heads /\ u.out <= t.out
      BY <1>3, <1>8, <2>2 DEF Undisturbed
    <3>2. t.dispatched BY <1>1 DEF SameRequest
    <3>3. t.fin \in BOOLEAN /\ d.streams[i].out \in Nat /\ t.out \in Nat /\ MaxQueue \in Nat
      BY <1>9, <2>2, LiveFacts, Sizes DEF Stream
    <3>4. d.streams[i].fin = (next = "over") BY <3>1, <3>3
    <3>5. next = "streams" => d.streams[i].heads = 1 /\ d.streams[i].out <= MaxQueue BY <3>1, <3>3
    <3>6. i \in h2pending' BY <1>4, <2>2
    <3>7. next # "awaits" OBVIOUS
    <3> QED BY <1>11, <2>2, <3>1, <3>2, <3>4, <3>5, <3>6, <3>7 DEF HandlerOf
  <2> QED BY <2>1, <2>2
<1>13. i \in Live(d) /\ Waits(h2, i) => Waits(d, i) BY <1>8
<1>14. h2pending' \subseteq Ids BY <1>2, <1>4
<1>15. \A j \in Ids \ {i} : j \in h2pending' <=> j \in h2pending /\ j \in Live(d) BY <1>4
<1> QED BY <1>1, <1>4, <1>8, <1>10, <1>12, <1>13, <1>14, <1>15, ActKeeps

(* streamChunk. *)
LEMMA StreamChunkKeeps ==
  ASSUME IInv, NEW i \in Ids, NEW n \in Chunks, StreamChunk(i, n)
  PROVE  IInv' /\ Within(h2, h2')
<1> DEFINE over == "over"
           streams == "streams"
<1>a. over \in Stages /\ streams \in Stages /\ streams = "streams" /\ over = "over" /\ streams # over
  BY DEF Stages
<1>n. n \in Nat BY Sizes
<1>1. CASE i \notin h2pending
  <2>1. h2' = h2 /\ h2pending' = h2pending /\ work' = [work EXCEPT ![i] = over]
    BY <1>1, Found DEF StreamChunk, Works, StillPending
  <2> HIDE DEF over
  <2> QED BY <1>1, <1>a, <2>1, TooLateKeeps
<1>2. CASE i \in h2pending
  <2> DEFINE s == h2.streams[i]
             t == Queued(s, n)
             c == With(h2, i, t)
  <2>1. /\ i \in Live(h2) /\ s \in Stream /\ Response(s)
        /\ s.dispatched /\ s.fin = (work[i] = "over")
        /\ work[i] = "streams" => s.heads = 1 /\ s.out <= MaxQueue
    BY <1>2, Claimed
  <2>2. work[i] = "streams" BY DEF StreamChunk
  <2>3. c = [h2 EXCEPT !.streams[i].out = @ + n, !.streams[i].held = TRUE,
                       !.streams[i].made = @ + n]
    <3>1. h2 \in Connection BY Found
    <3>2. h2.streams \in [Live(h2) -> Stream] BY <3>1, LiveFacts
    <3> QED BY <2>1, <3>1, <3>2 DEF With, Queued, Connection, Stream
  <2>4. \/ s.out + n > MaxQueue /\ Works(CloseStream(h2, i), i, over)
        \/ ~(s.out + n > MaxQueue) /\ Works(PumpStream(c, i), i, streams)
    BY <1>2, <2>3 DEF StreamChunk, StreamError, Flushed
  <2> HIDE DEF over, streams
  <2>5. CASE Works(CloseStream(h2, i), i, over)
    <3>1. /\ h2' = CloseStream(h2, i) /\ h2pending' = StillPending(CloseStream(h2, i))
          /\ work' = [work EXCEPT ![i] = over]
      BY <2>5 DEF Works
    <3> QED BY <1>a, <2>1, <3>1, GivesUpKeeps
  <2>6. CASE ~(s.out + n > MaxQueue) /\ Works(PumpStream(c, i), i, streams)
    <3>1. /\ t \in Stream /\ SameRequest(s, t)
          /\ t.send = s.send /\ t.window = s.window /\ t.sent = s.sent
          /\ t.out = s.out + n /\ t.held = TRUE /\ t.fin = s.fin
          /\ t.heads = s.heads /\ t.made = s.made + n
      BY <1>n, <2>1, QueuedFacts
    <3>2. /\ h2' = PumpStream(With(h2, i, t), i)
          /\ h2pending' = StillPending(PumpStream(With(h2, i, t), i))
          /\ work' = [work EXCEPT ![i] = streams]
      BY <2>6 DEF Works
    <3> HIDE DEF t
    <3>3. t.dispatched /\ t.heads = 1 /\ t.fin = FALSE
      BY <2>1, <2>2, <3>1 DEF SameRequest
    <3>4. Response(t)
      <4>1. s.window = s.send /\ s.made = s.sent + s.out BY <2>1 DEF Response
      <4>2. s.made \in Nat /\ s.sent \in Nat /\ s.out \in Nat BY <2>1 DEF Stream
      <4>3. t.made = t.sent + t.out BY <1>n, <3>1, <4>1, <4>2
      <4> QED BY <3>1, <3>3, <4>1, <4>3 DEF Response
    <3>5. t.out <= MaxQueue
      <4>1. s.out \in Nat BY <2>1 DEF Stream
      <4> QED BY <1>n, <2>6, <3>1, <4>1, Sizes
    <3> HIDE DEF s
    <3>6. SameRequest(h2.streams[i], t) /\ t.sent = h2.streams[i].sent /\ t.window = h2.streams[i].window
      BY <3>1 DEF s
    <3>7. (t.fin <=> streams = "over") /\ streams \in {"streams", "over"} BY <1>a, <3>3
    <3> QED BY <1>2, <1>a, <3>1, <3>2, <3>3, <3>4, <3>5, <3>6, <3>7, HandedKeeps
  <2> QED BY <2>4, <2>5, <2>6
<1> QED BY <1>1, <1>2

(* streamEnd: END_STREAM goes out at once, or with the last of the backlog. *)
LEMMA StreamEndKeeps ==
  ASSUME IInv, NEW i \in Ids, StreamEnd(i)
  PROVE  IInv' /\ Within(h2, h2')
<1> DEFINE over == "over"
<1>a. over \in Stages /\ over = "over" BY DEF Stages
<1>1. CASE i \notin h2pending
  <2>1. h2' = h2 /\ h2pending' = h2pending /\ work' = [work EXCEPT ![i] = over]
    BY <1>1, Found DEF StreamEnd, Works, StillPending
  <2> HIDE DEF over
  <2> QED BY <1>1, <1>a, <2>1, TooLateKeeps
<1>2. CASE i \in h2pending
  <2> DEFINE s == h2.streams[i]
             t == Finished(s)
             c == With(h2, i, t)
             last == TRUE
  <2>l. last = TRUE /\ last \in BOOLEAN OBVIOUS
  <2>1. /\ i \in Live(h2) /\ s \in Stream /\ Response(s)
        /\ s.dispatched /\ s.fin = (work[i] = "over")
        /\ work[i] = "streams" => s.heads = 1 /\ s.out <= MaxQueue
    BY <1>2, Claimed
  <2>2. work[i] = "streams" BY DEF StreamEnd
  <2>3. /\ h2 \in Connection /\ Requests(h2, 0) /\ Responses(h2, 0) /\ 0 \notin Live(h2)
        /\ h2pending \subseteq Ids
    BY Found
  <2>4. c = [h2 EXCEPT !.streams[i].fin = TRUE]
    <3>2. h2.streams \in [Live(h2) -> Stream] BY <2>3, LiveFacts
    <3> QED BY <2>1, <2>3, <3>2 DEF With, Finished, Connection, Stream
  <2>5. Works(IF c.streams[i].out = 0 THEN CloseStream(SendData(c, i, 0, last), i)
              ELSE PumpStream(c, i), i, over)
    BY <1>2, <2>4 DEF StreamEnd
  <2> HIDE DEF over, last
  <2>6. /\ t \in Stream /\ SameRequest(s, t)
        /\ t.send = s.send /\ t.window = s.window /\ t.sent = s.sent
        /\ t.out = s.out /\ t.held = s.held /\ t.fin = TRUE
        /\ t.heads = s.heads /\ t.made = s.made
    BY <2>1, FinishedFacts
  <2> HIDE DEF t
  <2>7. /\ Rewrites(h2, c, i) /\ c.streams[i] = t /\ Live(c) = Live(h2) /\ c \in Connection
        /\ c.send = h2.send /\ c.peer = h2.peer /\ c.torn = h2.torn
    BY <2>1, <2>3, <2>6, WithFacts, WithRewrites
  <2>8. t.heads = 1 /\ t.dispatched BY <2>1, <2>2, <2>6 DEF SameRequest
  <2>9. s.made = s.sent + s.out /\ s.sent \in Nat /\ s.out \in Nat /\ s.made \in Nat
    BY <2>1 DEF Response, Stream
  <2>10. CASE t.out = 0
    <3> DEFINE e == SendData(c, i, 0, last)
               d == CloseStream(e, i)
    <3>1. /\ h2' = d /\ h2pending' = StillPending(d) /\ work' = [work EXCEPT ![i] = over]
      BY <2>5, <2>7, <2>10 DEF Works
    <3> HIDE DEF c
    <3>2. LET u == e.streams[i]
          IN /\ Rewrites(c, e, i)
             /\ u.window = t.window - 0 /\ u.sent = t.sent + 0 /\ u.made = t.made
             /\ e.send = c.send - 0 /\ e.peer = c.peer - 0
             /\ e.torn = (c.torn \/ (last /\ (t.heads # 1 \/ u.sent # u.made)))
      <4> DEFINE z == 0
                 g == SendData(c, i, z, last)
                 r == c.streams[i]
                 u == g.streams[i]
      <4>1. z \in Nat /\ z = 0 /\ e = g OBVIOUS
      <4>2. i \in Live(c) /\ r = t BY <2>1, <2>7
      <4> HIDE DEF z, e
      <4>3. c \in Connection /\ last \in BOOLEAN /\ z \in Nat /\ i \in Live(c) BY <2>l, <2>7, <4>1, <4>2
      <4>4. /\ Rewrites(c, g, i)
            /\ u.send = r.send - z /\ u.window = r.window - z /\ u.sent = r.sent + z
            /\ u.out = r.out /\ u.held = r.held /\ u.fin = r.fin
            /\ u.heads = r.heads /\ u.made = r.made
            /\ g.send = c.send - z /\ g.peer = c.peer - z
            /\ g.torn = (c.torn \/ (last /\ (r.heads # 1 \/ u.sent # u.made)))
        <5> HIDE DEF c
        <5> QED BY <4>3, SendDataFacts
      <4> HIDE DEF g, r
      <4> QED BY <4>1, <4>2, <4>4
    <3> HIDE DEF e, last
    <3>3. /\ e.streams[i].window = t.window /\ e.streams[i].sent = t.sent
          /\ e.send = c.send /\ e.peer = c.peer
      <4>1. t.window \in Int /\ t.sent \in Int /\ c.send \in Int /\ c.peer \in Int
        BY <2>6, <2>7 DEF Stream, Connection
      <4> QED BY <3>2, <4>1
    <3>4. ~e.torn
      <4>1. t.sent = t.made BY <2>6, <2>9, <2>10
      <4>2. ~c.torn BY <2>3, <2>7 DEF Responses
      <4> QED BY <2>8, <3>2, <3>3, <4>1, <4>2
    <3>5. Rewrites(h2, e, i) BY <2>7, <3>2, RewritesTrans
    <3>6. Requests(e, 0) /\ i \in Live(e) /\ e \in Connection
      BY <2>1, <2>3, <3>5, RewritesKeeps DEF Rewrites
    <3>7. Responses(e, i)
      <4>1. e.peer = e.send BY <2>3, <2>7, <3>3 DEF Responses
      <4> QED BY <2>1, <2>3, <3>4, <3>5, <4>1, RewritesResponses
    <3>8. Others(h2, e, i)
      <4>1. e.send = h2.send /\ e.peer = h2.peer /\ e.streams[i].sent = h2.streams[i].sent
            /\ e.streams[i].window = h2.streams[i].window
        BY <2>6, <2>7, <3>3
      <4> QED BY <2>1, <2>3, <3>5, <4>1, RewritesOthers
    <3>9. Requests(d, 0) /\ Responses(d, 0) /\ Others(e, d, i) /\ i \notin Live(d)
      BY <3>6, <3>7, EndKeeps
    <3>10. h2pending' = h2pending \cap Live(d) BY <3>1 DEF StillPending
    <3> HIDE DEF d
    <3>11. d \in Connection BY <3>9 DEF Requests, Limits
    <3>12. Others(h2, d, i) BY <2>3, <3>6, <3>8, <3>9, <3>11, OthersTrans
    <3>13. HandlerOf(d, h2pending', work', i) BY <3>9, <3>10 DEF HandlerOf
    <3>14. h2pending' \subseteq Ids BY <2>3, <3>10
    <3>15. \A j \in Ids \ {i} : j \in h2pending' <=> j \in h2pending /\ j \in Live(d) BY <3>10
    <3> QED BY <1>a, <3>1, <3>9, <3>12, <3>13, <3>14, <3>15, ActKeeps
  <2>11. CASE t.out # 0
    <3>1. /\ h2' = PumpStream(With(h2, i, t), i)
          /\ h2pending' = StillPending(PumpStream(With(h2, i, t), i))
          /\ work' = [work EXCEPT ![i] = over]
      BY <2>5, <2>7, <2>11 DEF Works
    <3>2. Response(t)
      <4>1. t.out > 0 BY <2>6, <2>9, <2>11
      <4> QED BY <2>1, <2>6, <2>8, <4>1 DEF Response
    <3> HIDE DEF s
    <3>3. SameRequest(h2.streams[i], t) /\ t.sent = h2.streams[i].sent /\ t.window = h2.streams[i].window
      BY <2>6 DEF s
    <3>4. (t.fin <=> over = "over") /\ over \in {"streams", "over"} /\ over # "streams" BY <1>a, <2>6
    <3> QED BY <1>2, <1>a, <2>6, <3>1, <3>2, <3>3, <3>4, HandedKeeps
  <2> QED BY <2>10, <2>11
<1> QED BY <1>1, <1>2

LEMMA HandlerKeeps ==
  ASSUME IInv, NEW i \in Ids, Handler(i)
  PROVE  IInv' /\ Within(h2, h2')
<1>1. ASSUME NEW n \in Bodies \cup {TooBig}, Submit(i, n) PROVE IInv' /\ Within(h2, h2')
  <2> DEFINE over == "over"
  <2>1. over \in Stages /\ n \in Nat \cup {TooBig} BY Sizes DEF Stages
  <2>2. work[i] \in {"awaits", "late"} /\ Answer(i, n, over) BY <1>1 DEF Submit
  <2> HIDE DEF over
  <2> QED BY <2>1, <2>2, AnswerKeeps
<1>2. CASE TimesOut(i)
  <2> DEFINE late == "late"
             one == 1
  <2>1. late \in Stages /\ one \in Nat \cup {TooBig} BY DEF Stages
  <2>2. work[i] \in {"awaits", "late"} /\ Answer(i, one, late) BY <1>2 DEF TimesOut
  <2> HIDE DEF late, one
  <2> QED BY <2>1, <2>2, AnswerKeeps
<1>3. ASSUME NEW n \in Chunks, StreamChunk(i, n) PROVE IInv' /\ Within(h2, h2')
  BY <1>3, StreamChunkKeeps
<1>4. CASE StreamStart(i) BY <1>4, StreamStartKeeps
<1>5. CASE StreamEnd(i) BY <1>5, StreamEndKeeps
<1> QED BY <1>1, <1>2, <1>3, <1>4, <1>5 DEF Handler

-----------------------------------------------------------------------------
(* A connection without streams. *)
LEMMA NoStreams ==
  /\ <<>> \in UNION {[D -> Stream] : D \in SUBSET Ids} /\ DOMAIN <<>> = {}
  /\ Total(<<>>) = 0
<1>1. DOMAIN <<>> = {} OBVIOUS
<1>2. <<>> \in [{} -> Stream] OBVIOUS
<1>3. <<>> \in UNION {[D -> Stream] : D \in SUBSET Ids} BY <1>2
<1> DEFINE f == <<>>
<1>4. DOMAIN f = {} /\ Total(f) = Total(<<>>) BY <1>1
<1> HIDE DEF f
<1>5. IsFiniteSet(DOMAIN f) /\ \A i \in DOMAIN f : f[i].received \in Nat BY <1>4, FS_EmptySet
<1>6. PICK g \in [SUBSET DOMAIN f -> Nat] : Total(f) = g[DOMAIN f] /\ g[{}] = 0
  BY <1>5, TotalExists
<1>7. Total(f) = 0 BY <1>4, <1>6
<1> QED BY <1>1, <1>3, <1>4, <1>7

(* onClosed. *)
LEMMA OnClosedKeeps ==
  ASSUME IInv, OnClosed
  PROVE  IInv' /\ Within(h2, h2')
<1> DEFINE d == [h2 EXCEPT !.streams = <<>>, !.freed = TRUE]
<1>1. h2' = d /\ h2pending' = h2pending \ Live(h2) /\ work' = work /\ h2.closing # "no"
  BY DEF OnClosed, Orphaned, Open
<1>2. /\ h2 \in Connection /\ Requests(h2, 0) /\ Responses(h2, 0) /\ Handlers(h2, h2pending, work)
      /\ Limits(h2)
  BY DEF IInv, Good, Requests, Limits
<1>3. h2pending' = {} BY <1>1, <1>2 DEF Handlers, HandlerOf
<1>4. d \in Connection /\ d.streams = <<>> /\ d.freed = TRUE
  <2> DEFINE f == <<>>
  <2>1. f \in UNION {[D -> Stream] : D \in SUBSET Ids} BY NoStreams
  <2>2. d = [h2 EXCEPT !.streams = f, !.freed = TRUE] OBVIOUS
  <2> HIDE DEF f, d
  <2>3. d \in Connection /\ d.streams = f /\ d.freed = TRUE BY <1>2, <2>1, <2>2 DEF Connection
  <2> QED BY <2>3 DEF f
<1>5. /\ d.closing = h2.closing /\ d.inflight = h2.inflight /\ d.recv = h2.recv
      /\ d.told = h2.told /\ d.polite = h2.polite /\ d.peer = h2.peer
      /\ d.send = h2.send /\ d.torn = h2.torn
  BY <1>2 DEF Connection
<1> HIDE DEF d
<1>6. Live(d) = {} BY <1>4, NoStreams DEF Live
<1>7. Limits(d)
  <2>1. Cardinality(Live(d)) <= MaxConcurrent BY <1>6, FS_EmptySet, Sizes
  <2> QED BY <1>2, <1>4, <1>5, <1>6, <2>1 DEF Limits
<1>8. Requests(d, 0) BY <1>1, <1>2, <1>5, <1>7 DEF Requests
<1>9. Responses(d, 0) BY <1>2, <1>5, <1>6 DEF Responses
<1>10. Flowing(d) BY <1>6 DEF Flowing
<1>11. Handlers(d, h2pending', work')
  <2>1. \A i \in Ids : HandlerOf(d, h2pending', work', i) BY <1>3, <1>6 DEF HandlerOf
  <2> QED BY <1>1, <1>2, <1>3, <1>6, <2>1 DEF Handlers
<1>12. Good(d, h2pending', work') BY <1>8, <1>9, <1>10, <1>11 DEF Good
<1>13. Within(h2, d) BY <1>6 DEF Within
<1> QED BY <1>1, <1>12, <1>13 DEF IInv

LEMMA InitInv == Http2Init => IInv
<1> SUFFICES ASSUME Http2Init PROVE IInv OBVIOUS
<1> DEFINE f == <<>>
           t == Max({Default, RecvInitial})
<1>0. f \in UNION {[D -> Stream] : D \in SUBSET Ids} /\ DOMAIN f = {} /\ Total(f) = 0 BY NoStreams
<1>1. t = (IF Default >= RecvInitial THEN Default ELSE RecvInitial) /\ t \in Nat
  BY Sizes, MaxOfTwo
<1>2. /\ h2 = [streams |-> f, last |-> 0, cont |-> NoBlock,
               send |-> Default, recv |-> RecvInitial, unacked |-> 0,
               initial |-> Default, resets |-> 0, inflight |-> 0,
               closing |-> "no", freed |-> FALSE,
               peer |-> Default, told |-> t, polite |-> TRUE,
               torn |-> FALSE]
      /\ h2pending = {} /\ work = [i \in Ids |-> "none"]
  BY DEF Http2Init
<1> HIDE DEF f, t
<1>3. h2 \in Connection
  <2>1. NoBlock \in [id : Nat, trailer : BOOLEAN] BY DEF NoBlock
  <2> QED BY <1>0, <1>1, <1>2, <2>1, Sizes, SMTT(30) DEF Connection
<1>4. /\ h2.streams = f /\ h2.send = Default /\ h2.recv = RecvInitial /\ h2.unacked = 0
      /\ h2.resets = 0 /\ h2.inflight = 0 /\ h2.closing = "no" /\ ~h2.freed
      /\ h2.peer = Default /\ h2.told = t /\ ~h2.torn
  BY <1>2
<1>5. Live(h2) = {} BY <1>0, <1>4 DEF Live
<1>6. Limits(h2)
  <2>1. Cardinality(Live(h2)) = 0 BY <1>5, FS_EmptySet
  <2>2. Told => h2.told = h2.recv BY <1>1, <1>4, Sizes DEF Told
  <2> QED BY <1>3, <1>4, <1>5, <2>1, <2>2, Sizes DEF Limits
<1>7. Requests(h2, 0)
  <2>1. Uploads(h2, 0) BY <1>4, <1>5, Sizes DEF Uploads
  <2>2. Blocks(h2, 0) BY <1>5 DEF Blocks
  <2>3. Dispatched(h2.streams) = {} BY <1>0, <1>4 DEF Dispatched
  <2>4. h2.resets + Cardinality(Dispatched(h2.streams)) <= MaxConcurrent
    BY <1>4, <2>3, FS_EmptySet, Sizes
  <2> QED BY <1>0, <1>4, <1>6, <2>1, <2>2, <2>4 DEF Requests
<1>8. Responses(h2, 0) BY <1>4, <1>5 DEF Responses
<1>9. Flowing(h2) BY <1>5 DEF Flowing
<1>10. Handlers(h2, h2pending, work)
  <2>1. work \in [Ids -> Stages] BY <1>2 DEF Stages
  <2>2. \A i \in Ids : HandlerOf(h2, h2pending, work, i) BY <1>2, <1>5 DEF HandlerOf
  <2> QED BY <1>2, <1>4, <2>1, <2>2 DEF Handlers
<1> QED BY <1>7, <1>8, <1>9, <1>10 DEF IInv, Good

LEMMA StepInv == IInv /\ [Http2Next]_http2Vars => IInv' /\ Within(h2, h2')
<1> SUFFICES ASSUME IInv, [Http2Next]_http2Vars PROVE IInv' /\ Within(h2, h2') OBVIOUS
<1>1. CASE Frame BY <1>1, FrameKeeps
<1>2. CASE Sweep BY <1>2, CloseNow DEF Sweep
<1>3. CASE SocketLost BY <1>3, CloseNow DEF SocketLost
<1>4. CASE OnClosed BY <1>4, OnClosedKeeps
<1>5. ASSUME NEW i \in Ids, Handler(i) PROVE IInv' /\ Within(h2, h2') BY <1>5, HandlerKeeps
<1>6. CASE UNCHANGED http2Vars
  <2>1. h2' = h2 /\ h2pending' = h2pending /\ work' = work BY <1>6 DEF http2Vars
  <2>2. h2 \in Connection BY DEF IInv, Good, Requests, Limits
  <2>3. Within(h2, h2) BY <2>2, Unsent
  <2> QED BY <2>1, <2>3 DEF IInv
<1> QED BY <1>1, <1>2, <1>3, <1>4, <1>5, <1>6 DEF Http2Next

LEMMA Invariance == Http2Spec => []IInv
<1>1. IInv /\ [Http2Next]_http2Vars => IInv' BY StepInv
<1> QED BY <1>1, InitInv, PTL DEF Http2Spec

(* The records of a connection agree, whatever frames, answers, timeouts and
   ends follow one another (connection.zig, respond.zig). *)
THEOREM StreamsAccountedTheorem == Http2Spec => []StreamsAccounted
<1>1. IInv => StreamsAccounted
  <2> SUFFICES ASSUME IInv PROVE StreamsAccounted OBVIOUS
  <2>1. /\ h2 \in Connection /\ Limits(h2) /\ Requests(h2, 0) /\ Handlers(h2, h2pending, work)
    BY DEF IInv, Good, Requests, Limits
  <2>2. /\ Live(h2) \subseteq Ids /\ 0 \notin Live(h2)
        /\ \A i \in Live(h2) : h2.streams[i].received \in Nat /\ h2.streams[i].out \in Nat
    BY <2>1, LiveFacts DEF Stream
  <2>3. /\ h2pending \subseteq Ids /\ DOMAIN work = Ids
        /\ \A i \in Ids : work[i] \in Stages
        /\ \A i \in h2pending : /\ i \in Live(h2)
                                /\ work[i] = "streams" => h2.streams[i].out <= MaxQueue
    BY <2>1 DEF Handlers, HandlerOf
  <2>4. H2TypeOK
    <3>1. h2.inflight \in 0..BodyBudget BY <2>1, Sizes DEF Limits, Connection
    <3>2. \A i \in Live(h2) : h2.streams[i].received \in 0..MaxBody BY <2>1, <2>2, Sizes DEF Limits
    <3>3. Cardinality(Live(h2)) <= MaxConcurrent BY <2>1 DEF Limits
    <3> QED BY <2>2, <2>3, <3>1, <3>2, <3>3 DEF H2TypeOK, Stages
  <2>5. BudgetExact BY <2>1 DEF BudgetExact, Requests, Total, Live, Open
  <2>6. PendingLeadsHome BY <2>1, <2>3 DEF PendingLeadsHome, Handlers
  <2>7. CanBeFinished BY <2>1, <2>2 DEF CanBeFinished, Handlers, HandlerOf
  <2>8. CompleteIsDispatched
    <3>1. Open => Blocks(h2, 0) BY <2>1 DEF Open, Requests
    <3>2. ASSUME NEW i \in Live(h2), Blocks(h2, 0), h2.streams[i].ended, ~h2.streams[i].dispatched
          PROVE  h2.cont.id = i
      <4> DEFINE k == [id |-> i, trailer |-> FALSE]
      <4>1. k.id = i OBVIOUS
      <4>2. h2.cont = k BY <2>2, <3>2 DEF Blocks
      <4> HIDE DEF k
      <4> QED BY <4>1, <4>2
    <3> QED BY <3>1, <3>2 DEF CompleteIsDispatched
  <2> QED BY <2>4, <2>5, <2>6, <2>7, <2>8 DEF StreamsAccounted
<1> QED BY <1>1, Invariance, PTL

(* END_STREAM follows one head and every byte of the response, whoever of the
   handler, the timeout, the pump and the peer's windows acts last. *)
THEOREM ResponsesWholeTheorem == Http2Spec => []ResponsesWhole
<1>1. IInv => ResponsesWhole
  <2> SUFFICES ASSUME IInv PROVE ResponsesWhole OBVIOUS
  <2>1. h2 \in Connection /\ Responses(h2, 0) BY DEF IInv, Good, Requests, Limits
  <2>2. 0 \notin Live(h2) BY <2>1, LiveFacts
  <2> QED BY <2>1, <2>2 DEF ResponsesWhole, NothingTorn, AnsweredOnce, Responses, Response
<1> QED BY <1>1, Invariance, PTL

(* Flow control strands neither a response nor an upload and closes no peer that
   kept to the rules: if one pumpAll reaches every stream and the window the peer
   is told is the one there is (the two divergences of README). *)
THEOREM NothingStarvesTheorem ==
  ASSUME MaxConcurrent <= PumpMax, Default <= RecvInitial
  PROVE  Http2Spec => []NothingStarves
<1>1. IInv => NothingStarves
  <2> SUFFICES ASSUME IInv PROVE NothingStarves OBVIOUS
  <2>0. Pumps /\ Told BY DEF Pumps, Told
  <2>1. h2 \in Connection /\ Limits(h2) /\ Requests(h2, 0) /\ Flowing(h2)
    BY DEF IInv, Good, Requests, Limits
  <2>2. 0 \notin Live(h2) /\ \A i \in Live(h2) : h2.streams[i] \in Stream BY <2>1, LiveFacts
  <2>3. NothingStuck BY <2>0, <2>1 DEF NothingStuck, Flowing, Waits, Open
  <2>4. UploadsMayGoOn
    <3> SUFFICES ASSUME Open
                 PROVE  /\ h2.told > 0
                        /\ \A i \in Live(h2) : h2.streams[i].ended \/ h2.streams[i].told > 0
      BY DEF UploadsMayGoOn
    <3>1. Uploads(h2, 0) BY <2>1 DEF Requests, Open
    <3>2. h2.told > 0
      <4>1. h2.recv + h2.unacked = RecvInitial /\ h2.unacked < RecvInitial /\ h2.told = h2.recv
        BY <2>0, <2>1, <3>1 DEF Uploads, Limits
      <4>2. h2.recv \in Int /\ h2.unacked \in Nat BY <2>1 DEF Connection
      <4> QED BY <4>1, <4>2, Sizes
    <3>3. ASSUME NEW i \in Live(h2), ~h2.streams[i].ended PROVE h2.streams[i].told > 0
      <4>1. /\ h2.streams[i].recv + h2.streams[i].unacked = RecvInitial
            /\ h2.streams[i].unacked < RecvInitial /\ h2.streams[i].told = h2.streams[i].recv
        BY <2>1, <3>1, <3>3, UploadOf
      <4>2. h2.streams[i].recv \in Int /\ h2.streams[i].unacked \in Nat BY <2>2 DEF Stream
      <4> QED BY <4>1, <4>2, Sizes
    <3> QED BY <3>2, <3>3
  <2>5. FlowErrorsDeserved /\ ResetsForgiven
    BY <2>0, <2>1 DEF FlowErrorsDeserved, ResetsForgiven, Requests
  <2> QED BY <2>3, <2>4, <2>5 DEF NothingStarves
<1> QED BY <1>1, Invariance, PTL

(* DATA is sent only within what the peer has granted, on the stream and on the
   connection, also when a SETTINGS has shrunk the window below zero. *)
THEOREM NeverOversendsTheorem == Http2Spec => NeverOversends
<1> DEFINE A == \A i \in Live(h2) \cap Live(h2)' :
                  h2'.streams[i].sent > h2.streams[i].sent =>
                    h2'.streams[i].window >= 0 /\ h2'.peer >= 0
<1>1. IInv /\ [Http2Next]_http2Vars => A
  <2>1. Within(h2, h2') => A BY DEF Within, Live
  <2> QED BY <2>1, StepInv
<1>2. IInv /\ [Http2Next]_http2Vars => [A]_http2Vars BY <1>1
<1>3. [][A]_http2Vars => NeverOversends BY PTL DEF NeverOversends
<1> HIDE DEF A
<1> QED BY <1>2, <1>3, Invariance, PTL DEF Http2Spec

=============================================================================
