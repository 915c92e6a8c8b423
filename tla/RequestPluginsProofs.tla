----------------------- MODULE RequestPluginsProofs ------------------------
(***************************************************************************)
(* Proofs about the plugins that keep a store between requests: the cache, *)
(* the rate limiters, idempotency and sessions.  First what the operators  *)
(* on their TTL maps do to a map; then, for each plugin, the invariant     *)
(* that relates what the store holds to the requests that put it there,    *)
(* and its theorem, for every number of requests, keys, ceiling and time.  *)
(***************************************************************************)
EXTENDS Idempotency, SessionPlugin, HttpCache, RateLimit, FiniteSetTheorems, TLAPS

-----------------------------------------------------------------------------
(* The elements of a sequence at some of its indices.                        *)

Rank(I, i) == Cardinality({h \in I : h <= i})

\* Counting the indices up to one of them numbers the indices from one, in their order.
LEMMA RanksNumber ==
    ASSUME NEW n \in Nat, NEW I \in SUBSET (1..n)
    PROVE  /\ IsFiniteSet(I) /\ Cardinality(I) \in 0..n
           /\ \A i \in I : Rank(I, i) \in 1..Cardinality(I)
           /\ \A i, j \in I : i < j => Rank(I, i) < Rank(I, j)
           /\ \A k \in 1..Cardinality(I) : \E i \in I : Rank(I, i) = k
<1>0. IsFiniteSet(1..n) /\ Cardinality(1..n) = n
  BY FS_Interval
<1>1. IsFiniteSet(I) /\ Cardinality(I) \in Nat /\ Cardinality(I) <= n
  BY <1>0, FS_Subset, FS_CardinalityType
<1> DEFINE Upto(i) == {h \in I : h <= i}
<1>2. \A i \in Int : IsFiniteSet(Upto(i)) /\ Cardinality(Upto(i)) \in Nat /\ Cardinality(Upto(i)) <= Cardinality(I)
  <2> TAKE i \in Int
  <2>1. Upto(i) \in SUBSET I
    OBVIOUS
  <2> QED BY <2>1, <1>1, FS_Subset, FS_CardinalityType
<1>3. \A i \in I : Rank(I, i) \in 1..Cardinality(I)
  <2> TAKE i \in I
  <2>1. i \in Int /\ i \in Upto(i)
    OBVIOUS
  <2>2. Cardinality(Upto(i)) # 0
    BY <2>1, <1>2, FS_EmptySet
  <2> QED BY <2>1, <2>2, <1>1, <1>2 DEF Rank
<1>4. \A i, j \in I : i < j => Rank(I, i) < Rank(I, j)
  <2> SUFFICES ASSUME NEW i \in I, NEW j \in I, i < j PROVE Rank(I, i) < Rank(I, j)
    OBVIOUS
  <2>1. i \in Int /\ j \in Int
    OBVIOUS
  <2>2. Upto(i) \in SUBSET Upto(j) /\ j \in Upto(j) /\ j \notin Upto(i)
    <3>1. \A h \in I : h \in Int
      OBVIOUS
    <3>2. \A h \in Upto(i) : h \in Upto(j)
      BY <2>1, <3>1
    <3>3. j \in Upto(j) /\ j \notin Upto(i)
      BY <2>1
    <3> QED BY <3>2, <3>3
  <2>3. IsFiniteSet(Upto(j)) /\ IsFiniteSet(Upto(i)) /\ Cardinality(Upto(i)) \in Nat /\ Cardinality(Upto(j)) \in Nat
    BY <2>1, <1>2
  <2>4. Cardinality(Upto(i)) <= Cardinality(Upto(j))
        /\ (Cardinality(Upto(j)) = Cardinality(Upto(i)) => Upto(j) = Upto(i))
    BY <2>2, <2>3, FS_Subset
  <2>5. Cardinality(Upto(j)) # Cardinality(Upto(i))
    BY <2>2, <2>4
  <2> HIDE DEF Upto
  <2>6. Cardinality(Upto(i)) < Cardinality(Upto(j))
    BY <2>3, <2>4, <2>5
  <2> QED BY <2>6 DEF Rank, Upto
<1>5. \A k \in 1..Cardinality(I) : \E i \in I : Rank(I, i) = k
  <2> DEFINE c == Cardinality(I)
             f == [i \in I |-> Rank(I, i)]
  <2>1. f \in [I -> 1..c]
    BY <1>3
  <2>2. \A i, j \in I : f[i] = f[j] => i = j
    <3> SUFFICES ASSUME NEW i \in I, NEW j \in I, i # j PROVE f[i] # f[j]
      OBVIOUS
    <3>1. i < j \/ j < i
      OBVIOUS
    <3>2. Rank(I, i) \in Int /\ Rank(I, j) \in Int
      BY <1>3, <1>1
    <3>3. Rank(I, i) # Rank(I, j)
      BY <3>1, <3>2, <1>4
    <3> QED BY <3>3
  <2>3. f \in Injection(I, 1..c)
    BY <2>1, <2>2 DEF Injection, IsInjective
  <2>4. IsFiniteSet(1..c) /\ Cardinality(1..c) = c
    <3> HIDE DEF c
    <3>1. c \in Nat
      BY <1>1 DEF c
    <3> QED BY <3>1, FS_Interval
  <2>5. f \in Surjection(I, 1..c)
    <3> HIDE DEF f
    <3> QED BY <2>3, <2>4, FS_Injection
  <2>6. \A k \in 1..c : \E i \in I : f[i] = k
    BY <2>5 DEF Surjection
  <2> QED BY <2>6
<1> QED BY <1>1, <1>3, <1>4, <1>5

\* What w is when it is picked: as many elements as indices, each from its index, in the
\* order they had.
IsPick(w, m, I, S) ==
    /\ w \in Seq(S)
    /\ Len(w) = Cardinality(I) /\ Cardinality(I) \in 0..Len(m)
    /\ \A j \in 1..Cardinality(I) : Nth(I, j) \in I /\ w[j] = m[Nth(I, j)]
    /\ \A j, k \in 1..Cardinality(I) : j < k => Nth(I, j) < Nth(I, k)
    /\ \A i \in I : \E j \in 1..Cardinality(I) : Nth(I, j) = i

\* Picked picks.
LEMMA PickedIs ==
    ASSUME NEW S, NEW m \in Seq(S), NEW I \in SUBSET (1..Len(m))
    PROVE  IsPick(Picked(m, I), m, I, S)
<1> DEFINE c == Cardinality(I)
<1>1. Len(m) \in Nat
  OBVIOUS
<1>2. /\ c \in 0..Len(m)
      /\ \A i \in I : Rank(I, i) \in 1..c
      /\ \A i, j \in I : i < j => Rank(I, i) < Rank(I, j)
      /\ \A k \in 1..c : \E i \in I : Rank(I, i) = k
  BY <1>1, RanksNumber
<1>3. \A j \in 1..c : Nth(I, j) \in I /\ Rank(I, Nth(I, j)) = j
  <2> TAKE j \in 1..c
  <2>1. \E i \in I : Cardinality({h \in I : h <= i}) = j
    BY <1>2 DEF Rank
  <2> QED BY <2>1 DEF Nth, Rank
<1> HIDE DEF c
<1>4. \A i, j \in I : Rank(I, i) < Rank(I, j) => i < j
  <2> SUFFICES ASSUME NEW i \in I, NEW j \in I, Rank(I, i) < Rank(I, j), ~ i < j PROVE FALSE
    OBVIOUS
  <2>1. i \in Int /\ j \in Int
    OBVIOUS
  <2>2. Rank(I, i) \in Int /\ Rank(I, j) \in Int
    BY <1>2
  <2>3. CASE i = j
    BY <2>2, <2>3
  <2>4. CASE j < i
    BY <2>2, <2>4, <1>2
  <2> QED BY <2>1, <2>3, <2>4
<1>5. \A j, k \in 1..c : j < k => Nth(I, j) < Nth(I, k)
  <2> SUFFICES ASSUME NEW j \in 1..c, NEW k \in 1..c, j < k PROVE Nth(I, j) < Nth(I, k)
    OBVIOUS
  <2>1. Nth(I, j) \in I /\ Nth(I, k) \in I /\ Rank(I, Nth(I, j)) = j /\ Rank(I, Nth(I, k)) = k
    BY <1>3
  <2> QED BY <2>1, <1>4
<1>6. \A i \in I : \E j \in 1..c : Nth(I, j) = i
  <2> TAKE i \in I
  <2>1. Rank(I, i) \in 1..c
    BY <1>2
  <2> DEFINE k == Nth(I, Rank(I, i))
  <2>2. k \in I /\ Rank(I, k) = Rank(I, i)
    BY <2>1, <1>3
  <2>3. k = i
    <3>0. \A h \in I : h \in Int
      OBVIOUS
    <3>1. k \in Int /\ i \in Int
      BY <2>2, <3>0
    <3> HIDE DEF k
    <3>2. ~ (k < i) /\ ~ (i < k)
      BY <1>2, <2>1, <2>2
    <3> QED BY <3>1, <3>2
  <2> QED BY <2>1, <2>3
<1>7. Picked(m, I) = [j \in 1..c |-> m[Nth(I, j)]]
  BY DEF Picked, c
<1>8. \A j \in 1..c : m[Nth(I, j)] \in S
  <2> TAKE j \in 1..c
  <2>1. Nth(I, j) \in 1..Len(m)
    BY <1>3
  <2> QED BY <2>1
<1>9. Picked(m, I) \in Seq(S) /\ Len(Picked(m, I)) = c
  BY <1>2, <1>7, <1>8
<1> QED BY <1>2, <1>3, <1>5, <1>6, <1>7, <1>9 DEF c, IsPick

\* What is picked holds the elements of those indices, in their order.
LEMMA PickedKeeps ==
    ASSUME NEW S, NEW m \in Seq(S), NEW I \in SUBSET (1..Len(m))
    PROVE  LET w == Picked(m, I) IN
           /\ w \in Seq(S) /\ Len(w) \in Nat /\ Len(w) = Cardinality(I) /\ Len(w) <= Len(m)
           /\ \A j \in 1..Len(w) : \E i \in I : w[j] = m[i]
           /\ \A i \in I : \E j \in 1..Len(w) : w[j] = m[i]
           /\ \A j, k \in 1..Len(w) : j < k => \E a, b \in I : a < b /\ w[j] = m[a] /\ w[k] = m[b]
           /\ \A a, b \in I : a < b => \E j, k \in 1..Len(w) : j < k /\ w[j] = m[a] /\ w[k] = m[b]
<1>0. IsPick(Picked(m, I), m, I, S)
  BY PickedIs
<1> DEFINE w == Picked(m, I)
<1>1. /\ w \in Seq(S)
      /\ Len(w) = Cardinality(I) /\ Cardinality(I) \in 0..Len(m)
      /\ \A j \in 1..Cardinality(I) : Nth(I, j) \in I /\ w[j] = m[Nth(I, j)]
      /\ \A j, k \in 1..Cardinality(I) : j < k => Nth(I, j) < Nth(I, k)
      /\ \A i \in I : \E j \in 1..Cardinality(I) : Nth(I, j) = i
  BY <1>0 DEF IsPick
<1> HIDE DEF w
<1>2. Len(w) \in Nat /\ Len(w) <= Len(m)
  BY <1>1
<1>3. \A j \in 1..Len(w) : Nth(I, j) \in I /\ w[j] = m[Nth(I, j)]
  BY <1>1
<1>4. \A a, b \in I : a < b => \E j, k \in 1..Len(w) : j < k /\ w[j] = m[a] /\ w[k] = m[b]
  <2> SUFFICES ASSUME NEW a \in I, NEW b \in I, a < b
               PROVE  \E j, k \in 1..Len(w) : j < k /\ w[j] = m[a] /\ w[k] = m[b]
    OBVIOUS
  <2>1. PICK j \in 1..Len(w) : Nth(I, j) = a
    BY <1>1
  <2>2. PICK k \in 1..Len(w) : Nth(I, k) = b
    BY <1>1
  <2>3. a \in Int /\ b \in Int /\ j \in Int /\ k \in Int
    BY <1>2
  <2>4. j # k
    BY <2>1, <2>2, <2>3
  <2>5. ~ (k < j)
    <3> SUFFICES ASSUME k < j PROVE FALSE
      OBVIOUS
    <3>1. Nth(I, k) < Nth(I, j)
      BY <1>1
    <3> QED BY <2>1, <2>2, <2>3, <3>1
  <2>6. j < k
    BY <2>3, <2>4, <2>5
  <2>7. w[j] = m[a] /\ w[k] = m[b]
    BY <1>3, <2>1, <2>2
  <2> QED BY <2>6, <2>7
<1>5. \A j \in 1..Len(w) : \E i \in I : w[j] = m[i]
  BY <1>3
<1>6. \A i \in I : \E j \in 1..Len(w) : w[j] = m[i]
  <2> TAKE i \in I
  <2>1. PICK j \in 1..Len(w) : Nth(I, j) = i
    BY <1>1
  <2> QED BY <1>3, <2>1
<1>7. \A j, k \in 1..Len(w) : j < k => \E a, b \in I : a < b /\ w[j] = m[a] /\ w[k] = m[b]
  <2> SUFFICES ASSUME NEW j \in 1..Len(w), NEW k \in 1..Len(w), j < k
               PROVE  \E a, b \in I : a < b /\ w[j] = m[a] /\ w[k] = m[b]
    OBVIOUS
  <2>1. Nth(I, j) < Nth(I, k)
    BY <1>1
  <2> QED BY <1>3, <2>1
<1>8. w \in Seq(S) /\ Len(w) = Cardinality(I)
  BY <1>1
<1> QED BY <1>2, <1>4, <1>5, <1>6, <1>7, <1>8 DEF w

-----------------------------------------------------------------------------
(* The stores.                                                               *)

Elems(m) == {m[i] : i \in 1..Len(m)}

\* A map of entries with one entry a key.
IsMap(m, S) == m \in Seq(S) /\ KeysUnique(m)

LEMMA EntryFacts ==
    ASSUME NEW S, NEW m, IsMap(m, S)
    PROVE  /\ Elems(m) \subseteq S
           /\ \A e \in Elems(m) : Holds(m, e.key) /\ EntryOf(m, e.key) = e
           /\ \A d, e \in Elems(m) : d.key = e.key => d = e
           /\ \A k : Holds(m, k) => EntryOf(m, k) \in Elems(m) /\ EntryOf(m, k).key = k
           /\ \A k : Holds(m, k) <=> \E e \in Elems(m) : e.key = k
           /\ \A k : HoldsLive(m, k) <=> \E e \in Elems(m) : e.key = k /\ Live(e)
           /\ \A k : HoldsLive(m, k) <=> Holds(m, k) /\ Live(EntryOf(m, k))
<1>1. m \in Seq(S) /\ \A i, j \in 1..Len(m) : m[i].key = m[j].key => i = j
  BY DEF IsMap, KeysUnique
<1>2. \A i \in 1..Len(m) : m[i] \in S
  BY <1>1
<1>3. \A k : Holds(m, k) => \E i \in 1..Len(m) : EntryOf(m, k) = m[i] /\ m[i].key = k
  BY DEF Holds, EntryOf
<1>4. \A i \in 1..Len(m) : Holds(m, m[i].key) /\ EntryOf(m, m[i].key) = m[i]
  <2> TAKE i \in 1..Len(m)
  <2>1. Holds(m, m[i].key)
    BY DEF Holds
  <2>2. PICK j \in 1..Len(m) : EntryOf(m, m[i].key) = m[j] /\ m[j].key = m[i].key
    BY <2>1, <1>3
  <2> QED BY <1>1, <2>1, <2>2
<1>5. \A k : HoldsLive(m, k) <=> \E e \in Elems(m) : e.key = k /\ Live(e)
  BY DEF HoldsLive, Elems
<1>6. \A k : Holds(m, k) <=> \E e \in Elems(m) : e.key = k
  BY DEF Holds, Elems
<1>7. \A e \in Elems(m) : Holds(m, e.key) /\ EntryOf(m, e.key) = e
  BY <1>4 DEF Elems
<1>8. \A k : Holds(m, k) => EntryOf(m, k) \in Elems(m) /\ EntryOf(m, k).key = k
  BY <1>3 DEF Elems
<1>9. \A d, e \in Elems(m) : d.key = e.key => d = e
  BY <1>1 DEF Elems
<1>10. \A k : HoldsLive(m, k) <=> Holds(m, k) /\ Live(EntryOf(m, k))
  BY <1>5, <1>6, <1>8, <1>9
<1> QED BY <1>2, <1>5, <1>6, <1>7, <1>8, <1>9, <1>10 DEF Elems

LEMMA PickedMap ==
    ASSUME NEW S, NEW m, IsMap(m, S), NEW I \in SUBSET (1..Len(m))
    PROVE  /\ IsMap(Picked(m, I), S)
           /\ Elems(Picked(m, I)) = {m[i] : i \in I}
           /\ Len(Picked(m, I)) \in Nat /\ Len(Picked(m, I)) <= Len(m)
           /\ Len(Picked(m, I)) = Len(m) => I = 1..Len(m)
<1> DEFINE w == Picked(m, I)
<1>1. m \in Seq(S) /\ \A i, j \in 1..Len(m) : m[i].key = m[j].key => i = j
  BY DEF IsMap, KeysUnique
<1>2. /\ w \in Seq(S) /\ Len(w) \in Nat /\ Len(w) = Cardinality(I) /\ Len(w) <= Len(m)
      /\ \A j \in 1..Len(w) : \E i \in I : w[j] = m[i]
      /\ \A i \in I : \E j \in 1..Len(w) : w[j] = m[i]
      /\ \A j, k \in 1..Len(w) : j < k => \E a, b \in I : a < b /\ w[j] = m[a] /\ w[k] = m[b]
  BY <1>1, PickedKeeps
<1>3. Len(w) = Len(m) => I = 1..Len(m)
  <2>1. Len(m) \in Nat
    BY <1>1
  <2>2. IsFiniteSet(1..Len(m)) /\ Cardinality(1..Len(m)) = Len(m)
    BY <2>1, FS_Interval
  <2> QED BY <1>2, <2>2, FS_Subset
<1> HIDE DEF w
<1>4. \A j, k \in 1..Len(w) : w[j].key = w[k].key => j = k
  <2> SUFFICES ASSUME NEW j \in 1..Len(w), NEW k \in 1..Len(w), j < k PROVE w[j].key # w[k].key
    <3>1. \A j, k \in 1..Len(w) : j # k => j < k \/ k < j
      BY <1>2
    <3> QED BY <3>1
  <2>1. PICK a \in I, b \in I : a < b /\ w[j] = m[a] /\ w[k] = m[b]
    BY <1>2
  <2>2. a \in 1..Len(m) /\ b \in 1..Len(m) /\ a # b
    BY <2>1
  <2> QED BY <1>1, <2>1, <2>2
<1>5. IsMap(w, S)
  BY <1>2, <1>4 DEF IsMap, KeysUnique
<1>6. Elems(w) = {m[i] : i \in I}
  <2>1. ASSUME NEW e \in Elems(w) PROVE e \in {m[i] : i \in I}
    <3>1. PICK j \in 1..Len(w) : e = w[j]
      BY <2>1 DEF Elems
    <3> QED BY <1>2, <3>1
  <2>2. ASSUME NEW e \in {m[i] : i \in I} PROVE e \in Elems(w)
    <3>1. PICK i \in I : e = m[i]
      BY <2>2
    <3> QED BY <1>2, <3>1 DEF Elems
  <2> QED BY <2>1, <2>2
<1> QED BY <1>2, <1>3, <1>5, <1>6 DEF w

\* Map.delete
LEMMA WithoutFacts ==
    ASSUME NEW S, NEW m, IsMap(m, S), NEW k
    PROVE  /\ IsMap(Without(m, k), S)
           /\ Elems(Without(m, k)) = {e \in Elems(m) : e.key # k}
           /\ Len(Without(m, k)) \in Nat /\ Len(Without(m, k)) <= Len(m)
           /\ Holds(m, k) => Len(Without(m, k)) < Len(m)
<1> DEFINE I == {i \in 1..Len(m) : m[i].key # k}
<1>0. I \in SUBSET (1..Len(m)) /\ m \in Seq(S)
  BY DEF IsMap
<1>1. /\ IsMap(Picked(m, I), S) /\ Elems(Picked(m, I)) = {m[i] : i \in I}
      /\ Len(Picked(m, I)) \in Nat /\ Len(Picked(m, I)) <= Len(m)
      /\ Len(Picked(m, I)) = Len(m) => I = 1..Len(m)
  BY <1>0, PickedMap
<1>2. {m[i] : i \in I} = {e \in Elems(m) : e.key # k}
  BY DEF Elems
<1>3. Holds(m, k) => I # 1..Len(m)
  BY DEF Holds
<1>4. Len(m) \in Nat
  BY <1>0
<1> HIDE DEF I
<1>5. Without(m, k) = Picked(m, I)
  BY DEF Without, I
<1> QED BY <1>1, <1>2, <1>3, <1>4, <1>5

\* #evict
LEMMA UnexpiredFacts ==
    ASSUME NEW S, NEW m, IsMap(m, S)
    PROVE  /\ IsMap(Unexpired(m), S)
           /\ Elems(Unexpired(m)) = {e \in Elems(m) : Live(e)}
           /\ Len(Unexpired(m)) \in Nat /\ Len(Unexpired(m)) <= Len(m)
<1> DEFINE I == {i \in 1..Len(m) : Live(m[i])}
<1>0. I \in SUBSET (1..Len(m)) /\ m \in Seq(S)
  BY DEF IsMap
<1>1. /\ IsMap(Picked(m, I), S) /\ Elems(Picked(m, I)) = {m[i] : i \in I}
      /\ Len(Picked(m, I)) \in Nat /\ Len(Picked(m, I)) <= Len(m)
  BY <1>0, PickedMap
<1>2. {m[i] : i \in I} = {e \in Elems(m) : Live(e)}
  BY DEF Elems
<1> HIDE DEF I
<1>3. Unexpired(m) = Picked(m, I)
  BY DEF Unexpired, I
<1> QED BY <1>1, <1>2, <1>3

\* Map.set
LEMMA PutFacts ==
    ASSUME NEW S, NEW m, IsMap(m, S), NEW x \in S
    PROVE  /\ IsMap(Put(m, x), S)
           /\ Elems(Put(m, x)) = {x} \cup {e \in Elems(m) : e.key # x.key}
           /\ Len(Put(m, x)) = IF Holds(m, x.key) THEN Len(m) ELSE Len(m) + 1
<1>1. m \in Seq(S) /\ Len(m) \in Nat /\ \A i, j \in 1..Len(m) : m[i].key = m[j].key => i = j
  BY DEF IsMap, KeysUnique
<1>2. CASE Holds(m, x.key)
  <2> DEFINE w == [i \in 1..Len(m) |-> IF m[i].key = x.key THEN x ELSE m[i]]
  <2>1. Put(m, x) = w
    BY <1>2 DEF Put
  <2>2. w \in Seq(S) /\ Len(w) = Len(m)
    <3>1. \A i \in 1..Len(m) : w[i] \in S
      BY <1>1
    <3> QED BY <1>1, <3>1
  <2>3. \A i \in 1..Len(m) : w[i].key = m[i].key
    OBVIOUS
  <2>4. KeysUnique(w)
    BY <1>1, <2>2, <2>3 DEF KeysUnique
  <2>5. PICK j \in 1..Len(m) : m[j].key = x.key
    BY <1>2 DEF Holds
  <2>6. Elems(w) = {x} \cup {e \in Elems(m) : e.key # x.key}
    <3>1. \A i \in 1..Len(m) : w[i] = IF m[i].key = x.key THEN x ELSE m[i]
      OBVIOUS
    <3> HIDE DEF w
    <3>2. ASSUME NEW e \in Elems(w) PROVE e = x \/ (e \in Elems(m) /\ e.key # x.key)
      BY <2>2, <3>1 DEF Elems
    <3>3. ASSUME NEW e \in Elems(m), e.key # x.key PROVE e \in Elems(w)
      BY <2>2, <3>1, <3>3 DEF Elems
    <3>4. x \in Elems(w)
      BY <2>2, <3>1, <2>5 DEF Elems
    <3> QED BY <3>2, <3>3, <3>4
  <2> QED BY <1>2, <2>1, <2>2, <2>4, <2>6 DEF IsMap
<1>3. CASE ~ Holds(m, x.key)
  <2> DEFINE w == Append(m, x)
  <2>1. Put(m, x) = w
    BY <1>3 DEF Put
  <2>2. /\ w \in Seq(S) /\ Len(w) = Len(m) + 1
        /\ \A i \in 1..Len(m) : w[i] = m[i]
        /\ w[Len(m) + 1] = x
    BY <1>1
  <2> HIDE DEF w
  <2>3. \A i \in 1..Len(m) : m[i].key # x.key
    BY <1>3 DEF Holds
  <2>4. \A i \in 1..Len(w) : (i \in 1..Len(m)) \/ i = Len(m) + 1
    BY <1>1, <2>2
  <2>5. KeysUnique(w)
    <3> SUFFICES ASSUME NEW i \in 1..Len(w), NEW j \in 1..Len(w), w[i].key = w[j].key PROVE i = j
      BY DEF KeysUnique
    <3> QED BY <1>1, <2>2, <2>3, <2>4
  <2>6. Elems(w) = {x} \cup {e \in Elems(m) : e.key # x.key}
    <3>1. ASSUME NEW e \in Elems(w) PROVE e = x \/ (e \in Elems(m) /\ e.key # x.key)
      BY <2>2, <2>3, <2>4 DEF Elems
    <3>2. ASSUME NEW e \in Elems(m) PROVE e \in Elems(w)
      BY <1>1, <2>2 DEF Elems
    <3>3. x \in Elems(w)
      BY <1>1, <2>2 DEF Elems
    <3> QED BY <3>1, <3>2, <3>3
  <2> QED BY <1>3, <2>1, <2>2, <2>5, <2>6 DEF IsMap
<1> QED BY <1>2, <1>3

\* #capacityEvict
LEMMA MakeRoomFacts ==
    ASSUME NEW S, NEW m, IsMap(m, S), NEW max \in Nat \ {0}
    PROVE  /\ IsMap(MakeRoom(m, max), S)
           /\ Elems(MakeRoom(m, max)) \subseteq Elems(m)
           /\ Len(MakeRoom(m, max)) \in Nat /\ Len(MakeRoom(m, max)) < max
<1> DEFINE live == Unexpired(m)
<1>1. m \in Seq(S) /\ Len(m) \in Nat
  BY DEF IsMap
<1>2. IsMap(live, S) /\ Elems(live) \subseteq Elems(m) /\ Len(live) \in Nat
  BY UnexpiredFacts
<1> HIDE DEF live
<1>3. CASE Len(m) < max
  <2>1. MakeRoom(m, max) = m
    BY <1>3 DEF MakeRoom
  <2> QED BY <1>1, <1>3, <2>1
<1>4. CASE ~ (Len(m) < max) /\ Len(live) < max
  <2>1. MakeRoom(m, max) = live
    BY <1>4 DEF MakeRoom, live
  <2> QED BY <1>2, <1>4, <2>1
<1>5. CASE ~ (Len(m) < max) /\ ~ (Len(live) < max)
  <2> DEFINE d == Len(live) - max + 1
             w == SubSeq(live, d + 1, Len(live))
  <2>1. MakeRoom(m, max) = w
    <3>1. MakeRoom(m, max) = SubSeq(live, Len(live) - max + 2, Len(live))
      BY <1>5 DEF MakeRoom, live
    <3>2. d + 1 = Len(live) - max + 2
      BY <1>2
    <3> QED BY <3>1, <3>2
  <2>2. d \in 1..Len(live) /\ live \in Seq(S)
    BY <1>2, <1>5 DEF IsMap
  <2>3. w \in Seq(S) /\ Len(w) = Len(live) - d /\ \A i \in 1..(Len(live) - d) : w[i] = live[d + i]
    <3> HIDE DEF d
    <3> QED BY <2>2
  <2>4. Len(w) = max - 1
    BY <1>2, <2>3
  <2>5. \A i \in 1..Len(w) : d + i \in 1..Len(live) /\ w[i] = live[d + i]
    <3> HIDE DEF d
    <3> QED BY <1>2, <2>2, <2>3
  <2> HIDE DEF w
  <2>6. KeysUnique(w)
    <3> SUFFICES ASSUME NEW i \in 1..Len(w), NEW j \in 1..Len(w), w[i].key = w[j].key PROVE i = j
      BY DEF KeysUnique
    <3>1. live[d + i].key = live[d + j].key
      BY <2>5
    <3>2. d + i = d + j
      BY <1>2, <2>5, <3>1 DEF IsMap, KeysUnique
    <3> QED BY <2>2, <2>4, <3>2
  <2>7. Elems(w) \subseteq Elems(live)
    BY <2>5 DEF Elems
  <2> QED BY <1>2, <2>1, <2>3, <2>4, <2>6, <2>7 DEF IsMap
<1> QED BY <1>3, <1>4, <1>5

-----------------------------------------------------------------------------
(* The cache: the order of its entries is that of their last use.            *)

CacheEntry == [key : Pages, by : Fetches, exp : Nat]
Fetch == [st : {"none", "hit", "handling", "sending", "sent"}, page : Pages \cup {"none"},
          bypass : BOOLEAN, shareable : BOOLEAN, from : 0..MaxFetches, at : Nat]

\* The entries of m were used, and in their order.
UsedInOrder(m, r) ==
    /\ \A i \in 1..Len(m) : \E a \in 1..Len(r) : r[a] = m[i].key
    /\ \A i, j \in 1..Len(m) : i < j =>
           \E a, b \in 1..Len(r) : a < b /\ r[a] = m[i].key /\ r[b] = m[j].key

LEMMA PickedInOrder ==
    ASSUME NEW S, NEW m \in Seq(S), NEW I \in SUBSET (1..Len(m)), NEW r, UsedInOrder(m, r)
    PROVE  UsedInOrder(Picked(m, I), r)
<1> DEFINE w == Picked(m, I)
<1>1. /\ \A j \in 1..Len(w) : \E i \in I : w[j] = m[i]
      /\ \A j, k \in 1..Len(w) : j < k => \E a, b \in I : a < b /\ w[j] = m[a] /\ w[k] = m[b]
  BY PickedKeeps
<1> HIDE DEF w
<1>2. \A j \in 1..Len(w) : \E a \in 1..Len(r) : r[a] = w[j].key
  <2> TAKE j \in 1..Len(w)
  <2>1. PICK i \in I : w[j] = m[i]
    BY <1>1
  <2> QED BY <2>1 DEF UsedInOrder
<1>3. ASSUME NEW j \in 1..Len(w), NEW k \in 1..Len(w), j < k
      PROVE  \E a, b \in 1..Len(r) : a < b /\ r[a] = w[j].key /\ r[b] = w[k].key
  <2>1. PICK i \in I, h \in I : i < h /\ w[j] = m[i] /\ w[k] = m[h]
    BY <1>1, <1>3
  <2> QED BY <2>1 DEF UsedInOrder
<1>4. UsedInOrder(w, r)
  BY <1>2, <1>3 DEF UsedInOrder
<1> QED BY <1>4 DEF w

LEMMA TailInOrder ==
    ASSUME NEW S, NEW m \in Seq(S), m # <<>>, NEW r, UsedInOrder(m, r)
    PROVE  UsedInOrder(Tail(m), r)
<1> DEFINE w == Tail(m)
<1>1. Len(w) = Len(m) - 1 /\ Len(m) \in Nat \ {0} /\ \A i \in 1..Len(w) : w[i] = m[i + 1]
  OBVIOUS
<1> HIDE DEF w
<1>2. \A i \in 1..Len(w) : i + 1 \in 1..Len(m) /\ w[i] = m[i + 1]
  BY <1>1
<1>3. \A i \in 1..Len(w) : \E a \in 1..Len(r) : r[a] = w[i].key
  <2> TAKE i \in 1..Len(w)
  <2>1. i + 1 \in 1..Len(m) /\ w[i] = m[i + 1]
    BY <1>2
  <2>2. \A h \in 1..Len(m) : \E a \in 1..Len(r) : r[a] = m[h].key
    BY DEF UsedInOrder
  <2> QED BY <2>1, <2>2
<1>4. ASSUME NEW i \in 1..Len(w), NEW j \in 1..Len(w), i < j
      PROVE  \E a, b \in 1..Len(r) : a < b /\ r[a] = w[i].key /\ r[b] = w[j].key
  <2>1. i + 1 \in 1..Len(m) /\ j + 1 \in 1..Len(m) /\ i + 1 < j + 1
    BY <1>1, <1>4
  <2>2. PICK a \in 1..Len(r), b \in 1..Len(r) : a < b /\ r[a] = m[i + 1].key /\ r[b] = m[j + 1].key
    BY <2>1 DEF UsedInOrder
  <2>3. w[i] = m[i + 1] /\ w[j] = m[j + 1]
    BY <1>2
  <2> QED BY <2>2, <2>3
<1>5. UsedInOrder(w, r)
  BY <1>3, <1>4 DEF UsedInOrder
<1> QED BY <1>5 DEF w

\* An entry put at the newest place, of the page used last.
LEMMA TouchedInOrder ==
    ASSUME NEW S, NEW m, IsMap(m, S), NEW P, NEW r \in Seq(P), NEW x, UsedInOrder(m, r)
    PROVE  UsedInOrder(Append(Without(m, x.key), x),
                       Append(Picked(r, {i \in 1..Len(r) : r[i] # x.key}), x.key))
<1> DEFINE p == x.key
           I == {i \in 1..Len(m) : m[i].key # p}
           J == {i \in 1..Len(r) : r[i] # p}
           w == Without(m, p)
           s == Picked(r, J)
           w1 == Append(w, x)
           s1 == Append(s, p)
<1>1. /\ \A j \in 1..Len(w) : \E i \in I : w[j] = m[i]
      /\ \A j, k \in 1..Len(w) : j < k => \E a, b \in I : a < b /\ w[j] = m[a] /\ w[k] = m[b]
      /\ w \in Seq(S)
  <2>1. m \in Seq(S) /\ I \in SUBSET (1..Len(m))
    BY DEF IsMap
  <2> HIDE DEF I
  <2> DEFINE q == Picked(m, I)
  <2>2. /\ q \in Seq(S)
        /\ \A j \in 1..Len(q) : \E i \in I : q[j] = m[i]
        /\ \A j, k \in 1..Len(q) : j < k => \E a, b \in I : a < b /\ q[j] = m[a] /\ q[k] = m[b]
    BY <2>1, PickedKeeps
  <2>3. w = q
    BY DEF Without, I
  <2> HIDE DEF w, q
  <2> QED BY <2>2, <2>3
<1>2. /\ \A i \in J : \E j \in 1..Len(s) : s[j] = r[i]
      /\ \A a, b \in J : a < b => \E j, k \in 1..Len(s) : j < k /\ s[j] = r[a] /\ s[k] = r[b]
      /\ s \in Seq(P)
  <2>1. J \in SUBSET (1..Len(r))
    OBVIOUS
  <2> HIDE DEF J
  <2> QED BY <2>1, PickedKeeps
<1>3. \A i \in I : i \in 1..Len(m) /\ m[i].key # p
  OBVIOUS
<1>4. \A a \in 1..Len(r) : r[a] # p => a \in J
  OBVIOUS
<1> HIDE DEF I, J, w, s
<1>5. Len(w1) = Len(w) + 1 /\ w1[Len(w) + 1] = x /\ Len(w) \in Nat /\ \A i \in 1..Len(w) : w1[i] = w[i]
  BY <1>1
<1>6. Len(s1) = Len(s) + 1 /\ s1[Len(s) + 1] = p /\ Len(s) \in Nat /\ \A i \in 1..Len(s) : s1[i] = s[i]
  BY <1>2
<1> HIDE DEF w1, s1
<1>7. \A i \in 1..Len(w1) : i \in 1..Len(w) \/ i = Len(w) + 1
  BY <1>5
<1>8. \A j \in 1..Len(w) : \E a \in 1..Len(s) : s1[a] = w[j].key
  <2> TAKE j \in 1..Len(w)
  <2>1. PICK i \in I : w[j] = m[i]
    BY <1>1
  <2>2. PICK a \in 1..Len(r) : r[a] = m[i].key
    BY <1>3 DEF UsedInOrder
  <2>3. a \in J
    BY <1>3, <1>4, <2>2
  <2>4. PICK b \in 1..Len(s) : s[b] = r[a]
    BY <1>2, <2>3
  <2> QED BY <1>6, <2>1, <2>2, <2>4
<1>9. \A i \in 1..Len(w1) : \E a \in 1..Len(s1) : s1[a] = w1[i].key
  <2> TAKE i \in 1..Len(w1)
  <2>1. CASE i \in 1..Len(w)
    <3>1. PICK a \in 1..Len(s) : s1[a] = w[i].key
      BY <1>8, <2>1
    <3>2. a \in 1..Len(s1)
      BY <1>6
    <3> QED BY <1>5, <2>1, <3>1, <3>2
  <2>2. CASE i = Len(w) + 1
    <3>1. Len(s) + 1 \in 1..Len(s1)
      BY <1>6
    <3> QED BY <1>5, <1>6, <2>2, <3>1
  <2> QED BY <1>7, <2>1, <2>2
<1>10. ASSUME NEW i \in 1..Len(w1), NEW j \in 1..Len(w1), i < j
       PROVE  \E a, b \in 1..Len(s1) : a < b /\ s1[a] = w1[i].key /\ s1[b] = w1[j].key
  <2>1. i \in 1..Len(w)
    BY <1>5, <1>7, <1>10
  <2>2. CASE j \in 1..Len(w)
    <3>1. PICK h \in I, k \in I : h < k /\ w[i] = m[h] /\ w[j] = m[k]
      BY <1>1, <1>10, <2>1, <2>2
    <3>2. PICK a \in 1..Len(r), b \in 1..Len(r) : a < b /\ r[a] = m[h].key /\ r[b] = m[k].key
      BY <1>3, <3>1 DEF UsedInOrder
    <3>3. a \in J /\ b \in J
      BY <1>3, <1>4, <3>2
    <3>4. PICK c \in 1..Len(s), d \in 1..Len(s) : c < d /\ s[c] = r[a] /\ s[d] = r[b]
      BY <1>2, <3>2, <3>3
    <3>5. c \in 1..Len(s1) /\ d \in 1..Len(s1) /\ s1[c] = s[c] /\ s1[d] = s[d]
      BY <1>6
    <3>6. w1[i] = m[h] /\ w1[j] = m[k]
      BY <1>5, <2>1, <2>2, <3>1
    <3> QED BY <3>2, <3>4, <3>5, <3>6
  <2>3. CASE j = Len(w) + 1
    <3>1. PICK a \in 1..Len(s) : s1[a] = w[i].key
      BY <1>8, <2>1
    <3>2. a \in 1..Len(s1) /\ Len(s) + 1 \in 1..Len(s1) /\ a < Len(s) + 1
      BY <1>6
    <3>3. w1[i] = w[i] /\ w1[j].key = p
      BY <1>5, <2>1, <2>3
    <3> QED BY <1>6, <3>1, <3>2, <3>3
  <2> QED BY <1>7, <2>2, <2>3
<1>11. UsedInOrder(w1, s1)
  BY <1>9, <1>10 DEF UsedInOrder
<1> QED BY <1>11 DEF w1, s1, w, s, J

\* An entry holds what the request that stored it was answered, for the TTL from then on.
StoredBy(e, fs) ==
    LET g == fs[e.by] IN
    g.st = "sent" /\ g.page = e.key /\ g.shareable /\ ~g.bypass /\ e.exp = g.at + CacheTtl

CacheInv ==
    /\ now \in Nat
    /\ IsMap(entries, CacheEntry) /\ Len(entries) <= CacheMax
    /\ fetches \in [Fetches -> Fetch]
    /\ \A f \in Fetches : /\ fetches[f].st # "none" => fetches[f].page \in Pages
                          /\ fetches[f].st = "hit" => fetches[f].from \in Fetches
    /\ recency \in Seq(Pages)
    /\ \A e \in Elems(entries) : StoredBy(e, fetches)
    /\ HitIsShareable
    /\ UsedInOrder(entries, recency)

\* A step of one request, that stores what it has just sent or replays what is stored.
LEMMA FetchKeeps ==
    ASSUME CacheInv, NEW f \in Fetches, NEW r \in Fetch,
           fetches[f].st \notin {"sent", "hit"},
           fetches' = [fetches EXCEPT ![f] = r], now' = now,
           r.st # "none" => r.page \in Pages,
           r.st = "hit" => \E e \in Elems(entries) :
                               r.from = e.by /\ e.key = r.page /\ Live(e) /\ r.at = now,
           IsMap(entries', CacheEntry), Len(entries') <= CacheMax,
           \A e \in Elems(entries') : e \in Elems(entries) \/ (e.by = f /\ StoredBy(e, [fetches EXCEPT ![f] = r])),
           recency' \in Seq(Pages), UsedInOrder(entries', recency')
    PROVE  CacheInv'
<1> DEFINE u == [fetches EXCEPT ![f] = r]
<1>1. /\ now \in Nat /\ IsMap(entries, CacheEntry) /\ fetches \in [Fetches -> Fetch]
      /\ \A g \in Fetches : /\ fetches[g].st # "none" => fetches[g].page \in Pages
                            /\ fetches[g].st = "hit" => fetches[g].from \in Fetches
      /\ \A e \in Elems(entries) : StoredBy(e, fetches)
      /\ HitIsShareable
  BY DEF CacheInv
<1>2. u \in [Fetches -> Fetch] /\ u[f] = r /\ \A g \in Fetches \ {f} : u[g] = fetches[g]
  BY <1>1
<1> HIDE DEF u
<1>3. \A e \in Elems(entries) : e.by \in Fetches /\ e.by # f /\ e.exp \in Nat
  <2> TAKE e \in Elems(entries)
  <2>1. e \in CacheEntry
    BY <1>1, EntryFacts
  <2>2. fetches[e.by].st = "sent"
    BY <1>1 DEF StoredBy
  <2> QED BY <2>1, <2>2 DEF CacheEntry
<1>4. \A e \in Elems(entries') : StoredBy(e, u)
  <2> TAKE e \in Elems(entries')
  <2>1. CASE e \in Elems(entries)
    <3>1. u[e.by] = fetches[e.by]
      BY <1>2, <1>3, <2>1
    <3> QED BY <1>1, <2>1, <3>1 DEF StoredBy
  <2>2. CASE e.by = f /\ StoredBy(e, [fetches EXCEPT ![f] = r])
    BY <2>2 DEF u
  <2> QED BY <2>1, <2>2
<1>5. \A g \in Fetches : u[g].st = "hit" =>
        LET h == u[g].from IN
        /\ h \in Fetches /\ u[h].st = "sent" /\ u[h].page = u[g].page
        /\ u[h].shareable /\ ~u[h].bypass /\ u[g].at - u[h].at < CacheTtl
  <2> SUFFICES ASSUME NEW g \in Fetches, u[g].st = "hit"
               PROVE  /\ u[g].from \in Fetches /\ u[u[g].from].st = "sent"
                      /\ u[u[g].from].page = u[g].page /\ u[u[g].from].shareable
                      /\ ~u[u[g].from].bypass /\ u[g].at - u[u[g].from].at < CacheTtl
    OBVIOUS
  <2>1. CASE g = f
    <3>1. r.st = "hit"
      BY <1>2, <2>1
    <3>2. PICK e \in Elems(entries) : r.from = e.by /\ e.key = r.page /\ Live(e) /\ r.at = now
      BY <3>1
    <3>3. StoredBy(e, fetches) /\ e.by \in Fetches /\ u[e.by] = fetches[e.by] /\ e.exp \in Nat
      BY <1>1, <1>2, <1>3
    <3>4. fetches[e.by].at \in Nat
      BY <1>1, <3>3 DEF Fetch
    <3>5. now - fetches[e.by].at < CacheTtl
      BY <1>1, <3>2, <3>3, <3>4, CacheAssumption DEF Live, StoredBy
    <3> QED BY <1>2, <2>1, <3>2, <3>3, <3>5 DEF StoredBy
  <2>2. CASE g # f
    <3> DEFINE h == fetches[g].from
    <3>1. u[g] = fetches[g] /\ h \in Fetches
      BY <1>1, <1>2, <2>2
    <3>2. /\ fetches[h].st = "sent" /\ fetches[h].page = fetches[g].page
          /\ fetches[h].shareable /\ ~fetches[h].bypass /\ fetches[g].at - fetches[h].at < CacheTtl
      BY <1>1, <3>1 DEF HitIsShareable
    <3>3. u[h] = fetches[h]
      BY <1>2, <3>1, <3>2
    <3> QED BY <3>1, <3>2, <3>3
  <2> QED BY <2>1, <2>2
<1>6. \A g \in Fetches : u[g].st # "none" => u[g].page \in Pages
  BY <1>1, <1>2
<1>7. fetches' = u
  BY DEF u
<1>8. HitIsShareable'
  BY <1>5, <1>7 DEF HitIsShareable
<1>9. \A g \in Fetches : u[g].st = "hit" => u[g].from \in Fetches
  BY <1>5
<1>10. now' \in Nat
  BY <1>1
<1> QED BY <1>2, <1>4, <1>6, <1>7, <1>8, <1>9, <1>10 DEF CacheInv

\* The store drops entries, or lets time pass.
LEMMA EntriesGoKeep ==
    ASSUME CacheInv, fetches' = fetches, recency' = recency, now' \in Nat,
           IsMap(entries', CacheEntry), Len(entries') <= CacheMax,
           Elems(entries') \subseteq Elems(entries), UsedInOrder(entries', recency)
    PROVE  CacheInv'
<1>1. \A e \in Elems(entries') : StoredBy(e, fetches')
  BY DEF CacheInv
<1>2. HitIsShareable'
  BY DEF CacheInv, HitIsShareable
<1> QED BY <1>1, <1>2 DEF CacheInv

LEMMA HitKeeps ==
    ASSUME CacheInv, NEW f \in Fetches, NEW p \in Pages, Hit(f, p) PROVE CacheInv'
<1> DEFINE e == EntryOf(entries, p)
           r == [NotFetched EXCEPT !.st = "hit", !.page = p, !.from = e.by, !.at = now]
           w == Without(entries, p)
<1>1. /\ now \in Nat /\ IsMap(entries, CacheEntry) /\ Len(entries) <= CacheMax
      /\ recency \in Seq(Pages) /\ UsedInOrder(entries, recency)
  BY DEF CacheInv
<1>2. /\ HoldsLive(entries, p) /\ fetches[f].st = "none" /\ now' = now
      /\ entries' = Append(w, e) /\ fetches' = [fetches EXCEPT ![f] = r]
      /\ recency' = Append(Picked(recency, {i \in 1..Len(recency) : recency[i] # p}), p)
  BY DEF Hit, Touch, NextFetch
<1>3. e \in Elems(entries) /\ e.key = p /\ Live(e) /\ Holds(entries, p) /\ e \in CacheEntry
  <2>1. Holds(entries, p) /\ Live(e)
    BY <1>1, <1>2, EntryFacts
  <2>2. e \in Elems(entries) /\ e.key = p /\ Elems(entries) \subseteq CacheEntry
    BY <1>1, <2>1, EntryFacts
  <2> QED BY <2>1, <2>2
<1>4. /\ IsMap(w, CacheEntry) /\ Elems(w) = {d \in Elems(entries) : d.key # p}
      /\ Len(w) \in Nat /\ Len(w) < Len(entries)
  BY <1>1, <1>3, WithoutFacts
<1>5. r \in Fetch /\ r.st = "hit" /\ r.page = p /\ r.from = e.by /\ r.at = now
  <2>1. e.by \in 0..MaxFetches
    BY <1>3, CacheAssumption DEF CacheEntry, Fetches
  <2>2. NotFetched \in Fetch
    BY CacheAssumption DEF NotFetched, Fetch
  <2> HIDE DEF e
  <2> QED BY <1>1, <2>1, <2>2 DEF Fetch
<1> HIDE DEF w, e, r
<1>6. IsMap(entries', CacheEntry) /\ Len(entries') <= CacheMax /\ Elems(entries') = {e} \cup Elems(w)
  <2>1. ~ Holds(w, p)
    BY <1>4, EntryFacts
  <2>2. Put(w, e) = Append(w, e)
    BY <1>3, <2>1 DEF Put
  <2>3. IsMap(Put(w, e), CacheEntry) /\ Elems(Put(w, e)) = {e} \cup {d \in Elems(w) : d.key # e.key}
        /\ Len(Put(w, e)) = Len(w) + 1
    BY <1>3, <1>4, <2>1, PutFacts
  <2>4. Len(entries) \in Nat
    BY <1>1 DEF IsMap
  <2>5. Len(w) + 1 <= CacheMax
    BY <1>1, <1>4, <2>4, CacheAssumption
  <2> QED BY <1>2, <1>3, <1>4, <2>2, <2>3, <2>5
<1>7. Elems(entries') \subseteq Elems(entries)
  BY <1>3, <1>4, <1>6
<1>8. UsedInOrder(entries', recency')
  <2>1. UsedInOrder(Append(Without(entries, e.key), e),
                    Append(Picked(recency, {i \in 1..Len(recency) : recency[i] # e.key}), e.key))
    BY <1>1, TouchedInOrder
  <2> QED BY <1>2, <1>3, <2>1 DEF w
<1>9. recency' \in Seq(Pages)
  <2>1. Picked(recency, {i \in 1..Len(recency) : recency[i] # p}) \in Seq(Pages)
    <3> DEFINE J == {i \in 1..Len(recency) : recency[i] # p}
    <3>1. J \in SUBSET (1..Len(recency))
      OBVIOUS
    <3> HIDE DEF J
    <3>2. Picked(recency, J) \in Seq(Pages)
      BY <1>1, <3>1, PickedIs DEF IsPick
    <3> QED BY <3>2 DEF J
  <2> QED BY <1>2, <2>1
<1> QED BY <1>2, <1>3, <1>5, <1>6, <1>7, <1>8, <1>9, FetchKeeps

LEMMA MissKeeps ==
    ASSUME CacheInv, NEW f \in Fetches, NEW p \in Pages, NEW b \in BOOLEAN, Miss(f, p, b) PROVE CacheInv'
<1> DEFINE r == [NotFetched EXCEPT !.st = "handling", !.page = p, !.bypass = b]
           w == Without(entries, p)
<1>1. /\ now \in Nat /\ IsMap(entries, CacheEntry) /\ Len(entries) <= CacheMax
      /\ recency \in Seq(Pages) /\ UsedInOrder(entries, recency)
  BY DEF CacheInv
<1>2. /\ fetches[f].st = "none" /\ now' = now /\ recency' = recency
      /\ entries' = IF b THEN entries ELSE w
      /\ fetches' = [fetches EXCEPT ![f] = r]
  BY DEF Miss, NextFetch
<1>3. r \in Fetch /\ r.st = "handling" /\ r.page = p
  <2>1. NotFetched \in Fetch
    BY CacheAssumption DEF NotFetched, Fetch
  <2> QED BY <2>1 DEF Fetch
<1> HIDE DEF r
<1>4. /\ IsMap(w, CacheEntry) /\ Elems(w) = {d \in Elems(entries) : d.key # p}
      /\ Len(w) \in Nat /\ Len(w) <= Len(entries)
  BY <1>1, WithoutFacts
<1>5. UsedInOrder(w, recency)
  <2>1. entries \in Seq(CacheEntry)
    BY <1>1 DEF IsMap
  <2> DEFINE I == {i \in 1..Len(entries) : entries[i].key # p}
  <2>2. I \in SUBSET (1..Len(entries)) /\ w = Picked(entries, I)
    BY DEF Without
  <2> HIDE DEF I, w
  <2> QED BY <1>1, <2>1, <2>2, PickedInOrder
<1>6. Len(w) <= CacheMax
  <2>1. Len(entries) \in Nat
    BY <1>1 DEF IsMap
  <2> QED BY <1>1, <1>4, <2>1, CacheAssumption
<1> HIDE DEF w
<1>7. IsMap(entries', CacheEntry) /\ Len(entries') <= CacheMax /\ Elems(entries') \subseteq Elems(entries)
      /\ UsedInOrder(entries', recency')
  BY <1>1, <1>2, <1>4, <1>5, <1>6
<1> QED BY <1>1, <1>2, <1>3, <1>7, FetchKeeps

LEMMA SendKeeps ==
    ASSUME CacheInv, NEW f \in Fetches,
           (\E s \in BOOLEAN : HandlerResponds(f, s)) \/ SendUnstored(f)
    PROVE  CacheInv'
<1>1. /\ now \in Nat /\ IsMap(entries, CacheEntry) /\ Len(entries) <= CacheMax
      /\ recency \in Seq(Pages) /\ UsedInOrder(entries, recency)
      /\ fetches \in [Fetches -> Fetch] /\ (fetches[f].st # "none" => fetches[f].page \in Pages)
  BY DEF CacheInv
<1>2. now' = now /\ entries' = entries /\ recency' = recency
  BY DEF HandlerResponds, SendUnstored
<1>3. \E r \in Fetch : /\ fetches' = [fetches EXCEPT ![f] = r] /\ r.st \in {"sending", "sent"}
                       /\ r.page = fetches[f].page /\ fetches[f].st \in {"handling", "sending"}
  <2>1. ASSUME NEW s \in BOOLEAN, HandlerResponds(f, s)
        PROVE  \E r \in Fetch : /\ fetches' = [fetches EXCEPT ![f] = r] /\ r.st \in {"sending", "sent"}
                                /\ r.page = fetches[f].page /\ fetches[f].st \in {"handling", "sending"}
    <3> DEFINE r == [fetches[f] EXCEPT !.st = "sending", !.shareable = s]
    <3>1. fetches' = [fetches EXCEPT ![f] = r] /\ fetches[f].st = "handling"
      BY <1>1, <2>1 DEF HandlerResponds
    <3>2. r \in Fetch /\ r.st = "sending" /\ r.page = fetches[f].page
      BY <1>1 DEF Fetch
    <3> QED BY <3>1, <3>2
  <2>2. ASSUME SendUnstored(f)
        PROVE  \E r \in Fetch : /\ fetches' = [fetches EXCEPT ![f] = r] /\ r.st \in {"sending", "sent"}
                                /\ r.page = fetches[f].page /\ fetches[f].st \in {"handling", "sending"}
    <3> DEFINE r == [fetches[f] EXCEPT !.st = "sent", !.at = now]
    <3>1. fetches' = [fetches EXCEPT ![f] = r] /\ fetches[f].st = "sending"
      BY <1>1, <2>2 DEF SendUnstored
    <3>2. r \in Fetch /\ r.st = "sent" /\ r.page = fetches[f].page
      BY <1>1 DEF Fetch
    <3> QED BY <3>1, <3>2
  <2> QED BY <2>1, <2>2
<1>4. PICK r \in Fetch : /\ fetches' = [fetches EXCEPT ![f] = r] /\ r.st \in {"sending", "sent"}
                         /\ r.page = fetches[f].page /\ fetches[f].st \in {"handling", "sending"}
  BY <1>3
<1> QED BY <1>1, <1>2, <1>4, FetchKeeps

LEMMA StoreKeeps ==
    ASSUME CacheInv, NEW f \in Fetches, SendStored(f) PROVE CacheInv'
<1> DEFINE p == fetches[f].page
           x == [key |-> p, by |-> f, exp |-> now + CacheTtl]
           r == [fetches[f] EXCEPT !.st = "sent", !.at = now]
           w == Without(entries, p)
           m == Append(w, x)
<1>1. /\ now \in Nat /\ IsMap(entries, CacheEntry) /\ Len(entries) <= CacheMax
      /\ recency \in Seq(Pages) /\ UsedInOrder(entries, recency)
      /\ fetches \in [Fetches -> Fetch] /\ (fetches[f].st # "none" => p \in Pages)
  BY DEF CacheInv
<1>2. /\ fetches[f].st = "sending" /\ now' = now
      /\ fetches[f].shareable /\ ~fetches[f].bypass
      /\ entries' = IF Len(m) > CacheMax THEN Tail(m) ELSE m
      /\ fetches' = [fetches EXCEPT ![f] = r]
      /\ recency' = Append(Picked(recency, {i \in 1..Len(recency) : recency[i] # p}), p)
  BY <1>1 DEF SendStored, Touch, Kept, Storeable
<1>3. p \in Pages
  BY <1>1, <1>2
<1>4. /\ r \in Fetch /\ r.st = "sent" /\ r.page = p /\ r.at = now
      /\ r.shareable = fetches[f].shareable /\ r.bypass = fetches[f].bypass
  BY <1>1 DEF Fetch
<1>5. x \in CacheEntry /\ x.key = p /\ x.by = f /\ x.exp = now + CacheTtl
  BY <1>1, <1>3, CacheAssumption DEF CacheEntry
<1>6. /\ IsMap(w, CacheEntry) /\ Elems(w) = {d \in Elems(entries) : d.key # p}
      /\ Len(w) \in Nat /\ Len(w) <= Len(entries)
  BY <1>1, WithoutFacts
<1>7. UsedInOrder(m, recency')
  <2> HIDE DEF x
  <2>1. UsedInOrder(Append(Without(entries, x.key), x),
                    Append(Picked(recency, {i \in 1..Len(recency) : recency[i] # x.key}), x.key))
    BY <1>1, TouchedInOrder
  <2> QED BY <1>2, <1>5, <2>1
<1>8. StoredBy(x, [fetches EXCEPT ![f] = r])
  <2> HIDE DEF r, x
  <2>1. [fetches EXCEPT ![f] = r][f] = r
    BY <1>1
  <2> QED BY <1>2, <1>4, <1>5, <2>1 DEF StoredBy
<1> HIDE DEF p, x, r, w
<1>9. IsMap(m, CacheEntry) /\ Elems(m) = {x} \cup Elems(w) /\ Len(m) = Len(w) + 1
  <2>1. ~ Holds(w, p)
    BY <1>6, EntryFacts
  <2>2. Put(w, x) = Append(w, x)
    BY <1>5, <2>1 DEF Put
  <2>3. IsMap(Put(w, x), CacheEntry) /\ Elems(Put(w, x)) = {x} \cup {d \in Elems(w) : d.key # x.key}
        /\ Len(Put(w, x)) = Len(w) + 1
    BY <1>5, <1>6, <2>1, PutFacts
  <2> QED BY <1>5, <1>6, <2>2, <2>3
<1> HIDE DEF m
<1>10. /\ IsMap(entries', CacheEntry) /\ Len(entries') <= CacheMax
       /\ Elems(entries') \subseteq Elems(m) /\ UsedInOrder(entries', recency')
  <2>1. CASE ~ (Len(m) > CacheMax)
    <3>1. entries' = m
      BY <1>2, <2>1
    <3> QED BY <1>6, <1>7, <1>9, <2>1, <3>1, CacheAssumption
  <2>2. CASE Len(m) > CacheMax
    <3> DEFINE t == Tail(m)
    <3>1. entries' = t
      BY <1>2, <2>2
    <3>2. m \in Seq(CacheEntry) /\ Len(m) \in Nat \ {0} /\ Len(entries) \in Nat
      BY <1>1, <1>6, <1>9 DEF IsMap
    <3>3. t \in Seq(CacheEntry) /\ Len(t) = Len(m) - 1 /\ \A i \in 1..Len(t) : i + 1 \in 1..Len(m) /\ t[i] = m[i + 1]
      BY <3>2
    <3>4. UsedInOrder(t, recency')
      <4>1. m # <<>>
        BY <3>2
      <4> QED BY <1>7, <3>2, <4>1, TailInOrder
    <3> HIDE DEF t
    <3>5. KeysUnique(t)
      <4> SUFFICES ASSUME NEW i \in 1..Len(t), NEW j \in 1..Len(t), t[i].key = t[j].key PROVE i = j
        BY DEF KeysUnique
      <4>1. i + 1 = j + 1
        BY <1>9, <3>3 DEF IsMap, KeysUnique
      <4> QED BY <4>1
    <3>6. Elems(t) \subseteq Elems(m)
      BY <3>3 DEF Elems
    <3>7. Len(t) <= CacheMax
      BY <1>1, <1>6, <1>9, <3>2, <3>3, CacheAssumption
    <3> QED BY <3>1, <3>3, <3>4, <3>5, <3>6, <3>7 DEF IsMap
  <2> QED BY <2>1, <2>2
<1>11. \A e \in Elems(entries') : e \in Elems(entries) \/ (e.by = f /\ StoredBy(e, [fetches EXCEPT ![f] = r]))
  BY <1>5, <1>6, <1>8, <1>9, <1>10
<1>12. recency' \in Seq(Pages)
  <2> DEFINE J == {i \in 1..Len(recency) : recency[i] # p}
  <2>1. J \in SUBSET (1..Len(recency))
    OBVIOUS
  <2>2. recency' = Append(Picked(recency, J), p)
    BY <1>2
  <2> HIDE DEF J
  <2>3. Picked(recency, J) \in Seq(Pages)
    BY <1>1, <2>1, PickedIs DEF IsPick
  <2> QED BY <1>3, <2>2, <2>3
<1> QED BY <1>2, <1>3, <1>4, <1>10, <1>11, <1>12, FetchKeeps

LEMMA CacheInvHolds == CacheSpec => []CacheInv
<1>1. ClockInit /\ CacheInit => CacheInv
  <2> SUFFICES ASSUME ClockInit, CacheInit PROVE CacheInv
    OBVIOUS
  <2>1. now \in Nat /\ entries = <<>> /\ recency = <<>> /\ fetches = [f \in Fetches |-> NotFetched]
    BY DEF ClockInit, CacheInit
  <2>2. NotFetched \in Fetch /\ NotFetched.st = "none"
    BY CacheAssumption DEF NotFetched, Fetch
  <2>3. fetches \in [Fetches -> Fetch] /\ \A f \in Fetches : fetches[f].st = "none"
    BY <2>1, <2>2
  <2>4. IsMap(entries, CacheEntry) /\ Elems(entries) = {} /\ Len(entries) = 0 /\ recency \in Seq(Pages)
    BY <2>1 DEF IsMap, KeysUnique, Elems
  <2>5. UsedInOrder(entries, recency)
    BY <2>4 DEF UsedInOrder
  <2>6. HitIsShareable
    BY <2>3 DEF HitIsShareable
  <2> QED BY <2>1, <2>3, <2>4, <2>5, <2>6, CacheAssumption DEF CacheInv
<1>2. CacheInv /\ [CacheStep \/ CacheTick]_<<now, cacheVars>> => CacheInv'
  <2> SUFFICES ASSUME CacheInv, [CacheStep \/ CacheTick]_<<now, cacheVars>> PROVE CacheInv'
    OBVIOUS
  <2>1. /\ now \in Nat /\ IsMap(entries, CacheEntry) /\ Len(entries) <= CacheMax
        /\ UsedInOrder(entries, recency)
    BY DEF CacheInv
  <2>2. ASSUME NEW f \in Fetches, NEW p \in Pages, Hit(f, p) PROVE CacheInv'
    BY <2>2, HitKeeps
  <2>3. ASSUME NEW f \in Fetches, NEW p \in Pages, NEW b \in BOOLEAN, Miss(f, p, b) PROVE CacheInv'
    BY <2>3, MissKeeps
  <2>4. ASSUME NEW f \in Fetches, NEW s \in BOOLEAN, HandlerResponds(f, s) PROVE CacheInv'
    BY <2>4, SendKeeps
  <2>5. ASSUME NEW f \in Fetches, SendStored(f) PROVE CacheInv'
    BY <2>5, StoreKeeps
  <2>6. ASSUME NEW f \in Fetches, SendUnstored(f) PROVE CacheInv'
    BY <2>6, SendKeeps
  <2>7. CASE EvictEntries
    <3> DEFINE w == Unexpired(entries)
    <3>1. IsMap(w, CacheEntry) /\ Elems(w) \subseteq Elems(entries) /\ Len(w) \in Nat /\ Len(w) <= Len(entries)
      BY <2>1, UnexpiredFacts
    <3>2. Len(w) <= CacheMax
      <4>1. Len(entries) \in Nat
        BY <2>1 DEF IsMap
      <4> QED BY <2>1, <3>1, <4>1, CacheAssumption
    <3>3. UsedInOrder(w, recency)
      <4> DEFINE I == {i \in 1..Len(entries) : Live(entries[i])}
      <4>1. entries \in Seq(CacheEntry) /\ I \in SUBSET (1..Len(entries)) /\ w = Picked(entries, I)
        BY <2>1 DEF IsMap, Unexpired
      <4> HIDE DEF I, w
      <4> QED BY <2>1, <4>1, PickedInOrder
    <3>4. entries' = w /\ fetches' = fetches /\ recency' = recency /\ now' = now
      BY <2>7 DEF EvictEntries
    <3> HIDE DEF w
    <3> QED BY <2>1, <3>1, <3>2, <3>3, <3>4, EntriesGoKeep
  <2>8. CASE CacheTick
    <3>1. now' \in Nat /\ entries' = entries /\ fetches' = fetches /\ recency' = recency
      BY <2>1, <2>8 DEF CacheTick, Tick, cacheVars
    <3> QED BY <2>1, <3>1, EntriesGoKeep
  <2>9. CASE UNCHANGED <<now, cacheVars>>
    <3>1. now' \in Nat /\ entries' = entries /\ fetches' = fetches /\ recency' = recency
      BY <2>1, <2>9 DEF cacheVars
    <3> QED BY <2>1, <3>1, EntriesGoKeep
  <2> QED BY <2>2, <2>3, <2>4, <2>5, <2>6, <2>7, <2>8, <2>9 DEF CacheStep
<1> QED BY <1>1, <1>2, PTL DEF CacheSpec

(***************************************************************************)
(* The cache plugin (cache.ts, store.ts): whatever requests are under way   *)
(* at once, a hit replays a response for its own page that was meant to be  *)
(* shared and is younger than the TTL, and the store, never above its       *)
(* ceiling, keeps its entries in the order of their last use.               *)
(***************************************************************************)
THEOREM CacheTheorem == CacheSpec => []CacheCorrect
<1>1. CacheInv => CacheCorrect
  <2> SUFFICES ASSUME CacheInv PROVE CacheCorrect
    OBVIOUS
  <2>1. CacheTypeOK
    BY DEF CacheInv, CacheTypeOK, IsMap, CacheEntry
  <2>2. HitIsShareable
    BY DEF CacheInv
  <2>3. LruOrder
    BY DEF CacheInv, LruOrder, UsedInOrder
  <2> QED BY <2>1, <2>2, <2>3 DEF CacheCorrect
<1> QED BY <1>1, CacheInvHolds, PTL

-----------------------------------------------------------------------------
(* The rate limiters: what a bucket counts, and what passes in a window.     *)

Bucket == [key : Peers, count : Nat \ {0}, exp : Nat]
HitRecord == [st : {"unmade", "adding", "passed", "blocked", "refused"}, peer : Peers \cup {"none"},
              at : Nat, read : Nat, metered : BOOLEAN]

\* The verdicts on p since t, those that let it pass, and those of these before u.
SeenSince(hs, p, t) == {g \in Hits : hs[g].st \in {"passed", "blocked"} /\ hs[g].peer = p /\ hs[g].at >= t}
PassedSince(hs, p, t) == {g \in Hits : hs[g].st = "passed" /\ hs[g].peer = p /\ hs[g].at >= t}
PassedIn(hs, p, t, u) == {g \in PassedSince(hs, p, t) : hs[g].at < u}

AllMetered(hs, p) == \A h \in Hits : hs[h].peer = p => hs[h].metered

\* While the window of p runs, what passed in it is within its count and the budget, and what
\* passed before it, lately, within the budget; when none runs, what passed lately is.
Budgeted(hs, m, t, p, w) ==
    AllMetered(hs, p) =>
        /\ \A b \in Elems(m) : b.key = p /\ t < b.exp =>
               /\ Cardinality(PassedSince(hs, p, b.exp - w)) <= b.count
               /\ Cardinality(PassedSince(hs, p, b.exp - w)) <= Budget
               /\ Cardinality(PassedIn(hs, p, t - w + 1, b.exp - w)) <= Budget
        /\ (\A b \in Elems(m) : b.key = p => b.exp <= t) =>
               /\ Cardinality(PassedSince(hs, p, t - w + 1)) <= Budget
               /\ \A g \in PassedSince(hs, p, 0) : hs[g].at < t

\* A bucket's window has begun, and it counts no more than the verdicts since then.
Earned(b, hs, t, w) ==
    /\ w <= b.exp /\ b.exp <= t + w
    /\ b.count <= Cardinality(SeenSince(hs, b.key, b.exp - w))

HitOK(g, store) ==
    /\ g.st # "unmade" => g.peer \in Peers
    /\ g.st \in {"unmade", "adding"} => g.metered
    /\ g.st = "adding" => store = "memcached"

RateInv ==
    /\ now \in 0..MaxTime /\ lastSweep \in 0..MaxTime
    /\ backend \in {"memory", "redis", "memcached", "native"}
    /\ IsMap(buckets, Bucket)
    /\ backend \in {"memory", "native"} => Len(buckets) <= BucketMax
    /\ backend = "native" => \A b \in Elems(buckets) : b.count <= Budget
    /\ hits \in [Hits -> HitRecord]
    /\ \A h \in Hits : HitOK(hits[h], backend) /\ hits[h].at <= now
    /\ \A b \in Elems(buckets) : Earned(b, hits, now, Life(backend))
    /\ \A p \in Peers : Budgeted(hits, buckets, now, p, Life(backend))

\* A store's window is a time.
LEMMA LifeType == Life(backend) \in Nat \ {0}
<1> DEFINE ceil == (WindowLen + Second - 1) \div Second
           secs == IF ceil > 1 THEN ceil ELSE 1
           ttl == IF secs < MaxTtl THEN secs ELSE MaxTtl
<1>1. WindowLen \in Nat \ {0} /\ Second \in Nat \ {0} /\ MaxTtl \in Nat \ {0}
  BY RateLimitAssumption
<1>2. ceil \in Int
  BY <1>1
<1> HIDE DEF ceil
<1>3. secs \in Nat \ {0}
  BY <1>2
<1> HIDE DEF secs
<1>4. ttl \in Nat \ {0}
  BY <1>1, <1>3
<1> HIDE DEF ttl
<1>5. Second * ttl \in Nat \ {0}
  BY <1>1, <1>4
<1>6. KeyLife \in Nat \ {0}
  BY <1>5 DEF KeyLife, ttl, secs, ceil
<1> QED BY <1>1, <1>6 DEF Life

LEMMA HitSets ==
    ASSUME NEW T \in SUBSET Hits
    PROVE  /\ IsFiniteSet(T) /\ Cardinality(T) \in Nat
           /\ \A S \in SUBSET T : IsFiniteSet(S) /\ Cardinality(S) \in Nat /\ Cardinality(S) <= Cardinality(T)
<1>1. IsFiniteSet(Hits)
  BY RateLimitAssumption, FS_Interval DEF Hits
<1>2. IsFiniteSet(T) /\ Cardinality(T) \in Nat
  BY <1>1, FS_Subset, FS_CardinalityType
<1> QED BY <1>2, FS_Subset, FS_CardinalityType

\* A request's verdict: it is written down, and what it evicts is no longer metered.
Marked(g) ==
    hits[g].st # "unmade" /\ HoldsLive(buckets, hits[g].peer) /\ ~Holds(buckets', hits[g].peer)
Verdicts(h, r) ==
    hits' = [g \in Hits |-> IF g = h THEN r
                            ELSE IF Marked(g) THEN [hits[g] EXCEPT !.metered = FALSE] ELSE hits[g]]

LEMMA VerdictsFacts ==
    ASSUME hits \in [Hits -> HitRecord], NEW h \in Hits, NEW r \in HitRecord, Verdicts(h, r)
    PROVE  /\ hits' \in [Hits -> HitRecord] /\ hits'[h] = r
           /\ \A g \in Hits \ {h} :
                 /\ hits'[g].st = hits[g].st /\ hits'[g].peer = hits[g].peer /\ hits'[g].at = hits[g].at
                 /\ hits'[g].metered = (hits[g].metered /\ ~Marked(g))
<1> DEFINE u == [g \in Hits |-> IF g = h THEN r
                            ELSE IF Marked(g) THEN [hits[g] EXCEPT !.metered = FALSE] ELSE hits[g]]
<1>1. hits' = u
  BY DEF Verdicts
<1>2. \A g \in Hits : hits[g] \in HitRecord
  OBVIOUS
<1>3. ASSUME NEW g \in Hits \ {h}
      PROVE  /\ u[g] \in HitRecord /\ u[g].st = hits[g].st /\ u[g].peer = hits[g].peer /\ u[g].at = hits[g].at
             /\ u[g].metered = (hits[g].metered /\ ~Marked(g))
  <2>1. CASE Marked(g)
    <3>1. u[g] = [hits[g] EXCEPT !.metered = FALSE]
      BY <2>1
    <3> QED BY <1>2, <2>1, <3>1 DEF HitRecord
  <2>2. CASE ~Marked(g)
    <3>1. u[g] = hits[g]
      BY <2>2
    <3>2. hits[g].metered \in BOOLEAN
      BY <1>2 DEF HitRecord
    <3> QED BY <1>2, <2>2, <3>1, <3>2
  <2> QED BY <2>1, <2>2
<1>4. u[h] = r
  OBVIOUS
<1>5. u \in [Hits -> HitRecord]
  BY <1>3, <1>4
<1> HIDE DEF u
<1> QED BY <1>1, <1>3, <1>4, <1>5

\* The verdicts there are stay, and one is added.
LEMMA SeenGrows ==
    ASSUME hits \in [Hits -> HitRecord], NEW h \in Hits, NEW r \in HitRecord, Verdicts(h, r),
           hits[h].st \in {"unmade", "adding"}
    PROVE  /\ \A p : \A t \in Int :
                 Cardinality(SeenSince(hits, p, t)) <= Cardinality(SeenSince(hits', p, t))
           /\ \A t \in Int : r.st \in {"passed", "blocked"} /\ r.at >= t =>
                 Cardinality(SeenSince(hits', r.peer, t)) = Cardinality(SeenSince(hits, r.peer, t)) + 1
<1>1. /\ hits'[h] = r
      /\ \A g \in Hits \ {h} : hits'[g].st = hits[g].st /\ hits'[g].peer = hits[g].peer /\ hits'[g].at = hits[g].at
  BY VerdictsFacts
<1>2. ASSUME NEW p, NEW t \in Int
      PROVE  Cardinality(SeenSince(hits, p, t)) <= Cardinality(SeenSince(hits', p, t))
  <2>1. SeenSince(hits, p, t) \in SUBSET SeenSince(hits', p, t)
    BY <1>1 DEF SeenSince
  <2>2. SeenSince(hits', p, t) \in SUBSET Hits
    BY DEF SeenSince
  <2> QED BY <2>1, <2>2, HitSets
<1>3. ASSUME NEW t \in Int, r.st \in {"passed", "blocked"}, r.at >= t
      PROVE  Cardinality(SeenSince(hits', r.peer, t)) = Cardinality(SeenSince(hits, r.peer, t)) + 1
  <2>1. SeenSince(hits', r.peer, t) = SeenSince(hits, r.peer, t) \cup {h}
    BY <1>1, <1>3 DEF SeenSince
  <2>2. SeenSince(hits, r.peer, t) \in SUBSET Hits /\ h \notin SeenSince(hits, r.peer, t)
    BY DEF SeenSince
  <2>3. IsFiniteSet(SeenSince(hits, r.peer, t))
    BY <2>2, HitSets
  <2> QED BY <2>1, <2>2, <2>3, FS_AddElement
<1> QED BY <1>2, <1>3

\* The same of those that pass, at most one of which is added, for the peer of the request.
LEMMA PassedGrows ==
    ASSUME hits \in [Hits -> HitRecord], NEW h \in Hits, NEW r \in HitRecord, Verdicts(h, r),
           hits[h].st \in {"unmade", "adding"}
    PROVE  /\ \A p, t : p # r.peer \/ r.st # "passed" =>
                 PassedSince(hits', p, t) = PassedSince(hits, p, t)
           /\ \A t \in Int : r.st = "passed" /\ r.at >= t =>
                 /\ PassedSince(hits', r.peer, t) = PassedSince(hits, r.peer, t) \cup {h}
                 /\ Cardinality(PassedSince(hits', r.peer, t)) = Cardinality(PassedSince(hits, r.peer, t)) + 1
           /\ \A p, t, u : (r.at >= u \/ p # r.peer \/ r.st # "passed") /\ u \in Int =>
                 PassedIn(hits', p, t, u) = PassedIn(hits, p, t, u)
<1>1. /\ hits'[h] = r /\ hits' \in [Hits -> HitRecord]
      /\ \A g \in Hits \ {h} : hits'[g].st = hits[g].st /\ hits'[g].peer = hits[g].peer /\ hits'[g].at = hits[g].at
  BY VerdictsFacts
<1>2. \A p, t : p # r.peer \/ r.st # "passed" => PassedSince(hits', p, t) = PassedSince(hits, p, t)
  BY <1>1 DEF PassedSince
<1>3. ASSUME NEW t \in Int, r.st = "passed", r.at >= t
      PROVE  /\ PassedSince(hits', r.peer, t) = PassedSince(hits, r.peer, t) \cup {h}
             /\ Cardinality(PassedSince(hits', r.peer, t)) = Cardinality(PassedSince(hits, r.peer, t)) + 1
  <2>1. PassedSince(hits', r.peer, t) = PassedSince(hits, r.peer, t) \cup {h}
    BY <1>1, <1>3 DEF PassedSince
  <2>2. PassedSince(hits, r.peer, t) \in SUBSET Hits /\ h \notin PassedSince(hits, r.peer, t)
    BY DEF PassedSince
  <2>3. IsFiniteSet(PassedSince(hits, r.peer, t))
    BY <2>2, HitSets
  <2> QED BY <2>1, <2>2, <2>3, FS_AddElement
<1>4. ASSUME NEW p, NEW t, NEW u \in Int, r.at >= u \/ p # r.peer \/ r.st # "passed"
      PROVE  PassedIn(hits', p, t, u) = PassedIn(hits, p, t, u)
  <2>1. r.at \in Int
    BY DEF HitRecord
  <2>2. ASSUME NEW g \in Hits PROVE g \in PassedIn(hits', p, t, u) <=> g \in PassedIn(hits, p, t, u)
    <3>1. CASE g = h
      <4>1. g \notin PassedIn(hits, p, t, u)
        BY <3>1 DEF PassedIn, PassedSince
      <4>2. g \notin PassedIn(hits', p, t, u)
        BY <1>1, <1>4, <2>1, <3>1 DEF PassedIn, PassedSince
      <4> QED BY <4>1, <4>2
    <3>2. CASE g # h
      BY <1>1, <3>2 DEF PassedIn, PassedSince
    <3> QED BY <3>1, <3>2
  <2> QED BY <2>2 DEF PassedIn, PassedSince
<1> QED BY <1>2, <1>3, <1>4

\* A bucket keeps what it has earned.
LEMMA EarnedKept ==
    ASSUME RateInv, NEW h \in Hits, NEW r \in HitRecord, Verdicts(h, r),
           hits[h].st \in {"unmade", "adding"}, NEW b \in Elems(buckets)
    PROVE  Earned(b, hits', now, Life(backend))
<1>1. Earned(b, hits, now, Life(backend)) /\ hits \in [Hits -> HitRecord] /\ b \in Bucket
  BY EntryFacts DEF RateInv
<1>2. b.exp - Life(backend) \in Int /\ b.count \in Nat
  BY <1>1, RateLimitAssumption, LifeType DEF Bucket
<1> DEFINE c == Cardinality(SeenSince(hits, b.key, b.exp - Life(backend)))
           d == Cardinality(SeenSince(hits', b.key, b.exp - Life(backend)))
<1>3. c <= d
  BY <1>1, <1>2, SeenGrows
<1>4. c \in Nat /\ d \in Nat
  <2>1. SeenSince(hits, b.key, b.exp - Life(backend)) \in SUBSET Hits /\ SeenSince(hits', b.key, b.exp - Life(backend)) \in SUBSET Hits
    BY DEF SeenSince
  <2> QED BY <2>1, HitSets
<1>5. b.count <= c
  BY <1>1 DEF Earned
<1> HIDE DEF c, d
<1>6. b.count <= d
  BY <1>2, <1>3, <1>4, <1>5
<1> QED BY <1>1, <1>6 DEF Earned, d

LEMMA MeteredBefore ==
    ASSUME RateInv, NEW h \in Hits, NEW r \in HitRecord, Verdicts(h, r),
           hits[h].st \in {"unmade", "adding"}, NEW q, AllMetered(hits', q)
    PROVE  /\ AllMetered(hits, q)
           /\ \A g \in Hits \ {h} : hits[g].peer = q => ~Marked(g)
<1>1. /\ hits \in [Hits -> HitRecord] /\ HitOK(hits[h], backend)
  BY DEF RateInv
<1>2. \A g \in Hits \ {h} : hits'[g].peer = hits[g].peer /\ hits'[g].metered = (hits[g].metered /\ ~Marked(g))
  BY <1>1, VerdictsFacts
<1>3. hits[h].metered
  BY <1>1 DEF HitOK
<1>4. \A g \in Hits \ {h} : hits[g].peer = q => hits[g].metered /\ ~Marked(g)
  BY <1>2 DEF AllMetered
<1> QED BY <1>3, <1>4 DEF AllMetered

\* The peers other than the one whose request is decided.
LEMMA OthersBudgeted ==
    ASSUME RateInv, NEW h \in Hits, NEW r \in HitRecord, Verdicts(h, r),
           hits[h].st \in {"unmade", "adding"}, NEW q \in Peers, q # r.peer,
           \A e \in Elems(buckets') : e.key = q => e \in Elems(buckets),
           IsMap(buckets', Bucket)
    PROVE  Budgeted(hits', buckets', now, q, Life(backend))
<1> SUFFICES ASSUME AllMetered(hits', q)
             PROVE  /\ \A b \in Elems(buckets') : b.key = q /\ now < b.exp =>
                           /\ Cardinality(PassedSince(hits', q, b.exp - Life(backend))) <= b.count
                           /\ Cardinality(PassedSince(hits', q, b.exp - Life(backend))) <= Budget
                           /\ Cardinality(PassedIn(hits', q, now - Life(backend) + 1, b.exp - Life(backend))) <= Budget
                    /\ (\A b \in Elems(buckets') : b.key = q => b.exp <= now) =>
                           /\ Cardinality(PassedSince(hits', q, now - Life(backend) + 1)) <= Budget
                           /\ \A g \in PassedSince(hits', q, 0) : hits'[g].at < now
  BY DEF Budgeted
<1>1. /\ now \in Nat /\ IsMap(buckets, Bucket) /\ hits \in [Hits -> HitRecord]
      /\ Elems(buckets) \subseteq Bucket /\ Budgeted(hits, buckets, now, q, Life(backend))
  BY EntryFacts DEF RateInv
<1>2. AllMetered(hits, q) /\ \A g \in Hits \ {h} : hits[g].peer = q => ~Marked(g)
  BY MeteredBefore
<1>3. /\ \A t : PassedSince(hits', q, t) = PassedSince(hits, q, t)
      /\ \A t, u : u \in Int => PassedIn(hits', q, t, u) = PassedIn(hits, q, t, u)
  BY <1>1, PassedGrows
<1>4. \A b \in Elems(buckets) : b.exp - Life(backend) \in Int /\ b.exp \in Int
  BY <1>1, RateLimitAssumption, LifeType DEF Bucket
<1>5. /\ hits'[h] = r /\ \A g \in Hits \ {h} : hits'[g].at = hits[g].at
  BY <1>1, VerdictsFacts
<1>6. \A g \in PassedSince(hits', q, 0) : g \in PassedSince(hits, q, 0) /\ hits'[g].at = hits[g].at
  BY <1>3, <1>5 DEF PassedSince
<1>7. \A b \in Elems(buckets') : b.key = q /\ now < b.exp =>
                           /\ Cardinality(PassedSince(hits', q, b.exp - Life(backend))) <= b.count
                           /\ Cardinality(PassedSince(hits', q, b.exp - Life(backend))) <= Budget
                           /\ Cardinality(PassedIn(hits', q, now - Life(backend) + 1, b.exp - Life(backend))) <= Budget
  <2> SUFFICES ASSUME NEW b \in Elems(buckets'), b.key = q, now < b.exp
               PROVE  /\ Cardinality(PassedSince(hits', q, b.exp - Life(backend))) <= b.count
                      /\ Cardinality(PassedSince(hits', q, b.exp - Life(backend))) <= Budget
                      /\ Cardinality(PassedIn(hits', q, now - Life(backend) + 1, b.exp - Life(backend))) <= Budget
    OBVIOUS
  <2>1. b \in Elems(buckets)
    OBVIOUS
  <2>2. /\ Cardinality(PassedSince(hits, q, b.exp - Life(backend))) <= b.count
        /\ Cardinality(PassedSince(hits, q, b.exp - Life(backend))) <= Budget
        /\ Cardinality(PassedIn(hits, q, now - Life(backend) + 1, b.exp - Life(backend))) <= Budget
    BY <1>1, <1>2, <2>1 DEF Budgeted
  <2>3. b.exp - Life(backend) \in Int
    BY <1>4, <2>1
  <2> QED BY <1>3, <2>2, <2>3
<1>8. ASSUME \A b \in Elems(buckets') : b.key = q => b.exp <= now
      PROVE  /\ Cardinality(PassedSince(hits', q, now - Life(backend) + 1)) <= Budget
             /\ \A g \in PassedSince(hits', q, 0) : hits'[g].at < now
  <2>1. CASE \A b \in Elems(buckets) : b.key = q => b.exp <= now
    <3>1. /\ Cardinality(PassedSince(hits, q, now - Life(backend) + 1)) <= Budget
          /\ \A g \in PassedSince(hits, q, 0) : hits[g].at < now
      BY <1>1, <1>2, <2>1 DEF Budgeted
    <3>2. Cardinality(PassedSince(hits', q, now - Life(backend) + 1)) <= Budget
      BY <1>3, <3>1
    <3> QED BY <1>6, <3>1, <3>2
  <2>2. CASE \E b \in Elems(buckets) : b.key = q /\ ~ (b.exp <= now)
    <3>1. PICK b \in Elems(buckets) : b.key = q /\ now < b.exp
      BY <1>1, <1>4, <2>2
    <3>2. HoldsLive(buckets, q)
      BY <1>1, <3>1, EntryFacts DEF Live
    <3>3. ~ Holds(buckets', q)
      <4> SUFFICES ASSUME Holds(buckets', q) PROVE FALSE
        OBVIOUS
      <4>1. PICK e \in Elems(buckets') : e.key = q
        BY EntryFacts
      <4>2. e \in Elems(buckets)
        BY <4>1
      <4>3. e = b
        BY <1>1, <3>1, <4>1, <4>2, EntryFacts
      <4>4. b.exp <= now /\ b.exp \in Int
        BY <1>4, <1>8, <4>1, <4>3
      <4> QED BY <1>1, <3>1, <4>4
    <3>4. \A g \in Hits \ {h} : hits[g].peer = q => hits[g].st = "unmade"
      BY <1>2, <3>2, <3>3 DEF Marked
    <3>5. \A t : PassedSince(hits', q, t) = {}
      <4>1. \A g \in Hits \ {h} : hits'[g].peer = hits[g].peer /\ hits'[g].st = hits[g].st
        BY <1>1, VerdictsFacts
      <4> QED BY <1>5, <3>4, <4>1 DEF PassedSince
    <3>6. Cardinality({}) = 0 /\ 0 <= Budget
      BY FS_EmptySet, RateLimitAssumption
    <3>7. Cardinality(PassedSince(hits', q, now - Life(backend) + 1)) <= Budget
      BY <3>5, <3>6
    <3>8. \A g \in PassedSince(hits', q, 0) : hits'[g].at < now
      BY <3>5
    <3> QED BY <3>7, <3>8
  <2> QED BY <2>1, <2>2
<1> QED BY <1>7, <1>8

\* The peer itself, when its live bucket counts the request.
LEMMA CountBudgeted ==
    ASSUME RateInv, NEW h \in Hits, NEW r \in HitRecord, Verdicts(h, r),
           hits[h].st \in {"unmade", "adding"}, r.peer \in Peers, r.at = now,
           NEW b \in Elems(buckets), b.key = r.peer, Live(b),
           NEW e \in Elems(buckets'), e.key = r.peer, e.exp = b.exp, e.count = b.count + 1,
           IsMap(buckets', Bucket), r.st = "passed" => b.count + 1 <= Budget
    PROVE  Budgeted(hits', buckets', now, r.peer, Life(backend))
<1> DEFINE p == r.peer
           s == b.exp - Life(backend)
<1> SUFFICES ASSUME AllMetered(hits', p) PROVE Budgeted(hits', buckets', now, p, Life(backend))
  BY DEF Budgeted
<1>1. /\ now \in Nat /\ IsMap(buckets, Bucket) /\ hits \in [Hits -> HitRecord]
      /\ b \in Bucket /\ Earned(b, hits, now, Life(backend)) /\ Budgeted(hits, buckets, now, p, Life(backend))
  BY EntryFacts DEF RateInv
<1>2. AllMetered(hits, p)
  BY MeteredBefore
<1>3. \A d \in Elems(buckets') : d.key = p => d = e
  BY EntryFacts
<1>4. /\ b.exp \in Int /\ s \in Int /\ now < b.exp /\ s <= now /\ b.count \in Nat
  BY <1>1, RateLimitAssumption, LifeType DEF Bucket, Live, Earned
<1> DEFINE c == Cardinality(PassedSince(hits, p, s))
           d == Cardinality(PassedSince(hits', p, s))
<1>5. c <= b.count /\ c <= Budget /\ Cardinality(PassedIn(hits, p, now - Life(backend) + 1, s)) <= Budget
  BY <1>1, <1>2, <1>4 DEF Budgeted
<1>6. c \in Nat
  <2>1. PassedSince(hits, p, s) \in SUBSET Hits
    BY DEF PassedSince
  <2> QED BY <2>1, HitSets
<1>7. d = IF r.st = "passed" THEN c + 1 ELSE c
  <2>1. CASE r.st = "passed"
    BY <1>1, <1>4, <2>1, PassedGrows
  <2>2. CASE r.st # "passed"
    BY <1>1, <2>2, PassedGrows
  <2> QED BY <2>1, <2>2
<1>8. PassedIn(hits', p, now - Life(backend) + 1, s) = PassedIn(hits, p, now - Life(backend) + 1, s)
  BY <1>1, <1>4, PassedGrows
<1>9. d <= e.count /\ d <= Budget
  <2> HIDE DEF c, d
  <2> QED BY <1>4, <1>5, <1>6, <1>7, RateLimitAssumption, LifeType
<1>10. /\ Cardinality(PassedSince(hits', p, e.exp - Life(backend))) <= e.count
       /\ Cardinality(PassedSince(hits', p, e.exp - Life(backend))) <= Budget
       /\ Cardinality(PassedIn(hits', p, now - Life(backend) + 1, e.exp - Life(backend))) <= Budget
  BY <1>5, <1>8, <1>9
<1>11. ~ (\A x \in Elems(buckets') : x.key = p => x.exp <= now)
  BY <1>1, <1>4
<1> HIDE DEF p, s, c, d
<1> QED BY <1>3, <1>10, <1>11 DEF Budgeted

\* The peer itself, when the request begins a window.
LEMMA FreshBudgeted ==
    ASSUME RateInv, NEW h \in Hits, NEW r \in HitRecord, Verdicts(h, r),
           hits[h].st \in {"unmade", "adding"}, r.peer \in Peers, r.at = now,
           ~HoldsLive(buckets, r.peer),
           NEW e \in Elems(buckets'), e.key = r.peer, e.exp = now + Life(backend), e.count = 1,
           IsMap(buckets', Bucket)
    PROVE  Budgeted(hits', buckets', now, r.peer, Life(backend))
<1> DEFINE p == r.peer
<1> SUFFICES ASSUME AllMetered(hits', p) PROVE Budgeted(hits', buckets', now, p, Life(backend))
  BY DEF Budgeted
<1>1. /\ now \in Nat /\ IsMap(buckets, Bucket) /\ hits \in [Hits -> HitRecord]
      /\ Elems(buckets) \subseteq Bucket /\ Budgeted(hits, buckets, now, p, Life(backend))
  BY EntryFacts DEF RateInv
<1>2. AllMetered(hits, p)
  BY MeteredBefore
<1>3. \A d \in Elems(buckets') : d.key = p => d = e
  BY EntryFacts
<1>4. \A b \in Elems(buckets) : b.key = p => b.exp <= now
  <2> SUFFICES ASSUME NEW b \in Elems(buckets), b.key = p PROVE b.exp <= now
    OBVIOUS
  <2>1. ~Live(b) /\ b.exp \in Nat
    BY <1>1, EntryFacts DEF Bucket
  <2> QED BY <1>1, <2>1 DEF Live
<1>5. /\ Cardinality(PassedSince(hits, p, now - Life(backend) + 1)) <= Budget
      /\ \A g \in PassedSince(hits, p, 0) : hits[g].at < now
  BY <1>1, <1>2, <1>4 DEF Budgeted
<1>6. \A g \in Hits : hits[g].at \in Nat
  BY <1>1 DEF HitRecord
<1>7. now \in Int /\ e.exp - Life(backend) = now /\ now - Life(backend) + 1 \in Int
  BY <1>1, RateLimitAssumption, LifeType
<1>8. PassedSince(hits, p, now) = {}
  BY <1>1, <1>5, <1>6 DEF PassedSince
<1>9. Cardinality(PassedSince(hits', p, now)) <= 1
  <2>1. CASE r.st = "passed"
    <3>1. Cardinality(PassedSince(hits', p, now)) = Cardinality(PassedSince(hits, p, now)) + 1
      BY <1>1, <1>7, <2>1, PassedGrows
    <3> QED BY <1>8, <3>1, FS_EmptySet
  <2>2. CASE r.st # "passed"
    <3>1. PassedSince(hits', p, now) = {}
      BY <1>1, <1>8, <2>2, PassedGrows
    <3> QED BY <3>1, FS_EmptySet
  <2> QED BY <2>1, <2>2
<1>10. Cardinality(PassedIn(hits', p, now - Life(backend) + 1, now)) <= Budget
  <2>1. PassedIn(hits', p, now - Life(backend) + 1, now) = PassedIn(hits, p, now - Life(backend) + 1, now)
    BY <1>1, <1>7, PassedGrows
  <2>2. PassedIn(hits, p, now - Life(backend) + 1, now) \in SUBSET PassedSince(hits, p, now - Life(backend) + 1)
    BY DEF PassedIn
  <2>3. PassedSince(hits, p, now - Life(backend) + 1) \in SUBSET Hits
    BY DEF PassedSince
  <2> DEFINE x == Cardinality(PassedIn(hits, p, now - Life(backend) + 1, now))
             y == Cardinality(PassedSince(hits, p, now - Life(backend) + 1))
  <2>4. x \in Nat /\ y \in Nat /\ x <= y
    BY <2>2, <2>3, HitSets
  <2>5. y <= Budget
    BY <1>5
  <2>6. x <= Budget
    <3> HIDE DEF x, y
    <3> QED BY <2>4, <2>5, RateLimitAssumption, LifeType
  <2> QED BY <2>1, <2>6
<1>11. Cardinality(PassedSince(hits', p, now)) <= Budget
  <2> DEFINE x == Cardinality(PassedSince(hits', p, now))
  <2>1. PassedSince(hits', p, now) \in SUBSET Hits
    BY DEF PassedSince
  <2>2. x \in Nat
    BY <2>1, HitSets
  <2>3. x <= 1
    BY <1>9
  <2> HIDE DEF x
  <2>4. x <= Budget
    BY <2>2, <2>3, RateLimitAssumption, LifeType
  <2> QED BY <2>4 DEF x
<1>12. ~ (\A x \in Elems(buckets') : x.key = p => x.exp <= now)
  BY <1>1, RateLimitAssumption, LifeType
<1>13. /\ Cardinality(PassedSince(hits', p, e.exp - Life(backend))) <= e.count
       /\ Cardinality(PassedSince(hits', p, e.exp - Life(backend))) <= Budget
       /\ Cardinality(PassedIn(hits', p, now - Life(backend) + 1, e.exp - Life(backend))) <= Budget
  BY <1>7, <1>9, <1>10, <1>11
<1> HIDE DEF p
<1> QED BY <1>3, <1>12, <1>13 DEF Budgeted

\* The peer itself, when its request does not pass and its bucket is left alone.
LEMMA RefusedBudgeted ==
    ASSUME RateInv, NEW h \in Hits, NEW r \in HitRecord, Verdicts(h, r),
           hits[h].st \in {"unmade", "adding"}, r.peer \in Peers, r.st # "passed",
           \A e : e.key = r.peer => (e \in Elems(buckets') <=> e \in Elems(buckets))
    PROVE  Budgeted(hits', buckets', now, r.peer, Life(backend))
<1> DEFINE p == r.peer
<1> SUFFICES ASSUME AllMetered(hits', p) PROVE Budgeted(hits', buckets', now, p, Life(backend))
  BY DEF Budgeted
<1>1. hits \in [Hits -> HitRecord] /\ Budgeted(hits, buckets, now, p, Life(backend))
      /\ Elems(buckets) \subseteq Bucket
  BY EntryFacts DEF RateInv
<1>2. AllMetered(hits, p)
  BY MeteredBefore
<1>3. /\ \A t : PassedSince(hits', p, t) = PassedSince(hits, p, t)
      /\ \A t, u : u \in Int => PassedIn(hits', p, t, u) = PassedIn(hits, p, t, u)
  BY <1>1, PassedGrows
<1>4. \A b \in Elems(buckets) : b.exp - Life(backend) \in Int
  BY <1>1, RateLimitAssumption, LifeType DEF Bucket
<1>5. \A g \in PassedSince(hits, p, 0) : hits'[g].at = hits[g].at
  <2>1. \A g \in Hits \ {h} : hits'[g].at = hits[g].at
    BY <1>1, VerdictsFacts
  <2>2. h \notin PassedSince(hits, p, 0)
    BY DEF PassedSince
  <2> QED BY <2>1, <2>2 DEF PassedSince
<1> HIDE DEF p
<1>6. /\ \A b \in Elems(buckets) : b.key = p /\ now < b.exp =>
               /\ Cardinality(PassedSince(hits, p, b.exp - Life(backend))) <= b.count
               /\ Cardinality(PassedSince(hits, p, b.exp - Life(backend))) <= Budget
               /\ Cardinality(PassedIn(hits, p, now - Life(backend) + 1, b.exp - Life(backend))) <= Budget
      /\ (\A b \in Elems(buckets) : b.key = p => b.exp <= now) =>
               /\ Cardinality(PassedSince(hits, p, now - Life(backend) + 1)) <= Budget
               /\ \A g \in PassedSince(hits, p, 0) : hits[g].at < now
  BY <1>1, <1>2 DEF Budgeted
<1>7. \A e : e.key = p => (e \in Elems(buckets') <=> e \in Elems(buckets))
  BY DEF p
<1> QED BY <1>3, <1>4, <1>5, <1>6, <1>7 DEF Budgeted

LEMMA VerdictKeeps ==
    ASSUME RateInv, NEW h \in Hits, NEW r \in HitRecord, Verdicts(h, r),
           hits[h].st \in {"unmade", "adding"}, r.peer \in Peers, r.at <= now, HitOK(r, backend),
           now' = now, backend' = backend, lastSweep' \in 0..MaxTime,
           IsMap(buckets', Bucket),
           backend \in {"memory", "native"} => Len(buckets') <= BucketMax,
           backend = "native" => \A e \in Elems(buckets') : e.count <= Budget,
           \A e \in Elems(buckets') :
               e \in Elems(buckets) \/ (e.key = r.peer /\ Earned(e, hits', now, Life(backend))),
           backend = "memcached" => \A k : HoldsLive(buckets, k) => Holds(buckets', k),
           r.metered => Budgeted(hits', buckets', now, r.peer, Life(backend))
    PROVE  RateInv'
<1>1. /\ now \in 0..MaxTime /\ hits \in [Hits -> HitRecord]
      /\ backend \in {"memory", "redis", "memcached", "native"}
      /\ \A g \in Hits : HitOK(hits[g], backend) /\ hits[g].at <= now
      /\ IsMap(buckets, Bucket) /\ Elems(buckets) \subseteq Bucket
  BY EntryFacts DEF RateInv
<1>2. /\ hits' \in [Hits -> HitRecord] /\ hits'[h] = r
      /\ \A g \in Hits \ {h} :
            /\ hits'[g].st = hits[g].st /\ hits'[g].peer = hits[g].peer /\ hits'[g].at = hits[g].at
            /\ hits'[g].metered = (hits[g].metered /\ ~Marked(g))
  BY <1>1, VerdictsFacts
<1>3. \A g \in Hits : HitOK(hits'[g], backend) /\ hits'[g].at <= now
  <2> TAKE g \in Hits
  <2>1. CASE g = h
    BY <1>2, <2>1 DEF HitOK
  <2>2. CASE g # h
    <3>1. /\ hits'[g].st = hits[g].st /\ hits'[g].peer = hits[g].peer /\ hits'[g].at = hits[g].at
          /\ hits'[g].metered = (hits[g].metered /\ ~Marked(g))
      BY <1>2, <2>2
    <3>2. HitOK(hits[g], backend) /\ hits[g].at <= now
      BY <1>1
    <3>3. hits[g].st \in {"unmade", "adding"} => ~Marked(g)
      BY <3>2 DEF Marked, HitOK
    <3> QED BY <3>1, <3>2, <3>3 DEF HitOK
  <2> QED BY <2>1, <2>2
<1>4. \A e \in Elems(buckets') : Earned(e, hits', now, Life(backend))
  BY EarnedKept
<1>5. ASSUME NEW q \in Peers PROVE Budgeted(hits', buckets', now, q, Life(backend))
  <2>1. CASE q # r.peer
    BY <2>1, OthersBudgeted
  <2>2. CASE q = r.peer /\ r.metered
    BY <2>2
  <2>3. CASE q = r.peer /\ ~r.metered
    BY <1>2, <2>3 DEF Budgeted, AllMetered
  <2> QED BY <2>1, <2>2, <2>3
<1>6. now' \in 0..MaxTime /\ backend' \in {"memory", "redis", "memcached", "native"}
  BY <1>1
<1>7. \A b \in Elems(buckets') : Earned(b, hits', now', Life(backend))
  BY <1>4
<1>8. \A p \in Peers : Budgeted(hits', buckets', now', p, Life(backend))
  BY <1>5
<1> QED BY <1>2, <1>3, <1>6, <1>7, <1>8 DEF RateInv

\* A live bucket of the peer counts the request; m is what was left of the others before.
LEMMA CountKeeps ==
    ASSUME RateInv, NEW h \in Hits, NEW r \in HitRecord, Verdicts(h, r),
           hits[h].st \in {"unmade", "adding"}, r.peer \in Peers, r.at = now,
           r.st \in {"passed", "blocked"}, r.metered => (r.st = "passed" => EntryOf(buckets, r.peer).count + 1 <= Budget),
           r.metered => HoldsLive(buckets, r.peer),
           NEW m, IsMap(m, Bucket), Elems(m) \subseteq Elems(buckets), Len(m) <= Len(buckets),
           Holds(m, r.peer),
           backend \in {"redis", "memcached"} => m = buckets,
           backend = "native" => EntryOf(buckets, r.peer).count < Budget,
           buckets' = Put(m, [EntryOf(buckets, r.peer) EXCEPT !.count = @ + 1]),
           now' = now, backend' = backend, lastSweep' \in 0..MaxTime
    PROVE  RateInv'
<1> DEFINE p == r.peer
           b == EntryOf(buckets, p)
           x == [b EXCEPT !.count = @ + 1]
<1>1. /\ now \in 0..MaxTime /\ hits \in [Hits -> HitRecord]
      /\ IsMap(buckets, Bucket) /\ Elems(buckets) \subseteq Bucket
      /\ backend \in {"memory", "native"} => Len(buckets) <= BucketMax
      /\ backend = "native" => \A e \in Elems(buckets) : e.count <= Budget
      /\ \A e \in Elems(buckets) : Earned(e, hits, now, Life(backend))
  BY EntryFacts DEF RateInv
<1>2. b \in Elems(m) /\ b.key = p
  <2>1. PICK e \in Elems(m) : e.key = p
    BY EntryFacts
  <2>2. e \in Elems(buckets)
    BY <2>1
  <2>3. EntryOf(buckets, p) = e
    BY <1>1, <2>1, <2>2, EntryFacts
  <2> QED BY <2>1, <2>3
<1>3. b \in Bucket /\ b \in Elems(buckets) /\ Earned(b, hits, now, Life(backend))
  BY <1>1, <1>2
<1>4. x \in Bucket /\ x.key = p /\ x.exp = b.exp /\ x.count = b.count + 1
  BY <1>2, <1>3 DEF Bucket
<1> HIDE DEF x, b
<1>5. /\ IsMap(Put(m, x), Bucket) /\ Elems(Put(m, x)) = {x} \cup {e \in Elems(m) : e.key # p}
      /\ Len(Put(m, x)) = Len(m)
  BY <1>4, PutFacts
<1>6. buckets' = Put(m, x)
  BY DEF x, b
<1>7. b.exp - Life(backend) \in Int /\ b.count \in Nat /\ b.exp - Life(backend) <= now /\ now \in Nat
  BY <1>1, <1>3, RateLimitAssumption, LifeType DEF Bucket, Earned
<1>8. Earned(x, hits', now, Life(backend))
  <2> DEFINE c == Cardinality(SeenSince(hits, p, b.exp - Life(backend)))
             d == Cardinality(SeenSince(hits', p, b.exp - Life(backend)))
  <2>1. d = c + 1
    BY <1>1, <1>7, SeenGrows
  <2>2. b.count <= c
    BY <1>2, <1>3 DEF Earned
  <2>3. c \in Nat
    <3>1. SeenSince(hits, p, b.exp - Life(backend)) \in SUBSET Hits
      BY DEF SeenSince
    <3> QED BY <3>1, HitSets
  <2> HIDE DEF c
  <2>4. x.count <= d
    BY <1>4, <1>7, <2>1, <2>2, <2>3
  <2> QED BY <1>3, <1>4, <2>4 DEF Earned
<1>9. \A e \in Elems(buckets') : e = x \/ e \in Elems(buckets)
  BY <1>5, <1>6
<1>10. Len(buckets') <= Len(buckets) /\ Len(buckets) \in Nat /\ Len(buckets') \in Nat
  <2>1. Len(buckets) \in Nat /\ Len(m) \in Nat
    BY <1>1 DEF IsMap
  <2> QED BY <1>5, <1>6, <2>1
<1>11. r.metered => Budgeted(hits', buckets', now, p, Life(backend))
  <2> SUFFICES ASSUME r.metered PROVE Budgeted(hits', buckets', now, p, Life(backend))
    OBVIOUS
  <2>1. Live(b)
    BY <1>1, EntryFacts DEF b
  <2>2. x \in Elems(buckets') /\ IsMap(buckets', Bucket)
    BY <1>5, <1>6
  <2>3. r.st = "passed" => b.count + 1 <= Budget
    BY DEF b
  <2> QED BY <1>2, <1>3, <1>4, <2>1, <2>2, <2>3, CountBudgeted
<1>12. backend = "native" => \A e \in Elems(buckets') : e.count <= Budget
  <2>1. backend = "native" => x.count <= Budget
    BY <1>4, <1>7, RateLimitAssumption DEF b
  <2> QED BY <1>1, <1>9, <2>1
<1>13. backend = "memcached" => \A k : HoldsLive(buckets, k) => Holds(buckets', k)
  <2> SUFFICES ASSUME backend = "memcached", NEW k, HoldsLive(buckets, k) PROVE Holds(buckets', k)
    OBVIOUS
  <2>1. PICK e \in Elems(buckets) : e.key = k
    BY <1>1, EntryFacts
  <2>2. \E d \in Elems(buckets') : d.key = k
    BY <1>4, <1>5, <1>6, <2>1
  <2> QED BY <1>5, <1>6, <2>2, EntryFacts
<1>14. backend \in {"memory", "native"} => Len(buckets') <= BucketMax
  BY <1>1, <1>10, RateLimitAssumption
<1>15. r.at <= now /\ HitOK(r, backend)
  BY <1>7 DEF HitOK
<1>16. IsMap(buckets', Bucket)
  BY <1>5, <1>6
<1>17. \A e \in Elems(buckets') : e \in Elems(buckets) \/ (e.key = p /\ Earned(e, hits', now, Life(backend)))
  BY <1>4, <1>8, <1>9
<1> HIDE DEF p
<1> QED BY <1>11, <1>12, <1>13, <1>14, <1>15, <1>16, <1>17, VerdictKeeps DEF p

\* The request begins a window of its peer at a time that is not later than now.
LEMMA FreshKeeps ==
    ASSUME RateInv, NEW h \in Hits, NEW r \in HitRecord, Verdicts(h, r),
           hits[h].st \in {"unmade", "adding"}, r.peer \in Peers, r.at = now,
           r.st \in {"passed", "blocked"}, NEW at \in 0..now,
           r.metered => at = now /\ ~HoldsLive(buckets, r.peer),
           NEW m, IsMap(m, Bucket), Elems(m) \subseteq Elems(buckets),
           backend \in {"memory", "native"} => Len(Put(m, Fresh(r.peer, at))) <= BucketMax,
           backend = "memcached" => \A e \in Elems(buckets) : Live(e) => e \in Elems(m),
           buckets' = Put(m, Fresh(r.peer, at)),
           now' = now, backend' = backend, lastSweep' \in 0..MaxTime
    PROVE  RateInv'
<1> DEFINE p == r.peer
           x == Fresh(p, at)
<1>1. /\ now \in 0..MaxTime /\ hits \in [Hits -> HitRecord]
      /\ IsMap(buckets, Bucket) /\ Elems(buckets) \subseteq Bucket
      /\ backend = "native" => \A e \in Elems(buckets) : e.count <= Budget
      /\ \A e \in Elems(buckets) : Earned(e, hits, now, Life(backend))
  BY EntryFacts DEF RateInv
<1>2. now \in Nat /\ at \in Nat /\ at <= now
  BY <1>1
<1>3. x \in Bucket /\ x.key = p /\ x.exp = at + Life(backend) /\ x.count = 1
  BY <1>2, RateLimitAssumption, LifeType DEF Bucket, Fresh
<1> HIDE DEF x
<1>4. /\ IsMap(Put(m, x), Bucket) /\ Elems(Put(m, x)) = {x} \cup {e \in Elems(m) : e.key # p}
  BY <1>3, PutFacts
<1>5. buckets' = Put(m, x)
  BY DEF x
<1>6. Earned(x, hits', now, Life(backend))
  <2>1. x.exp - Life(backend) = at /\ at \in Int /\ r.at >= at
    BY <1>2, <1>3, RateLimitAssumption, LifeType
  <2> DEFINE c == Cardinality(SeenSince(hits, p, at))
             d == Cardinality(SeenSince(hits', p, at))
  <2>2. d = c + 1
    BY <1>1, <2>1, SeenGrows
  <2>3. c \in Nat
    <3>1. SeenSince(hits, p, at) \in SUBSET Hits
      BY DEF SeenSince
    <3> QED BY <3>1, HitSets
  <2> HIDE DEF c
  <2>4. x.count <= d
    BY <1>3, <2>2, <2>3
  <2>5. Life(backend) <= x.exp /\ x.exp <= now + Life(backend)
    BY <1>2, <1>3, RateLimitAssumption, LifeType
  <2> QED BY <1>3, <2>1, <2>4, <2>5 DEF Earned
<1>7. \A e \in Elems(buckets') : e = x \/ e \in Elems(buckets)
  BY <1>4, <1>5
<1>8. r.metered => Budgeted(hits', buckets', now, p, Life(backend))
  <2> SUFFICES ASSUME r.metered PROVE Budgeted(hits', buckets', now, p, Life(backend))
    OBVIOUS
  <2>1. x \in Elems(buckets') /\ IsMap(buckets', Bucket) /\ x.exp = now + Life(backend)
    BY <1>3, <1>4, <1>5
  <2> QED BY <1>3, <2>1, FreshBudgeted
<1>9. backend = "native" => \A e \in Elems(buckets') : e.count <= Budget
  BY <1>1, <1>3, <1>7, RateLimitAssumption, LifeType
<1>10. backend = "memcached" => \A k : HoldsLive(buckets, k) => Holds(buckets', k)
  <2> SUFFICES ASSUME backend = "memcached", NEW k, HoldsLive(buckets, k) PROVE Holds(buckets', k)
    OBVIOUS
  <2>1. PICK e \in Elems(buckets) : e.key = k /\ Live(e)
    BY <1>1, EntryFacts
  <2>2. \E d \in Elems(buckets') : d.key = k
    BY <1>3, <1>4, <1>5, <2>1
  <2> QED BY <1>4, <1>5, <2>2, EntryFacts
<1>11. backend \in {"memory", "native"} => Len(buckets') <= BucketMax
  OBVIOUS
<1>12. r.at <= now /\ HitOK(r, backend)
  BY <1>2 DEF HitOK
<1>13. IsMap(buckets', Bucket)
  BY <1>4, <1>5
<1>14. \A e \in Elems(buckets') : e \in Elems(buckets) \/ (e.key = p /\ Earned(e, hits', now, Life(backend)))
  BY <1>3, <1>6, <1>7
<1> QED BY <1>8, <1>9, <1>10, <1>11, <1>12, <1>13, <1>14, VerdictKeeps

\* The request is answered and no bucket counts it; others may go.
LEMMA UncountedKeeps ==
    ASSUME RateInv, NEW h \in Hits, NEW r \in HitRecord, Verdicts(h, r),
           hits[h].st \in {"unmade", "adding"}, r.peer \in Peers, r.at <= now, HitOK(r, backend),
           r.metered => r.st # "passed" /\ \A e : e.key = r.peer => (e \in Elems(buckets') <=> e \in Elems(buckets)),
           IsMap(buckets', Bucket), Elems(buckets') \subseteq Elems(buckets), Len(buckets') <= Len(buckets),
           backend = "memcached" => buckets' = buckets,
           now' = now, backend' = backend, lastSweep' \in 0..MaxTime
    PROVE  RateInv'
<1>1. /\ IsMap(buckets, Bucket)
      /\ backend \in {"memory", "native"} => Len(buckets) <= BucketMax
      /\ backend = "native" => \A e \in Elems(buckets) : e.count <= Budget
  BY DEF RateInv
<1>2. Len(buckets) \in Nat /\ Len(buckets') \in Nat
  BY <1>1 DEF IsMap
<1>3. backend \in {"memory", "native"} => Len(buckets') <= BucketMax
  BY <1>1, <1>2, RateLimitAssumption, LifeType
<1>4. backend = "native" => \A e \in Elems(buckets') : e.count <= Budget
  BY <1>1
<1>5. backend = "memcached" => \A k : HoldsLive(buckets, k) => Holds(buckets', k)
  BY <1>1, EntryFacts
<1>6. r.metered => Budgeted(hits', buckets', now, r.peer, Life(backend))
  BY RefusedBudgeted
<1> QED BY <1>3, <1>4, <1>5, <1>6, VerdictKeeps

\* Buckets go whose windows are over.
LEMMA SweepKeepsRate ==
    ASSUME RateInv, buckets' = Unexpired(buckets),
           hits' = hits, now' = now, backend' = backend, lastSweep' = lastSweep
    PROVE  RateInv'
<1>1. /\ now \in 0..MaxTime /\ IsMap(buckets, Bucket) /\ Elems(buckets) \subseteq Bucket
      /\ backend \in {"memory", "native"} => Len(buckets) <= BucketMax
      /\ \A p \in Peers : Budgeted(hits, buckets, now, p, Life(backend))
  BY EntryFacts DEF RateInv
<1>2. /\ IsMap(buckets', Bucket) /\ Elems(buckets') = {e \in Elems(buckets) : Live(e)}
      /\ Len(buckets') \in Nat /\ Len(buckets') <= Len(buckets)
  BY <1>1, UnexpiredFacts
<1>3. Len(buckets) \in Nat
  BY <1>1 DEF IsMap
<1>4. backend \in {"memory", "native"} => Len(buckets') <= BucketMax
  BY <1>1, <1>2, <1>3, RateLimitAssumption
<1>5. \A e \in Elems(buckets') : e \in Elems(buckets)
  BY <1>2
<1>6. ASSUME NEW p \in Peers PROVE Budgeted(hits, buckets', now, p, Life(backend))
  <2>1. (\A b \in Elems(buckets') : b.key = p => b.exp <= now) =>
            (\A b \in Elems(buckets) : b.key = p => b.exp <= now)
    <3> SUFFICES ASSUME \A b \in Elems(buckets') : b.key = p => b.exp <= now,
                        NEW b \in Elems(buckets), b.key = p, ~ (b.exp <= now) PROVE FALSE
      OBVIOUS
    <3>1. b.exp \in Nat
      BY <1>1 DEF Bucket
    <3>2. Live(b)
      BY <1>1, <3>1 DEF Live
    <3> QED BY <1>2, <3>2
  <2> QED BY <1>1, <1>5, <2>1 DEF Budgeted
<1>7. \A p \in Peers : Budgeted(hits, buckets', now, p, Life(backend))
  BY <1>6
<1>8. \A e \in Elems(buckets') : Earned(e, hits, now, Life(backend))
  BY <1>5 DEF RateInv
<1>9. backend = "native" => \A e \in Elems(buckets') : e.count <= Budget
  BY <1>5 DEF RateInv
<1>10. \A g \in Hits : HitOK(hits[g], backend)' /\ hits'[g].at <= now'
  BY DEF RateInv, HitOK
<1> QED BY <1>2, <1>4, <1>7, <1>8, <1>9, <1>10 DEF RateInv

LEMMA TickKeepsRate ==
    ASSUME RateInv, RateLimitTick PROVE RateInv'
<1>1. /\ now \in 0..MaxTime /\ IsMap(buckets, Bucket) /\ Elems(buckets) \subseteq Bucket
      /\ hits \in [Hits -> HitRecord] /\ \A g \in Hits : HitOK(hits[g], backend) /\ hits[g].at <= now
      /\ \A p \in Peers : Budgeted(hits, buckets, now, p, Life(backend))
      /\ \A b \in Elems(buckets) : Earned(b, hits, now, Life(backend))
  BY EntryFacts DEF RateInv
<1>2. /\ now' = now + 1 /\ now' \in 0..MaxTime /\ now \in Nat
      /\ hits' = hits /\ buckets' = buckets /\ backend' = backend /\ lastSweep' = lastSweep
  BY <1>1, MaxTimeAssumption DEF RateLimitTick, Tick, rateVars
<1>3. \A g \in Hits : hits[g].at \in Nat
  BY <1>1 DEF HitRecord
<1>4. \A b \in Elems(buckets) : b.exp \in Nat
  BY <1>1 DEF Bucket
<1> DEFINE t == now + 1
<1>5. ASSUME NEW p, NEW s \in Int, NEW u \in Int
      PROVE  /\ PassedSince(hits, p, s) \in SUBSET Hits
             /\ s <= u => PassedSince(hits, p, u) \in SUBSET PassedSince(hits, p, s)
             /\ \A v \in Int : s <= u => PassedIn(hits, p, u, v) \in SUBSET PassedIn(hits, p, s, v)
             /\ \A v \in Int : PassedIn(hits, p, s, v) \in SUBSET Hits
  <2>1. ASSUME s <= u, NEW g \in PassedSince(hits, p, u) PROVE g \in PassedSince(hits, p, s)
    BY <1>3, <2>1 DEF PassedSince
  <2> QED BY <2>1 DEF PassedSince, PassedIn
<1>6. ASSUME NEW p \in Peers PROVE Budgeted(hits, buckets, t, p, Life(backend))
  <2> SUFFICES ASSUME AllMetered(hits, p)
               PROVE  /\ \A b \in Elems(buckets) : b.key = p /\ t < b.exp =>
                           /\ Cardinality(PassedSince(hits, p, b.exp - Life(backend))) <= b.count
                           /\ Cardinality(PassedSince(hits, p, b.exp - Life(backend))) <= Budget
                           /\ Cardinality(PassedIn(hits, p, t - Life(backend) + 1, b.exp - Life(backend))) <= Budget
                      /\ (\A b \in Elems(buckets) : b.key = p => b.exp <= t) =>
                           /\ Cardinality(PassedSince(hits, p, t - Life(backend) + 1)) <= Budget
                           /\ \A g \in PassedSince(hits, p, 0) : hits[g].at < t
    BY DEF Budgeted
  <2>1. /\ \A b \in Elems(buckets) : b.key = p /\ now < b.exp =>
              /\ Cardinality(PassedSince(hits, p, b.exp - Life(backend))) <= b.count
              /\ Cardinality(PassedSince(hits, p, b.exp - Life(backend))) <= Budget
              /\ Cardinality(PassedIn(hits, p, now - Life(backend) + 1, b.exp - Life(backend))) <= Budget
        /\ (\A b \in Elems(buckets) : b.key = p => b.exp <= now) =>
              /\ Cardinality(PassedSince(hits, p, now - Life(backend) + 1)) <= Budget
              /\ \A g \in PassedSince(hits, p, 0) : hits[g].at < now
    BY <1>1 DEF Budgeted
  <2>2. now - Life(backend) + 1 \in Int /\ t - Life(backend) + 1 \in Int /\ now - Life(backend) + 1 <= t - Life(backend) + 1
    BY <1>2, RateLimitAssumption, LifeType
  <2>3. ASSUME NEW b \in Elems(buckets), b.key = p, t < b.exp
        PROVE  Cardinality(PassedIn(hits, p, t - Life(backend) + 1, b.exp - Life(backend))) <= Budget
    <3>1. now < b.exp /\ b.exp - Life(backend) \in Int
      BY <1>2, <1>4, <2>3, RateLimitAssumption, LifeType
    <3> DEFINE S == PassedIn(hits, p, t - Life(backend) + 1, b.exp - Life(backend))
               T == PassedIn(hits, p, now - Life(backend) + 1, b.exp - Life(backend))
    <3>2. S \in SUBSET T /\ T \in SUBSET Hits
      BY <1>5, <2>2, <3>1
    <3>3. Cardinality(T) <= Budget
      BY <2>1, <2>3, <3>1
    <3> HIDE DEF S, T
    <3>4. Cardinality(S) \in Nat /\ Cardinality(T) \in Nat /\ Cardinality(S) <= Cardinality(T)
      BY <3>2, HitSets
    <3>5. Cardinality(S) <= Budget
      BY <3>3, <3>4, RateLimitAssumption, LifeType
    <3> QED BY <3>5 DEF S
  <2>4. ASSUME NEW b \in Elems(buckets), b.key = p, t < b.exp
        PROVE  /\ Cardinality(PassedSince(hits, p, b.exp - Life(backend))) <= b.count
               /\ Cardinality(PassedSince(hits, p, b.exp - Life(backend))) <= Budget
    <3>1. now < b.exp
      BY <1>2, <1>4, <2>4
    <3> QED BY <2>1, <2>4, <3>1
  <2>5. ASSUME \A b \in Elems(buckets) : b.key = p => b.exp <= t
        PROVE  Cardinality(PassedSince(hits, p, t - Life(backend) + 1)) <= Budget
    <3> DEFINE S == PassedSince(hits, p, t - Life(backend) + 1)
    <3>1. \E s \in Int : s <= t - Life(backend) + 1 /\ Cardinality(PassedSince(hits, p, s)) <= Budget
      <4>1. CASE \A b \in Elems(buckets) : b.key = p => b.exp <= now
        BY <2>1, <2>2, <4>1
      <4>2. CASE \E b \in Elems(buckets) : b.key = p /\ ~ (b.exp <= now)
        <5>1. PICK b \in Elems(buckets) : b.key = p /\ now < b.exp
          BY <1>2, <1>4, <4>2
        <5>2. b.exp - Life(backend) \in Int /\ b.exp - Life(backend) <= t - Life(backend) + 1
          BY <1>2, <1>4, <2>5, <5>1, RateLimitAssumption, LifeType
        <5> QED BY <2>1, <5>1, <5>2
      <4> QED BY <4>1, <4>2
    <3>2. PICK s \in Int : s <= t - Life(backend) + 1 /\ Cardinality(PassedSince(hits, p, s)) <= Budget
      BY <3>1
    <3> DEFINE T == PassedSince(hits, p, s)
    <3>3. S \in SUBSET T /\ T \in SUBSET Hits
      BY <1>5, <2>2, <3>2
    <3>4. Cardinality(T) <= Budget
      BY <3>2
    <3> HIDE DEF S, T
    <3>5. Cardinality(S) \in Nat /\ Cardinality(T) \in Nat /\ Cardinality(S) <= Cardinality(T)
      BY <3>3, HitSets
    <3>6. Cardinality(S) <= Budget
      BY <3>4, <3>5, RateLimitAssumption, LifeType
    <3> QED BY <3>6 DEF S
  <2>6. \A g \in PassedSince(hits, p, 0) : hits[g].at < t
    <3>1. \A g \in Hits : hits[g].at < t
      BY <1>1, <1>2, <1>3
    <3> QED BY <3>1 DEF PassedSince
  <2> HIDE DEF t
  <2> QED BY <2>3, <2>4, <2>5, <2>6
<1>7. \A p \in Peers : Budgeted(hits', buckets', now', p, Life(backend))
  BY <1>2, <1>6
<1>8. \A b \in Elems(buckets') : Earned(b, hits', now', Life(backend))
  <2> SUFFICES ASSUME NEW b \in Elems(buckets) PROVE Earned(b, hits, now + 1, Life(backend))
    BY <1>2
  <2>1. Earned(b, hits, now, Life(backend)) /\ b.exp \in Nat
    BY <1>1, <1>4
  <2> QED BY <1>2, <2>1, RateLimitAssumption, LifeType DEF Earned
<1>9. \A g \in Hits : HitOK(hits[g], backend)' /\ hits'[g].at <= now'
  <2> TAKE g \in Hits
  <2>1. hits[g].at <= now + 1
    BY <1>1, <1>2, <1>3
  <2> QED BY <1>1, <1>2, <2>1 DEF HitOK
<1> HIDE DEF t
<1> QED BY <1>1, <1>2, <1>7, <1>8, <1>9 DEF RateInv

\* A verdict as an action writes it down.
VerdictOf(p, st, read, metered) ==
    [st |-> st, peer |-> p, at |-> now, read |-> read, metered |-> metered]

LEMMA VerdictIs ==
    ASSUME NEW h, NEW p, NEW st, NEW read, NEW metered, VerdictOn(h, p, st, read, metered)
    PROVE  Verdicts(h, VerdictOf(p, st, read, metered))
BY DEF VerdictOf, VerdictOn, Verdicts, Marked, Holds

LEMMA HitCountedKeeps ==
    ASSUME RateInv, NEW h \in Hits, NEW p \in Peers, HitCounted(h, p)
    PROVE  RateInv'
<1> DEFINE b == EntryOf(buckets, p)
           n == Counted(p).count
           st == IF n > Budget THEN "blocked" ELSE "passed"
           r == VerdictOf(p, st, now, TRUE)
<1>1. /\ now \in 0..MaxTime /\ lastSweep \in 0..MaxTime /\ hits \in [Hits -> HitRecord]
      /\ IsMap(buckets, Bucket) /\ Elems(buckets) \subseteq Bucket
  BY EntryFacts DEF RateInv
<1>2. /\ Verdicts(h, r) /\ hits[h].st = "unmade" /\ HoldsLive(buckets, p) /\ buckets' = Put(buckets, Counted(p))
      /\ backend \in {"memory", "redis"}
      /\ now' = now /\ backend' = backend /\ lastSweep' = lastSweep
  BY VerdictIs DEF HitCounted, Decide, Verdict, NextHit
<1>3. b \in Bucket /\ Holds(buckets, p)
  BY <1>1, <1>2, EntryFacts
<1>4. n = b.count + 1 /\ b.count \in Nat
  BY <1>3 DEF Bucket, Counted
<1>5. st \in {"passed", "blocked"} /\ now \in Nat /\ (st = "passed" => b.count + 1 <= Budget)
  BY <1>1, <1>4, RateLimitAssumption
<1> HIDE DEF st, n
<1>6. r \in HitRecord /\ r.st = st /\ r.peer = p /\ r.at = now
  BY <1>1, <1>5 DEF VerdictOf, HitRecord, HitOK
<1> HIDE DEF r
<1>7. buckets' = Put(buckets, [EntryOf(buckets, r.peer) EXCEPT !.count = @ + 1])
  BY <1>2, <1>6 DEF Counted
<1>8. Len(buckets) <= Len(buckets)
  BY <1>1 DEF IsMap
<1> QED BY <1>1, <1>2, <1>3, <1>5, <1>6, <1>7, <1>8, CountKeeps

LEMMA HitFreshKeeps ==
    ASSUME RateInv, NEW h \in Hits, NEW p \in Peers, HitFresh(h, p)
    PROVE  RateInv'
<1> DEFINE m == IF backend = "memory" THEN MakeRoom(buckets, BucketMax) ELSE Unexpired(buckets)
           st == IF 1 > Budget THEN "blocked" ELSE "passed"
           r == VerdictOf(p, st, now, TRUE)
<1>1. now \in 0..MaxTime /\ lastSweep \in 0..MaxTime /\ IsMap(buckets, Bucket) /\ now \in 0..now
  BY DEF RateInv
<1>2. /\ Verdicts(h, r) /\ hits[h].st = "unmade" /\ ~HoldsLive(buckets, p) /\ buckets' = Put(m, Fresh(p, now))
      /\ backend \in {"memory", "redis"}
      /\ now' = now /\ backend' = backend /\ lastSweep' = lastSweep
  BY VerdictIs DEF HitFresh, Decide, Verdict, NextHit
<1>3. IsMap(m, Bucket) /\ Elems(m) \subseteq Elems(buckets)
  BY <1>1, MakeRoomFacts, UnexpiredFacts, RateLimitAssumption
<1>4. backend = "memory" => Len(m) \in Nat /\ Len(m) < BucketMax
  BY <1>1, MakeRoomFacts, RateLimitAssumption
<1> HIDE DEF m
<1>5. Fresh(p, now) \in Bucket
  BY <1>1, RateLimitAssumption, LifeType DEF Bucket, Fresh
<1>6. backend = "memory" => Len(Put(m, Fresh(p, now))) <= BucketMax
  <2>1. Len(Put(m, Fresh(p, now))) \in {Len(m), Len(m) + 1}
    BY <1>3, <1>5, PutFacts
  <2> QED BY <1>4, <2>1, RateLimitAssumption, LifeType
<1>7. st \in {"passed", "blocked"} /\ now \in Nat
  BY <1>1
<1> HIDE DEF st
<1>8. r \in HitRecord /\ r.st = st /\ r.peer = p /\ r.at = now
  BY <1>1, <1>7 DEF VerdictOf, HitRecord, HitOK
<1> HIDE DEF r
<1> QED BY <1>1, <1>2, <1>3, <1>6, <1>7, <1>8, FreshKeeps

LEMMA MemcachedAddKeeps ==
    ASSUME RateInv, NEW h \in Hits, NEW p \in Peers, MemcachedAdd(h, p)
    PROVE  RateInv'
<1>1. now \in 0..MaxTime /\ lastSweep \in 0..MaxTime /\ IsMap(buckets, Bucket) /\ now \in 0..now /\ hits \in [Hits -> HitRecord]
  BY DEF RateInv
<1>2. /\ hits[h].st = "unmade" /\ backend = "memcached"
      /\ now' = now /\ backend' = backend /\ lastSweep' = lastSweep
  BY DEF MemcachedAdd, NextHit
<1>3. CASE HoldsLive(buckets, p)
  <2> DEFINE r == [Unmade EXCEPT !.st = "adding", !.peer = p]
  <2>1. buckets' = buckets /\ hits' = [hits EXCEPT ![h] = r]
    BY <1>3 DEF MemcachedAdd
  <2>2. r \in HitRecord /\ HitOK(r, backend) /\ r.peer = p /\ r.st = "adding" /\ r.at = 0
    BY <1>2 DEF Unmade, HitRecord, HitOK
  <2> HIDE DEF r
  <2>3. \A g : ~Marked(g)
    BY <1>1, <2>1, EntryFacts DEF Marked
  <2>4. Verdicts(h, r)
    BY <1>1, <2>1, <2>3 DEF Verdicts
  <2>5. r.at <= now /\ Len(buckets) <= Len(buckets)
    BY <1>1, <2>2 DEF IsMap
  <2> QED BY <1>1, <1>2, <2>1, <2>2, <2>4, <2>5, UncountedKeeps
<1>4. CASE ~HoldsLive(buckets, p)
  <2> DEFINE m == Unexpired(buckets)
             st == IF 1 > Budget THEN "blocked" ELSE "passed"
             r == VerdictOf(p, st, now, TRUE)
  <2>1. Verdicts(h, r) /\ buckets' = Put(m, Fresh(p, now))
    BY <1>4, VerdictIs DEF MemcachedAdd, Decide, Verdict
  <2>2. /\ IsMap(m, Bucket) /\ Elems(m) \subseteq Elems(buckets)
        /\ \A e \in Elems(buckets) : Live(e) => e \in Elems(m)
    BY <1>1, UnexpiredFacts
  <2>3. st \in {"passed", "blocked"} /\ now \in Nat
    BY <1>1
  <2> HIDE DEF st, m
  <2>4. r \in HitRecord /\ r.st = st /\ r.peer = p /\ r.at = now
    BY <1>1, <2>3 DEF VerdictOf, HitRecord, HitOK
  <2> HIDE DEF r
  <2> QED BY <1>1, <1>2, <1>4, <2>1, <2>2, <2>3, <2>4, FreshKeeps
<1> QED BY <1>3, <1>4

LEMMA MemcachedIncrKeeps ==
    ASSUME RateInv, NEW h \in Hits, MemcachedIncr(h)
    PROVE  RateInv'
<1> DEFINE p == hits[h].peer
           b == EntryOf(buckets, p)
<1>1. /\ now \in 0..MaxTime /\ lastSweep \in 0..MaxTime /\ now \in 0..now
      /\ IsMap(buckets, Bucket) /\ Elems(buckets) \subseteq Bucket
  BY EntryFacts DEF RateInv
<1>2. /\ hits[h].st = "adding" /\ backend = "memcached" /\ p \in Peers
      /\ now' = now /\ backend' = backend /\ lastSweep' = lastSweep
  <2>1. HitOK(hits[h], backend)
    BY DEF RateInv
  <2> QED BY <2>1 DEF MemcachedIncr, HitOK
<1>3. Len(buckets) <= Len(buckets)
  BY <1>1 DEF IsMap
<1>4. CASE HoldsLive(buckets, p)
  <2> DEFINE n == Counted(p).count
             st == IF n > Budget THEN "blocked" ELSE "passed"
             r == VerdictOf(p, st, now, TRUE)
  <2>1. Verdicts(h, r) /\ buckets' = Put(buckets, Counted(p))
    BY <1>4, VerdictIs DEF MemcachedIncr, Decide, Verdict
  <2>2. b \in Bucket /\ Holds(buckets, p)
    BY <1>1, <1>4, EntryFacts
  <2>3. n = b.count + 1 /\ b.count \in Nat
    BY <2>2 DEF Bucket, Counted
  <2>4. st \in {"passed", "blocked"} /\ now \in Nat /\ (st = "passed" => b.count + 1 <= Budget)
    BY <1>1, <2>3, RateLimitAssumption, LifeType
  <2> HIDE DEF st, n, p
  <2>5. r \in HitRecord /\ r.st = st /\ r.peer = p /\ r.at = now
    BY <1>1, <1>2, <2>4 DEF VerdictOf, HitRecord, HitOK
  <2> HIDE DEF r
  <2>6. buckets' = Put(buckets, [EntryOf(buckets, r.peer) EXCEPT !.count = @ + 1])
    BY <2>1, <2>5 DEF Counted
  <2> QED BY <1>1, <1>2, <1>3, <1>4, <2>1, <2>2, <2>4, <2>5, <2>6, CountKeeps
<1>5. CASE ~HoldsLive(buckets, p)
  <2> DEFINE r == VerdictOf(p, "passed", now, FALSE)
  <2>1. Verdicts(h, r) /\ buckets' = buckets
    BY <1>5, VerdictIs DEF MemcachedIncr, Verdict
  <2> HIDE DEF p
  <2>2. r \in HitRecord /\ HitOK(r, backend) /\ r.peer = p /\ r.at = now /\ r.metered = FALSE
    BY <1>1, <1>2 DEF VerdictOf, HitRecord, HitOK
  <2> HIDE DEF r
  <2>3. r.at <= now
    BY <1>1, <2>2
  <2> QED BY <1>1, <1>2, <1>3, <2>1, <2>2, <2>3, UncountedKeeps
<1> QED BY <1>4, <1>5

LEMMA StoreFailsKeeps ==
    ASSUME RateInv, NEW h \in Hits, NEW p \in Peers, StoreFails(h, p)
    PROVE  RateInv'
<1> DEFINE st == IF failClosed THEN "refused" ELSE "passed"
           r == VerdictOf(p, st, now, FALSE)
<1>1. now \in 0..MaxTime /\ lastSweep \in 0..MaxTime /\ now \in 0..now /\ IsMap(buckets, Bucket)
  BY DEF RateInv
<1>2. /\ Verdicts(h, r) /\ hits[h].st \in {"unmade", "adding"} /\ buckets' = buckets
      /\ now' = now /\ backend' = backend /\ lastSweep' = lastSweep
  BY VerdictIs DEF StoreFails, Verdict, NextHit
<1>3. st \in {"passed", "refused"} /\ now \in Nat
  BY <1>1
<1> HIDE DEF st
<1>4. r \in HitRecord /\ HitOK(r, backend) /\ r.peer = p /\ r.at = now /\ r.metered = FALSE
  BY <1>1, <1>3 DEF VerdictOf, HitRecord, HitOK
<1> HIDE DEF r
<1>5. r.at <= now /\ Len(buckets) <= Len(buckets)
  BY <1>1, <1>4 DEF IsMap
<1> QED BY <1>1, <1>2, <1>4, <1>5, UncountedKeeps

\* The native table after its sweep: a part of it, and all of it if it holds the peer.
LEMMA NativeTablesFacts ==
    ASSUME NEW S, IsMap(buckets, S), NEW p, NEW at, NEW table \in NativeTables(p, at)
    PROVE  /\ IsMap(table, S) /\ Elems(table) \subseteq Elems(buckets)
           /\ Len(table) \in Nat /\ Len(table) <= Len(buckets)
           /\ Holds(buckets, p) => table = buckets
           /\ Holds(table, p) => Holds(buckets, p)
<1>0. Len(buckets) \in Nat
  BY DEF IsMap
<1>1. CASE ~SweepDue(p, at)
  BY <1>0, <1>1 DEF NativeTables
<1>2. CASE SweepDue(p, at)
  <2>1. PICK K \in SUBSET Peers : table = Picked(buckets, {i \in 1..Len(buckets) : buckets[i].key \in K})
    BY <1>2 DEF NativeTables
  <2> DEFINE I == {i \in 1..Len(buckets) : buckets[i].key \in K}
  <2>2. I \in SUBSET (1..Len(buckets))
    OBVIOUS
  <2>3. \A i \in I : buckets[i] \in Elems(buckets)
    BY DEF Elems
  <2> HIDE DEF I
  <2>4. /\ IsMap(Picked(buckets, I), S) /\ Elems(Picked(buckets, I)) = {buckets[i] : i \in I}
        /\ Len(Picked(buckets, I)) \in Nat /\ Len(Picked(buckets, I)) <= Len(buckets)
    BY <2>2, PickedMap
  <2>5. IsMap(table, S) /\ Elems(table) \subseteq Elems(buckets) /\ Len(table) \in Nat /\ Len(table) <= Len(buckets)
    BY <2>1, <2>3, <2>4 DEF I
  <2>6. ~Holds(buckets, p)
    BY <1>2 DEF SweepDue
  <2>7. ~Holds(table, p)
    BY <2>5, <2>6, EntryFacts
  <2> QED BY <2>5, <2>6, <2>7
<1> QED BY <1>1, <1>2

LEMMA NativeHitKeeps ==
    ASSUME RateInv, NEW h \in Hits, NEW p \in Peers, NEW at \in 0..now, NativeHit(h, p, at)
    PROVE  RateInv'
<1>1. /\ now \in 0..MaxTime /\ lastSweep \in 0..MaxTime /\ hits \in [Hits -> HitRecord]
      /\ IsMap(buckets, Bucket) /\ Elems(buckets) \subseteq Bucket
      /\ backend \in {"memory", "native"} => Len(buckets) <= BucketMax
      /\ \A e \in Elems(buckets) : Earned(e, hits, now, Life(backend))
  BY EntryFacts DEF RateInv
<1>2. at \in 0..MaxTime /\ at \in Nat /\ now \in Nat /\ at <= now
  BY <1>1, MaxTimeAssumption
<1>3. /\ backend = "native" /\ hits[h].st = "unmade"
      /\ now' = now /\ backend' = backend /\ lastSweep' \in 0..MaxTime
  BY <1>1, <1>2 DEF NativeHit, NextHit
<1>4. PICK table \in NativeTables(p, at) : NativeHitAfter(table, h, p, at)
  BY DEF NativeHit
<1>5. /\ IsMap(table, Bucket) /\ Elems(table) \subseteq Elems(buckets)
      /\ Len(table) \in Nat /\ Len(table) <= Len(buckets)
      /\ Holds(buckets, p) => table = buckets
      /\ Holds(table, p) => Holds(buckets, p)
  BY <1>1, <1>4, NativeTablesFacts
<1> DEFINE b == EntryOf(table, p)
           r(st, metered) == VerdictOf(p, st, at, metered /\ at = now)
<1>6. \A st \in {"passed", "blocked"} : \A metered \in BOOLEAN :
          /\ r(st, metered) \in HitRecord /\ HitOK(r(st, metered), backend)
          /\ r(st, metered).st = st /\ r(st, metered).peer = p /\ r(st, metered).at = now
          /\ r(st, metered).metered = (metered /\ at = now)
  BY <1>2 DEF VerdictOf, HitRecord, HitOK
<1>7. Holds(table, p) => /\ b \in Elems(buckets) /\ b \in Bucket /\ b.key = p /\ b = EntryOf(buckets, p)
                         /\ Earned(b, hits, now, Life(backend)) /\ b.exp \in Nat /\ b.count \in Nat \ {0}
  BY <1>1, <1>5, EntryFacts DEF Bucket
<1>8. Holds(table, p) /\ at = now => WindowOver(b, at) = {now >= b.exp}
  <2>0. Life(backend) = WindowLen
    BY <1>3 DEF Life
  <2> SUFFICES ASSUME Holds(table, p), at = now PROVE ~ (at < b.exp - WindowLen)
    BY DEF WindowOver
  <2> QED BY <1>2, <1>7, <2>0, RateLimitAssumption, LifeType DEF Earned
<1>9. CASE ~Holds(table, p) /\ Len(table) >= BucketMax /\ buckets' = table /\ VerdictOn(h, p, "passed", at, FALSE /\ at = now)
  <2> DEFINE v == r("passed", FALSE)
  <2>1. Verdicts(h, v)
    BY <1>9, VerdictIs
  <2>2. v \in HitRecord /\ HitOK(v, backend) /\ v.st = "passed" /\ v.peer = p /\ v.at = now /\ v.metered = FALSE
    BY <1>6
  <2> HIDE DEF v
  <2>3. v.at <= now
    BY <1>2, <2>2
  <2> QED BY <1>3, <1>5, <1>9, <2>1, <2>2, <2>3, UncountedKeeps
<1>10. CASE /\ IF Holds(table, p) THEN TRUE \in WindowOver(b, at) ELSE Len(table) < BucketMax
            /\ buckets' = Put(table, Fresh(p, at)) /\ VerdictOn(h, p, "passed", at, TRUE /\ at = now)
  <2> DEFINE v == r("passed", TRUE)
  <2>1. Verdicts(h, v)
    BY <1>10, VerdictIs
  <2>2. v \in HitRecord /\ v.st = "passed" /\ v.peer = p /\ v.at = now /\ v.metered = (at = now)
    BY <1>6
  <2> HIDE DEF v
  <2>3. ASSUME at = now PROVE ~HoldsLive(buckets, p)
    <3>1. CASE Holds(table, p)
      <4>1. now >= b.exp
        BY <1>8, <1>10, <2>3, <3>1
      <4>2. ~Live(EntryOf(buckets, p))
        BY <1>2, <1>7, <3>1, <4>1 DEF Live
      <4> QED BY <1>1, <4>2, EntryFacts
    <3>2. CASE ~Holds(table, p)
      BY <1>1, <1>5, <3>2, EntryFacts
    <3> QED BY <3>1, <3>2
  <2>4. Fresh(p, at) \in Bucket /\ Fresh(p, at).key = p
    BY <1>2, RateLimitAssumption, LifeType DEF Bucket, Fresh
  <2>5. Len(Put(table, Fresh(p, at))) <= BucketMax
    <3>1. Len(Put(table, Fresh(p, at))) = IF Holds(table, p) THEN Len(table) ELSE Len(table) + 1
      BY <1>5, <2>4, PutFacts
    <3>2. Len(table) <= BucketMax
      <4>1. Len(buckets) \in Nat
        BY <1>1 DEF IsMap
      <4> QED BY <1>1, <1>3, <1>5, <4>1, RateLimitAssumption, LifeType
    <3>3. ~Holds(table, p) => Len(table) < BucketMax
      BY <1>10
    <3>4. Len(table) \in Nat /\ BucketMax \in Nat
      BY <1>5, RateLimitAssumption, LifeType
    <3>5. ~Holds(table, p) => Len(table) + 1 <= BucketMax
      BY <3>3, <3>4
    <3> QED BY <3>1, <3>2, <3>5
  <2> QED BY <1>3, <1>5, <1>10, <2>1, <2>2, <2>3, <2>5, FreshKeeps
<1>11. CASE /\ Holds(table, p) /\ FALSE \in WindowOver(b, at) /\ b.count >= Budget
            /\ buckets' = table /\ VerdictOn(h, p, "blocked", at, TRUE /\ at = now)
  <2> DEFINE v == r("blocked", TRUE)
  <2>1. Verdicts(h, v)
    BY <1>11, VerdictIs
  <2>2. v \in HitRecord /\ HitOK(v, backend) /\ v.st = "blocked" /\ v.peer = p /\ v.at = now
    BY <1>6
  <2> HIDE DEF v
  <2>3. v.at <= now
    BY <1>2, <2>2
  <2>4. buckets' = buckets
    BY <1>5, <1>11
  <2>5. \A e : e.key = v.peer => (e \in Elems(buckets') <=> e \in Elems(buckets))
    BY <2>4
  <2> QED BY <1>3, <1>5, <1>11, <2>1, <2>2, <2>3, <2>4, <2>5, UncountedKeeps
<1>12. CASE /\ Holds(table, p) /\ FALSE \in WindowOver(b, at) /\ ~(b.count >= Budget)
            /\ buckets' = Put(table, [b EXCEPT !.count = @ + 1]) /\ VerdictOn(h, p, "passed", at, TRUE /\ at = now)
  <2> DEFINE v == r("passed", TRUE)
  <2>1. Verdicts(h, v)
    BY <1>12, VerdictIs
  <2>2. v \in HitRecord /\ v.st = "passed" /\ v.peer = p /\ v.at = now /\ v.metered = (at = now)
    BY <1>6
  <2> HIDE DEF v
  <2>3. ASSUME at = now PROVE HoldsLive(buckets, p)
    <3>1. ~ (now >= b.exp)
      BY <1>8, <1>12, <2>3
    <3>2. Live(b)
      BY <1>2, <1>7, <1>12, <3>1 DEF Live
    <3> QED BY <1>1, <1>7, <1>12, <3>2, EntryFacts
  <2>4. EntryOf(buckets, v.peer) = b
    BY <1>7, <1>12, <2>2
  <2>5. b.count < Budget /\ b.count + 1 <= Budget
    BY <1>7, <1>12, RateLimitAssumption, LifeType
  <2>6. buckets' = Put(table, [EntryOf(buckets, v.peer) EXCEPT !.count = @ + 1])
    BY <1>12, <2>4
  <2> HIDE DEF b
  <2> QED BY <1>3, <1>5, <1>12, <2>1, <2>2, <2>3, <2>4, <2>5, <2>6, CountKeeps
<1> QED BY <1>4, <1>9, <1>10, <1>11, <1>12 DEF NativeHitAfter

LEMMA RateStepKeeps ==
    ASSUME RateInv, RateLimitStep PROVE RateInv'
<1>1. CASE SweepBuckets
  BY <1>1, SweepKeepsRate DEF SweepBuckets
<1>2. CASE \E h \in Hits : \E p \in Peers :
              \/ HitCounted(h, p) \/ HitFresh(h, p) \/ MemcachedAdd(h, p) \/ StoreFails(h, p)
              \/ \E at \in 0..now : NativeHit(h, p, at)
  BY <1>2, HitCountedKeeps, HitFreshKeeps, MemcachedAddKeeps, StoreFailsKeeps, NativeHitKeeps
<1>3. CASE \E h \in Hits : MemcachedIncr(h)
  BY <1>3, MemcachedIncrKeeps
<1> QED BY <1>1, <1>2, <1>3 DEF RateLimitStep

LEMMA RateInit ==
    ASSUME ClockInit, RateLimitInit PROVE RateInv
<1>1. now = 0 /\ lastSweep = 0 /\ buckets = <<>> /\ hits = [h \in Hits |-> Unmade]
  BY DEF ClockInit, RateLimitInit
<1>2. now \in 0..MaxTime /\ lastSweep \in 0..MaxTime
  BY <1>1, MaxTimeAssumption
<1>3. IsMap(buckets, Bucket) /\ Elems(buckets) = {} /\ Len(buckets) = 0
  BY <1>1 DEF IsMap, KeysUnique, Elems
<1>4. Len(buckets) <= BucketMax
  BY <1>3, RateLimitAssumption
<1>5. Unmade \in HitRecord /\ HitOK(Unmade, backend) /\ Unmade.at = 0
  BY DEF Unmade, HitRecord, HitOK
<1>6. hits \in [Hits -> HitRecord] /\ \A h \in Hits : HitOK(hits[h], backend) /\ hits[h].at <= now
  BY <1>1, <1>5
<1>7. ASSUME NEW p \in Peers PROVE Budgeted(hits, buckets, now, p, Life(backend))
  <2>1. \A t : PassedSince(hits, p, t) = {}
    BY <1>1 DEF PassedSince, Unmade
  <2>2. Cardinality({}) = 0 /\ 0 <= Budget
    BY FS_EmptySet, RateLimitAssumption
  <2>3. Cardinality(PassedSince(hits, p, now - Life(backend) + 1)) <= Budget
    BY <2>1, <2>2
  <2> QED BY <1>3, <2>1, <2>3 DEF Budgeted
<1>8. backend \in {"memory", "redis", "memcached", "native"}
  BY DEF RateLimitInit
<1> QED BY <1>2, <1>3, <1>4, <1>6, <1>7, <1>8 DEF RateInv

LEMMA RateInvariant == RateLimitSpec => []RateInv
<1>1. ClockInit /\ RateLimitInit => RateInv
  BY RateInit
<1>2. RateInv /\ [RateLimitStep \/ RateLimitTick]_<<now, rateVars>> => RateInv'
  <2> SUFFICES ASSUME RateInv, [RateLimitStep \/ RateLimitTick]_<<now, rateVars>> PROVE RateInv'
    OBVIOUS
  <2>1. CASE UNCHANGED <<now, rateVars>>
    BY <2>1 DEF RateInv, rateVars
  <2> QED BY <2>1, RateStepKeeps, TickKeepsRate
<1> QED BY <1>1, <1>2, PTL DEF RateLimitSpec

LEMMA RateTypes == RateInv => RateLimitTypeOK
<1> SUFFICES ASSUME RateInv PROVE RateLimitTypeOK
  OBVIOUS
<1>1. buckets \in Seq(Bucket) /\ KeysUnique(buckets)
  BY DEF RateInv, IsMap
<1>2. \A i \in 1..Len(buckets) : buckets[i] \in Elems(buckets)
  BY DEF Elems
<1> QED BY <1>1, <1>2 DEF RateInv, RateLimitTypeOK, Bucket

LEMMA RateTwice == RateInv => TwiceTheBudget
<1> SUFFICES ASSUME RateInv, NEW p \in Peers, AllMetered(hits, p)
             PROVE  Cardinality(Lately(p, {"passed"})) <= 2 * Budget
  BY DEF TwiceTheBudget, AllMetered
<1> DEFINE t == now - Life(backend) + 1
           L == PassedSince(hits, p, t)
<1>1. /\ now \in Nat /\ IsMap(buckets, Bucket) /\ Elems(buckets) \subseteq Bucket
      /\ Budgeted(hits, buckets, now, p, Life(backend)) /\ hits \in [Hits -> HitRecord]
  BY EntryFacts DEF RateInv
<1>2. \A g \in Hits : hits[g].at \in Nat
  BY <1>1 DEF HitRecord
<1>3. Lately(p, {"passed"}) = L
  <2>1. \A g \in Hits : now - hits[g].at < Life(backend) <=> hits[g].at >= t
    BY <1>1, <1>2, RateLimitAssumption, LifeType
  <2> QED BY <2>1 DEF Lately, PassedSince
<1>4. L \in SUBSET Hits
  BY DEF PassedSince
<1>5. CASE \A b \in Elems(buckets) : b.key = p => b.exp <= now
  <2>1. Cardinality(L) <= Budget
    BY <1>1, <1>5 DEF Budgeted
  <2> HIDE DEF L
  <2>2. Cardinality(L) \in Nat
    BY <1>4, HitSets
  <2>3. Cardinality(L) <= 2 * Budget
    BY <2>1, <2>2, RateLimitAssumption
  <2> QED BY <1>3, <2>3
<1>6. CASE \E b \in Elems(buckets) : b.key = p /\ ~ (b.exp <= now)
  <2>1. PICK b \in Elems(buckets) : b.key = p /\ ~ (b.exp <= now)
    BY <1>6
  <2>2. b.exp \in Nat /\ now < b.exp
    BY <1>1, <2>1 DEF Bucket
  <2> DEFINE s == b.exp - Life(backend)
             A == PassedSince(hits, p, s)
             B == PassedIn(hits, p, t, s)
  <2>3. Cardinality(A) <= Budget /\ Cardinality(B) <= Budget
    BY <1>1, <2>1, <2>2 DEF Budgeted
  <2>4. s \in Int
    BY <2>2, RateLimitAssumption, LifeType
  <2>5. A \in SUBSET Hits /\ B \in SUBSET Hits
    BY DEF PassedSince, PassedIn
  <2>6. L \in SUBSET (A \cup B)
    <3>1. ASSUME NEW g \in L PROVE g \in A \cup B
      <4>1. g \in Hits /\ hits[g].at \in Nat
        BY <1>2 DEF PassedSince
      <4>2. CASE hits[g].at >= s
        BY <4>1, <4>2 DEF PassedSince
      <4>3. CASE hits[g].at < s
        BY <4>1, <4>3 DEF PassedIn
      <4> HIDE DEF L, A, B, s
      <4> QED BY <2>4, <4>1, <4>2, <4>3
    <3> QED BY <3>1
  <2> HIDE DEF A, B, L
  <2>7. IsFiniteSet(A) /\ Cardinality(A) \in Nat /\ IsFiniteSet(B) /\ Cardinality(B) \in Nat /\ Cardinality(L) \in Nat
    BY <1>4, <2>5, HitSets
  <2>8. Cardinality(A \cup B) = Cardinality(A) + Cardinality(B) - Cardinality(A \cap B) /\ IsFiniteSet(A \cup B)
    BY <2>7, FS_Union
  <2>9. Cardinality(A \cap B) \in Nat
    <3>1. A \cap B \in SUBSET Hits
      BY <2>5
    <3> QED BY <3>1, HitSets
  <2>10. Cardinality(L) <= Cardinality(A \cup B)
    BY <2>6, <2>8, FS_Subset
  <2>11. Cardinality(L) <= 2 * Budget
    BY <2>3, <2>7, <2>8, <2>9, <2>10, RateLimitAssumption, LifeType
  <2> QED BY <1>3, <2>11
<1> QED BY <1>5, <1>6

\* The requests of the peer other than h within the last window.
Knocks(h, p) ==
    {g \in Hits \ {h} : hits[g].peer = p /\ now - hits[g].at < Life(backend) /\ hits[g].st \in {"passed", "blocked"}}

\* A full bucket whose window runs stands for at least Budget such requests.
LEMMA FullIsEarned ==
    ASSUME RateInv, NEW h \in Hits, hits[h].st \in {"unmade", "adding"},
           NEW b \in Elems(buckets), Live(b), b.count >= Budget
    PROVE  Cardinality(Knocks(h, b.key)) >= Budget
<1>1. /\ now \in Nat /\ IsMap(buckets, Bucket) /\ Elems(buckets) \subseteq Bucket
      /\ Earned(b, hits, now, Life(backend)) /\ hits \in [Hits -> HitRecord]
  BY EntryFacts DEF RateInv
<1>2. b.exp \in Nat /\ b.count \in Nat /\ now < b.exp
  BY <1>1 DEF Bucket, Live
<1> DEFINE S == SeenSince(hits, b.key, b.exp - Life(backend))
           T == Knocks(h, b.key)
<1>3. S \in SUBSET T /\ T \in SUBSET Hits
  <2>1. ASSUME NEW g \in S PROVE g \in T
    <3>1. g \in Hits /\ hits[g].at \in Nat /\ hits[g].at >= b.exp - Life(backend) /\ g # h
      BY <1>1 DEF SeenSince, HitRecord
    <3>2. now - hits[g].at < Life(backend)
      BY <1>1, <1>2, <3>1, RateLimitAssumption, LifeType
    <3> QED BY <3>1, <3>2 DEF Knocks, SeenSince
  <2> QED BY <2>1 DEF Knocks
<1>4. b.count <= Cardinality(S)
  BY <1>1 DEF Earned
<1> HIDE DEF S, T
<1>5. Cardinality(S) \in Nat /\ Cardinality(T) \in Nat /\ Cardinality(S) <= Cardinality(T)
  BY <1>3, HitSets
<1>6. Cardinality(T) >= Budget
  BY <1>2, <1>4, <1>5, RateLimitAssumption, LifeType
<1> QED BY <1>6 DEF T

\* A live bucket with a full count is what a counted refusal comes from.
Full(p) == \E b \in Elems(buckets) : b.key = p /\ Live(b) /\ b.count >= Budget

LEMMA CountedIsFull ==
    ASSUME RateInv, NEW p, HoldsLive(buckets, p), Counted(p).count > Budget
    PROVE  Full(p)
<1>1. IsMap(buckets, Bucket) /\ Elems(buckets) \subseteq Bucket
  BY EntryFacts DEF RateInv
<1>2. PICK b \in Elems(buckets) : b.key = p /\ Live(b) /\ EntryOf(buckets, p) = b
  BY <1>1, EntryFacts
<1>3. b.count \in Nat /\ Counted(p).count = b.count + 1
  BY <1>1, <1>2 DEF Counted, Bucket
<1>4. b.count >= Budget
  BY <1>3, RateLimitAssumption
<1> QED BY <1>2, <1>4 DEF Full

LEMMA BlockedIsFull ==
    ASSUME RateInv, RateLimitStep, NEW h \in Hits,
           hits[h].st \in {"unmade", "adding"}, hits'[h].st = "blocked", hits'[h].metered
    PROVE  Full(hits'[h].peer)
<1>1. hits \in [Hits -> HitRecord] /\ now \in Nat
  BY DEF RateInv
<1>2. ASSUME NEW g \in Hits, NEW p, NEW st, NEW read, NEW metered, VerdictOn(g, p, st, read, metered)
      PROVE  h = g /\ hits'[h].peer = p /\ hits'[h].st = st /\ hits'[h].metered = metered
  <2>1. Verdicts(g, VerdictOf(p, st, read, metered))
    BY <1>2, VerdictIs
  <2>2. h = g
    <3> SUFFICES ASSUME h # g PROVE FALSE
      OBVIOUS
    <3>1. hits'[h] = IF Marked(h) THEN [hits[h] EXCEPT !.metered = FALSE] ELSE hits[h]
      BY <2>1 DEF Verdicts
    <3>2. hits'[h].st = hits[h].st
      BY <1>1, <3>1 DEF HitRecord
    <3> QED BY <3>2
  <2>3. hits'[h] = VerdictOf(p, st, read, metered)
    BY <2>1, <2>2 DEF Verdicts
  <2> QED BY <2>2, <2>3 DEF VerdictOf
<1>3. ASSUME NEW g \in Hits, NEW p, HoldsLive(buckets, p), Decide(g, p, Counted(p).count)
      PROVE  Full(hits'[h].peer)
  <2>1. hits'[h].peer = p /\ hits'[h].st = IF Counted(p).count > Budget THEN "blocked" ELSE "passed"
    BY <1>2, <1>3 DEF Decide, Verdict
  <2> QED BY <1>3, <2>1, CountedIsFull
<1>4. ASSUME NEW g \in Hits, NEW p, Decide(g, p, 1) PROVE FALSE
  <2>1. hits'[h].st = IF 1 > Budget THEN "blocked" ELSE "passed"
    BY <1>2, <1>4 DEF Decide, Verdict
  <2>2. ~ (1 > Budget)
    BY RateLimitAssumption, LifeType
  <2> QED BY <2>1, <2>2
<1>5. ASSUME NEW g \in Hits, NEW p \in Peers, HitCounted(g, p) PROVE Full(hits'[h].peer)
  BY <1>3, <1>5 DEF HitCounted
<1>6. ASSUME NEW g \in Hits, NEW p \in Peers, HitFresh(g, p) PROVE FALSE
  BY <1>4, <1>6 DEF HitFresh
<1>7. ASSUME NEW g \in Hits, NEW p \in Peers, MemcachedAdd(g, p) PROVE FALSE
  <2>1. CASE HoldsLive(buckets, p)
    <3> DEFINE r == [Unmade EXCEPT !.st = "adding", !.peer = p]
    <3>1. hits' = [hits EXCEPT ![g] = r]
      BY <1>7, <2>1 DEF MemcachedAdd
    <3>2. r.st = "adding"
      BY DEF Unmade
    <3> HIDE DEF r
    <3>3. hits'[h] = r \/ hits'[h] = hits[h]
      BY <1>1, <3>1
    <3> QED BY <3>2, <3>3
  <2>2. CASE ~HoldsLive(buckets, p)
    BY <1>4, <1>7, <2>2 DEF MemcachedAdd
  <2> QED BY <2>1, <2>2
<1>8. ASSUME NEW g \in Hits, MemcachedIncr(g) PROVE Full(hits'[h].peer)
  <2>1. CASE HoldsLive(buckets, hits[g].peer)
    BY <1>3, <1>8, <2>1 DEF MemcachedIncr
  <2>2. CASE ~HoldsLive(buckets, hits[g].peer)
    <3>1. Verdict(g, hits[g].peer, "passed", FALSE)
      BY <1>8, <2>2 DEF MemcachedIncr
    <3>2. hits'[h].st = "passed"
      BY <1>2, <3>1 DEF Verdict
    <3> QED BY <3>2
  <2> QED BY <2>1, <2>2
<1>9. ASSUME NEW g \in Hits, NEW p \in Peers, StoreFails(g, p) PROVE FALSE
  <2>1. hits'[h].st = IF failClosed THEN "refused" ELSE "passed"
    BY <1>2, <1>9 DEF StoreFails, Verdict
  <2> QED BY <2>1
<1>10. ASSUME NEW g \in Hits, NEW p \in Peers, NEW at \in 0..now, NativeHit(g, p, at)
       PROVE  Full(hits'[h].peer)
  <2>1. PICK table \in NativeTables(p, at) : NativeHitAfter(table, g, p, at)
    BY <1>10 DEF NativeHit
  <2> DEFINE b == EntryOf(table, p)
  <2>2. \A st, metered : VerdictOn(g, p, st, at, metered) =>
            hits'[h].peer = p /\ hits'[h].st = st /\ hits'[h].metered = metered
    BY <1>2
  <2>3. /\ Holds(table, p) /\ FALSE \in WindowOver(b, at) /\ b.count >= Budget
        /\ VerdictOn(g, p, "blocked", at, TRUE /\ at = now)
    <3>1. ~VerdictOn(g, p, "passed", at, FALSE /\ at = now)
      BY <2>2
    <3>2. ~VerdictOn(g, p, "passed", at, TRUE /\ at = now)
      <4> SUFFICES ASSUME VerdictOn(g, p, "passed", at, TRUE /\ at = now) PROVE FALSE
        OBVIOUS
      <4>1. hits'[h].st = "passed"
        BY <2>2, Zenon
      <4> QED BY <4>1
    <3> HIDE DEF b
    <3> QED BY <2>1, <3>1, <3>2 DEF NativeHitAfter, b
  <2>4. hits'[h].peer = p /\ at = now
    <3>1. hits'[h].peer = p /\ hits'[h].metered = (TRUE /\ at = now)
      BY <2>2, <2>3, Zenon
    <3> QED BY <3>1
  <2>5. IsMap(buckets, Bucket) /\ Elems(buckets) \subseteq Bucket /\ \A e \in Elems(buckets) : Earned(e, hits, now, Life(backend))
    BY EntryFacts DEF RateInv
  <2>6. Elems(table) \subseteq Elems(buckets) /\ IsMap(table, Bucket)
    BY <2>1, <2>5, NativeTablesFacts
  <2>7. b \in Elems(buckets) /\ b.key = p /\ b.exp \in Nat /\ Earned(b, hits, now, Life(backend))
    BY <2>3, <2>5, <2>6, EntryFacts DEF Bucket
  <2>8. WindowOver(b, at) = {at >= b.exp}
    <3>0. Life(backend) = WindowLen
      BY <1>10 DEF NativeHit, Life
    <3>1. ~ (at < b.exp - WindowLen)
      BY <1>1, <3>0, <2>4, <2>7, RateLimitAssumption, LifeType DEF Earned
    <3> QED BY <3>1 DEF WindowOver
  <2>9. Live(b)
    <3>1. ~ (at >= b.exp)
      BY <2>3, <2>8
    <3> HIDE DEF b
    <3> QED BY <1>1, <2>4, <2>7, <3>1 DEF Live
  <2> QED BY <2>3, <2>4, <2>7, <2>9 DEF Full
<1>11. CASE SweepBuckets
  BY <1>11 DEF SweepBuckets
<1> QED BY <1>5, <1>6, <1>7, <1>8, <1>9, <1>10, <1>11 DEF RateLimitStep

\* A window that has not ended keeps its end: m is what was left of the buckets before.
LEMMA EndKept ==
    ASSUME RateInv, NEW m, IsMap(m, Bucket), Elems(m) \subseteq Elems(buckets),
           NEW x \in Bucket, buckets' = Put(m, x),
           HoldsLive(buckets, x.key) => x.exp = EntryOf(buckets, x.key).exp
    PROVE  \A p \in Peers : HoldsLive(buckets, p) /\ Holds(buckets', p)
               => EntryOf(buckets', p).exp = EntryOf(buckets, p).exp
<1> SUFFICES ASSUME NEW p \in Peers, HoldsLive(buckets, p), Holds(buckets', p)
             PROVE  EntryOf(buckets', p).exp = EntryOf(buckets, p).exp
  OBVIOUS
<1>1. IsMap(buckets, Bucket) /\ IsMap(buckets', Bucket) /\ Elems(buckets') = {x} \cup {e \in Elems(m) : e.key # x.key}
  BY PutFacts DEF RateInv
<1>2. PICK e \in Elems(buckets') : e.key = p /\ EntryOf(buckets', p) = e
  BY <1>1, EntryFacts
<1>3. CASE e = x
  BY <1>2, <1>3
<1>4. CASE e # x
  <2>1. e \in Elems(buckets)
    BY <1>1, <1>4
  <2>2. EntryOf(buckets, p) = e
    BY <1>1, <1>2, <2>1, EntryFacts
  <2> QED BY <1>2, <2>2
<1> QED BY <1>3, <1>4

\* ... and when there is no new bucket.
LEMMA EndStays ==
    ASSUME RateInv, IsMap(buckets', Bucket), Elems(buckets') \subseteq Elems(buckets)
    PROVE  \A p \in Peers : HoldsLive(buckets, p) /\ Holds(buckets', p)
               => EntryOf(buckets', p).exp = EntryOf(buckets, p).exp
<1> SUFFICES ASSUME NEW p \in Peers, Holds(buckets', p)
             PROVE  EntryOf(buckets', p) = EntryOf(buckets, p)
  OBVIOUS
<1>1. IsMap(buckets, Bucket)
  BY DEF RateInv
<1>2. PICK e \in Elems(buckets') : e.key = p /\ EntryOf(buckets', p) = e
  BY EntryFacts
<1>3. e \in Elems(buckets)
  BY <1>2
<1> QED BY <1>1, <1>2, <1>3, EntryFacts

LEMMA WindowsEnd ==
    ASSUME RateInv, RateLimitStep, backend # "native"
    PROVE  \A p \in Peers : HoldsLive(buckets, p) /\ Holds(buckets', p)
               => EntryOf(buckets', p).exp = EntryOf(buckets, p).exp
<1> DEFINE Stays == \A p \in Peers : HoldsLive(buckets, p) /\ Holds(buckets', p)
               => EntryOf(buckets', p).exp = EntryOf(buckets, p).exp
<1>1. /\ IsMap(buckets, Bucket) /\ Elems(buckets) \subseteq Bucket /\ now \in 0..MaxTime
  BY EntryFacts DEF RateInv
<1>2. now \in Nat
  BY <1>1
<1>3. ASSUME NEW p, HoldsLive(buckets, p), buckets' = Put(buckets, Counted(p)) PROVE Stays
  <2>1. EntryOf(buckets, p) \in Bucket /\ EntryOf(buckets, p).key = p
    BY <1>1, <1>3, EntryFacts
  <2>2. /\ Counted(p) \in Bucket /\ Counted(p).key = p
        /\ Counted(p).exp = EntryOf(buckets, p).exp
    BY <2>1 DEF Counted, Bucket
  <2> HIDE DEF Stays
  <2> QED BY <1>1, <1>3, <2>2, EndKept DEF Stays
<1>4. ASSUME NEW p \in Peers, ~HoldsLive(buckets, p), NEW m, IsMap(m, Bucket), Elems(m) \subseteq Elems(buckets),
             buckets' = Put(m, Fresh(p, now)) PROVE Stays
  <2>1. Fresh(p, now) \in Bucket /\ Fresh(p, now).key = p
    BY <1>2, RateLimitAssumption, LifeType DEF Fresh, Bucket
  <2> HIDE DEF Stays
  <2> QED BY <1>4, <2>1, EndKept DEF Stays
<1>5. ASSUME buckets' = buckets PROVE Stays
  BY <1>1, <1>5, EndStays
<1>6. /\ IsMap(Unexpired(buckets), Bucket) /\ Elems(Unexpired(buckets)) \subseteq Elems(buckets)
      /\ IsMap(MakeRoom(buckets, BucketMax), Bucket) /\ Elems(MakeRoom(buckets, BucketMax)) \subseteq Elems(buckets)
  <2>1. IsMap(Unexpired(buckets), Bucket) /\ Elems(Unexpired(buckets)) \subseteq Elems(buckets)
    BY <1>1, UnexpiredFacts
  <2>2. BucketMax \in Nat \ {0}
    BY RateLimitAssumption
  <2>3. IsMap(MakeRoom(buckets, BucketMax), Bucket) /\ Elems(MakeRoom(buckets, BucketMax)) \subseteq Elems(buckets)
    BY <1>1, <2>2, MakeRoomFacts
  <2> QED BY <2>1, <2>3
<1>7. ASSUME SweepBuckets PROVE Stays
  BY <1>6, <1>7, EndStays DEF SweepBuckets
<1> HIDE DEF Stays
<1>8. ASSUME NEW h \in Hits, NEW p \in Peers, HitCounted(h, p) PROVE Stays
  BY <1>3, <1>8 DEF HitCounted
<1>9. ASSUME NEW h \in Hits, NEW p \in Peers, HitFresh(h, p) PROVE Stays
  BY <1>4, <1>6, <1>9 DEF HitFresh
<1>10. ASSUME NEW h \in Hits, NEW p \in Peers, MemcachedAdd(h, p) PROVE Stays
  BY <1>4, <1>5, <1>6, <1>10 DEF MemcachedAdd
<1>11. ASSUME NEW h \in Hits, MemcachedIncr(h) PROVE Stays
  BY <1>3, <1>5, <1>11 DEF MemcachedIncr
<1>12. ASSUME NEW h \in Hits, NEW p \in Peers, StoreFails(h, p) PROVE Stays
  BY <1>5, <1>12 DEF StoreFails
<1>13. ASSUME NEW h \in Hits, NEW p \in Peers, NEW at \in 0..now, NativeHit(h, p, at) PROVE FALSE
  BY <1>13 DEF NativeHit
<1>14. Stays
  <2>1. CASE \E h \in Hits : \E p \in Peers :
              \/ HitCounted(h, p) \/ HitFresh(h, p) \/ MemcachedAdd(h, p) \/ StoreFails(h, p)
              \/ \E at \in 0..now : NativeHit(h, p, at)
    <3>1. PICK h \in Hits, p \in Peers :
              \/ HitCounted(h, p) \/ HitFresh(h, p) \/ MemcachedAdd(h, p) \/ StoreFails(h, p)
              \/ \E at \in 0..now : NativeHit(h, p, at)
      BY <2>1
    <3> QED BY <1>8, <1>9, <1>10, <1>12, <1>13, <3>1
  <2>2. CASE \E h \in Hits : MemcachedIncr(h)
    BY <1>11, <2>2
  <2> QED BY <1>7, <2>1, <2>2 DEF RateLimitStep
<1> QED BY <1>14 DEF Stays

(***************************************************************************)
(* The fixed-window limiters (rate-limit.ts, its stores, the engine's       *)
(* limiter): at most twice the budget passes in one window's time (that of  *)
(* the store: memcached's is whole seconds, at most thirty days), a         *)
(* request is blocked only on a budget of others lately, and no request     *)
(* moves the end of a window that runs.                                     *)
(***************************************************************************)
THEOREM RateLimitTheorem == RateLimitSpec => RateLimitCorrect
<1> DEFINE Step == [RateLimitStep \/ RateLimitTick]_<<now, rateVars>>
           Earns == \A h \in Hits :
                      hits[h].st \in {"unmade", "adding"} /\ hits'[h].st = "blocked" /\ hits'[h].metered
                      => Cardinality({g \in Hits \ {h} :
                             hits[g].peer = hits'[h].peer /\ now - hits[g].at < Life(backend)
                             /\ hits[g].st \in {"passed", "blocked"}}) >= Budget
           Ends == backend # "native" =>
                      \A p \in Peers :
                         HoldsLive(buckets, p) /\ Holds(buckets, p)'
                         => EntryOf(buckets', p).exp = EntryOf(buckets, p).exp
<1>1. RateLimitSpec => []RateInv
  BY RateInvariant
<1>2. RateInv => RateLimitTypeOK /\ TwiceTheBudget
  BY RateTypes, RateTwice
<1>3. RateInv /\ Step => Earns
  <2> SUFFICES ASSUME RateInv, Step, NEW h \in Hits, hits[h].st \in {"unmade", "adding"},
                      hits'[h].st = "blocked", hits'[h].metered
               PROVE  Cardinality(Knocks(h, hits'[h].peer)) >= Budget
    BY DEF Knocks
  <2>1. CASE RateLimitStep
    <3>1. Full(hits'[h].peer)
      BY <2>1, BlockedIsFull
    <3> QED BY <3>1, FullIsEarned DEF Full
  <2>2. CASE RateLimitTick \/ UNCHANGED <<now, rateVars>>
    BY <2>2 DEF RateLimitTick, rateVars
  <2> QED BY <2>1, <2>2
<1>4. RateInv /\ Step => Ends
  <2> SUFFICES ASSUME RateInv, Step, backend # "native" PROVE \A p \in Peers :
                         HoldsLive(buckets, p) /\ Holds(buckets', p)
                         => EntryOf(buckets', p).exp = EntryOf(buckets, p).exp
    BY DEF Holds
  <2>1. CASE RateLimitStep
    BY <2>1, WindowsEnd
  <2>2. CASE RateLimitTick \/ UNCHANGED <<now, rateVars>>
    BY <2>2 DEF RateLimitTick, rateVars
  <2> QED BY <2>1, <2>2
<1>5. [][Earns]_<<now, rateVars>> => BlockIsEarned
  BY PTL DEF BlockIsEarned
<1>6. [][Ends]_<<now, rateVars>> => WindowEnds
  BY PTL DEF WindowEnds
<1>7. RateLimitSpec => [][RateLimitStep \/ RateLimitTick]_<<now, rateVars>>
  BY DEF RateLimitSpec
<1> HIDE DEF Earns, Ends
<1> QED BY <1>1, <1>2, <1>3, <1>4, <1>5, <1>6, <1>7, PTL DEF RateLimitCorrect

-----------------------------------------------------------------------------
(* The idempotency plugin: who holds a key, and what its slot stands for.    *)

Retry == [st : {"unsent", "looking", "running", "failing", "storing", "stored", "failed", "thrown",
                "mismatch", "in-flight", "replay"},
          key : IdemKeys \cup {"none"}, print : Prints \cup {"none"}, since : Nat, done : Nat,
          from : 0..MaxRetries, over : BOOLEAN, evicted : BOOLEAN]

\* A request of the key lost its protection for good, or failed late on a shared store.
Spoilt(rs, sh, k) ==
    \E u \in Retries : rs[u].key = k /\ (rs[u].over \/ rs[u].evicted \/ (sh /\ rs[u].st = "failed"))

Holder(rs, r, k, t) == rs[r].key = k /\ rs[r].st \in Executing /\ t < rs[r].since + LockTtl
Standing(rs, q, k, t) == rs[q].key = k /\ rs[q].st = "stored" /\ t < rs[q].done + RecordTtl

\* While nothing has spoilt the key: in the MemoryStore its one holder has its reservation,
\* and a response that is to be kept is there, or a later one.
Guarded(rs, ss, sh, t, k) ==
    ~Spoilt(rs, sh, k) =>
        /\ ~sh => \A r \in Retries : Holder(rs, r, k, t) =>
               /\ \E s \in Elems(ss) : s.key = k /\ s.rec = Pending /\ s.exp = rs[r].since + LockTtl
               /\ \A q \in Retries : Holder(rs, q, k, t) => q = r
        /\ \A q \in Retries : Standing(rs, q, k, t) =>
               \E s \in Elems(ss) : s.key = k /\ s.rec # Pending /\ s.exp >= rs[q].done + RecordTtl

IsAnswer(rs, q, k, p) == q \in Retries /\ rs[q].st = "stored" /\ rs[q].key = k /\ rs[q].print = p

RetryOK(g, sh, t) ==
    /\ g.st # "unsent" => g.key \in IdemKeys /\ g.print \in Prints
    /\ g.st = "looking" => sh
    /\ g.over => g.st \in {"stored", "failed"}
    /\ g.evicted => g.st # "unsent"
    /\ g.done <= t

IdemInv ==
    /\ now \in Nat /\ shared \in BOOLEAN
    /\ IsMap(slots, Slot)
    /\ retries \in [Retries -> Retry]
    /\ \A r \in Retries : RetryOK(retries[r], shared, now)
    /\ \A s \in Elems(slots) : s.rec # Pending => IsAnswer(retries, s.rec, s.key, s.print)
    /\ \A r \in Retries : retries[r].st = "replay" =>
           IsAnswer(retries, retries[r].from, retries[r].key, retries[r].print)
    /\ \A k \in IdemKeys : Guarded(retries, slots, shared, now, k)

\* A step that gives the key no new holder and no new response, and takes nothing live from it.
LEMMA QuietGuarded ==
    ASSUME IdemInv, NEW k \in IdemKeys, shared' = shared, now' \in Nat, now <= now',
           retries' \in [Retries -> Retry],
           Spoilt(retries, shared, k) => Spoilt(retries', shared, k),
           ~shared => \A r \in Retries : Holder(retries', r, k, now') =>
                          Holder(retries, r, k, now') /\ retries'[r].since = retries[r].since,
           \A q \in Retries : Standing(retries', q, k, now') =>
                          Standing(retries, q, k, now') /\ retries'[q].done = retries[q].done,
           ~Spoilt(retries', shared, k)
               /\ (\E r \in Retries : retries[r].key = k /\ retries[r].st \in Executing \cup {"stored"}) =>
                \A e \in Elems(slots) : e.key = k /\ Live(e) => e \in Elems(slots')
    PROVE  Guarded(retries', slots', shared', now', k)
<1> SUFFICES ASSUME ~Spoilt(retries', shared, k)
             PROVE  /\ ~shared => \A r \in Retries : Holder(retries', r, k, now') =>
                        /\ \E s \in Elems(slots') : s.key = k /\ s.rec = Pending /\ s.exp = retries'[r].since + LockTtl
                        /\ \A q \in Retries : Holder(retries', q, k, now') => q = r
                    /\ \A q \in Retries : Standing(retries', q, k, now') =>
                        \E s \in Elems(slots') : s.key = k /\ s.rec # Pending /\ s.exp >= retries'[q].done + RecordTtl
  BY DEF Guarded
<1>1. /\ now \in Nat /\ IsMap(slots, Slot) /\ Elems(slots) \subseteq Slot /\ retries \in [Retries -> Retry]
      /\ Guarded(retries, slots, shared, now, k)
  BY EntryFacts DEF IdemInv
<1>2. \A r \in Retries : retries[r].since \in Nat /\ retries[r].done \in Nat
  BY <1>1 DEF Retry
<1>3. /\ \A r \in Retries : Holder(retries, r, k, now') => Holder(retries, r, k, now)
      /\ \A q \in Retries : Standing(retries, q, k, now') => Standing(retries, q, k, now)
  BY <1>1, <1>2, IdempotencyAssumption DEF Holder, Standing
<1>4. ASSUME NEW r \in Retries, Holder(retries, r, k, now) \/ Standing(retries, r, k, now)
      PROVE  \A e \in Elems(slots) : e.key = k /\ Live(e) => e \in Elems(slots')
  BY <1>4 DEF Holder, Standing
<1>5. ASSUME ~shared, NEW r \in Retries, Holder(retries', r, k, now')
      PROVE  /\ \E s \in Elems(slots') : s.key = k /\ s.rec = Pending /\ s.exp = retries'[r].since + LockTtl
             /\ \A q \in Retries : Holder(retries', q, k, now') => q = r
  <2>1. Holder(retries, r, k, now) /\ Holder(retries, r, k, now') /\ retries'[r].since = retries[r].since
    BY <1>3, <1>5
  <2>2. PICK s \in Elems(slots) : s.key = k /\ s.rec = Pending /\ s.exp = retries[r].since + LockTtl
    BY <1>1, <1>5, <2>1 DEF Guarded
  <2>3. Live(s)
    BY <1>1, <1>2, <2>1, <2>2, IdempotencyAssumption DEF Live, Holder
  <2>4. s \in Elems(slots')
    BY <1>4, <2>1, <2>2, <2>3
  <2>5. \A q \in Retries : Holder(retries', q, k, now') => q = r
    BY <1>1, <1>3, <1>5, <2>1 DEF Guarded
  <2> QED BY <2>1, <2>2, <2>4, <2>5
<1>6. ASSUME NEW q \in Retries, Standing(retries', q, k, now')
      PROVE  \E s \in Elems(slots') : s.key = k /\ s.rec # Pending /\ s.exp >= retries'[q].done + RecordTtl
  <2>1. Standing(retries, q, k, now) /\ Standing(retries, q, k, now') /\ retries'[q].done = retries[q].done
    BY <1>3, <1>6
  <2>2. PICK s \in Elems(slots) : s.key = k /\ s.rec # Pending /\ s.exp >= retries[q].done + RecordTtl
    BY <1>1, <2>1 DEF Guarded
  <2>3. Live(s)
    <3>1. s.exp \in Nat
      BY <1>1 DEF Slot
    <3> QED BY <1>1, <1>2, <2>1, <2>2, <3>1, IdempotencyAssumption DEF Live, Standing
  <2>4. s \in Elems(slots')
    BY <1>4, <2>1, <2>2, <2>3
  <2> QED BY <2>1, <2>2, <2>4
<1> QED BY <1>5, <1>6

\* Answers stay answers while the requests that are stored stay as they are.
LEMMA AnswersStay ==
    ASSUME IdemInv, NEW q, NEW k, NEW p, IsAnswer(retries, q, k, p),
           \A r \in Retries : retries[r].st = "stored" =>
               /\ retries'[r].st = "stored" /\ retries'[r].key = retries[r].key
               /\ retries'[r].print = retries[r].print
    PROVE  IsAnswer(retries', q, k, p)
BY DEF IsAnswer

LEMMA EnterFacts ==
    ASSUME IdemInv, NEW r \in Retries, NEW k \in IdemKeys, NEW p \in Prints,
           NEW st \in {"running", "looking", "mismatch", "in-flight", "replay"}, Enter(r, k, p, st),
           st = "replay" => EntryOf(slots, k).rec \in 0..MaxRetries
    PROVE  /\ retries' \in [Retries -> Retry]
           /\ retries'[r].st = st /\ retries'[r].key = k /\ retries'[r].print = p /\ retries'[r].done = 0
           /\ ~retries'[r].over /\ ~retries'[r].evicted
           /\ st = "running" => retries'[r].since = now
           /\ st = "replay" => retries'[r].from = EntryOf(slots, k).rec
           /\ \A q \in Retries \ {r} :
                /\ retries'[q].st = retries[q].st /\ retries'[q].key = retries[q].key
                /\ retries'[q].print = retries[q].print /\ retries'[q].since = retries[q].since
                /\ retries'[q].done = retries[q].done /\ retries'[q].from = retries[q].from
                /\ retries'[q].over = retries[q].over
                /\ retries[q].evicted => retries'[q].evicted
                /\ q \in EvictedBy(slots') => retries'[q].evicted
                /\ q \notin EvictedBy(slots') => retries'[q].evicted = retries[q].evicted
<1> DEFINE x == [Unsent EXCEPT !.st = st, !.key = k, !.print = p,
                       !.since = IF st \in {"running", "looking"} THEN now ELSE 0,
                       !.from = IF st = "replay" THEN EntryOf(slots, k).rec ELSE 0]
           u == [q \in Retries |-> IF q = r THEN x
                    ELSE IF q \in EvictedBy(slots') THEN [retries[q] EXCEPT !.evicted = TRUE] ELSE retries[q]]
<1>1. retries' = u
  BY DEF Enter
<1>2. now \in Nat /\ retries \in [Retries -> Retry] /\ 0 \in 0..MaxRetries
  BY IdempotencyAssumption DEF IdemInv
<1>3. /\ x.st = st /\ x.key = k /\ x.print = p /\ x.done = 0 /\ x.over = FALSE /\ x.evicted = FALSE
      /\ st = "running" => x.since = now
      /\ st = "replay" => x.from = EntryOf(slots, k).rec
  BY DEF Unsent
<1>4. x \in Retry
  BY <1>2 DEF Unsent, Retry
<1> HIDE DEF x
<1>5. \A q \in Retries : retries[q] \in Retry
  BY <1>2
<1>6. ASSUME NEW q \in Retries \ {r}
      PROVE  /\ u[q] \in Retry
             /\ u[q].st = retries[q].st /\ u[q].key = retries[q].key
             /\ u[q].print = retries[q].print /\ u[q].since = retries[q].since
             /\ u[q].done = retries[q].done /\ u[q].from = retries[q].from
             /\ u[q].over = retries[q].over
             /\ q \in EvictedBy(slots') => u[q].evicted
             /\ q \notin EvictedBy(slots') => u[q].evicted = retries[q].evicted
  <2>1. CASE q \in EvictedBy(slots')
    <3>1. u[q] = [retries[q] EXCEPT !.evicted = TRUE]
      BY <2>1
    <3> HIDE DEF u
    <3> QED BY <1>5, <2>1, <3>1 DEF Retry
  <2>2. CASE q \notin EvictedBy(slots')
    <3>1. u[q] = retries[q]
      BY <2>2
    <3> HIDE DEF u
    <3> QED BY <1>5, <2>2, <3>1
  <2> QED BY <2>1, <2>2
<1>7. u[r] = x
  OBVIOUS
<1>8. u \in [Retries -> Retry]
  BY <1>4, <1>6, <1>7
<1> HIDE DEF u
<1> QED BY <1>1, <1>3, <1>6, <1>7, <1>8

LEMMA SlotFacts ==
    ASSUME IdemInv
    PROVE  /\ now \in Nat /\ shared \in BOOLEAN /\ IsMap(slots, Slot) /\ Elems(slots) \subseteq Slot
           /\ retries \in [Retries -> Retry] /\ Pending \notin Retries
           /\ \A r \in Retries : RetryOK(retries[r], shared, now)
           /\ \A r \in Retries : retries[r].since \in Nat /\ retries[r].done \in Nat
           /\ \A k \in IdemKeys : Guarded(retries, slots, shared, now, k)
           /\ \A s \in Elems(slots) : s.exp \in Nat /\ s.rec \in 0..MaxRetries
<1>1. /\ now \in Nat /\ shared \in BOOLEAN /\ IsMap(slots, Slot) /\ retries \in [Retries -> Retry]
      /\ \A r \in Retries : RetryOK(retries[r], shared, now)
      /\ \A k \in IdemKeys : Guarded(retries, slots, shared, now, k)
  BY DEF IdemInv
<1>2. Elems(slots) \subseteq Slot
  BY <1>1, EntryFacts
<1>3. \A s \in Elems(slots) : s.exp \in Nat /\ s.rec \in 0..MaxRetries
  BY <1>2 DEF Slot
<1>4. \A r \in Retries : retries[r].since \in Nat /\ retries[r].done \in Nat
  BY <1>1 DEF Retry
<1>5. Pending \notin Retries
  BY DEF Pending, Retries
<1> QED BY <1>1, <1>2, <1>3, <1>4, <1>5

\* A key that has no live slot has no holder and no response to keep.
LEMMA FreeKey ==
    ASSUME IdemInv, NEW k \in IdemKeys, ~HoldsLive(slots, k), ~Spoilt(retries, shared, k)
    PROVE  /\ ~shared => \A q \in Retries : ~Holder(retries, q, k, now)
           /\ \A q \in Retries : ~Standing(retries, q, k, now)
<1>1. \A s \in Elems(slots) : s.key = k => ~Live(s)
  BY SlotFacts, EntryFacts
<1>2. ASSUME ~shared, NEW q \in Retries, Holder(retries, q, k, now) PROVE FALSE
  <2>1. PICK s \in Elems(slots) : s.key = k /\ s.exp = retries[q].since + LockTtl
    BY <1>2, SlotFacts DEF Guarded
  <2> QED BY <1>1, <1>2, <2>1 DEF Live, Holder
<1>3. ASSUME NEW q \in Retries, Standing(retries, q, k, now) PROVE FALSE
  <2>1. PICK s \in Elems(slots) : s.key = k /\ s.exp >= retries[q].done + RecordTtl
    BY <1>3, SlotFacts DEF Guarded
  <2>2. s.exp \in Nat /\ retries[q].done \in Nat /\ now \in Nat
    BY SlotFacts
  <2>3. Live(s)
    BY <1>3, <2>1, <2>2, IdempotencyAssumption DEF Live, Standing
  <2> QED BY <1>1, <2>1, <2>3
<1> QED BY <1>2, <1>3

LEMMA ReserveFacts ==
    ASSUME IdemInv, NEW k \in IdemKeys, NEW p \in Prints, slots' = Reserve(k, p)
    PROVE  /\ IsMap(slots', Slot)
           /\ \E s \in Elems(slots') : s.key = k /\ s.rec = Pending /\ s.exp = now + LockTtl
           /\ \A e \in Elems(slots') : e \in Elems(slots) \/ e.rec = Pending
           /\ \A e \in Elems(slots') : e.key # k => e \in Elems(slots)
           /\ shared => \A e \in Elems(slots) : e.key # k /\ Live(e) => e \in Elems(slots')
<1> DEFINE m == IF shared THEN Unexpired(slots) ELSE MakeRoom(slots, IdemMaxKeys)
           x == [key |-> k, print |-> p, rec |-> Pending, exp |-> now + LockTtl]
<1>1. /\ IsMap(m, Slot) /\ Elems(m) \subseteq Elems(slots)
      /\ shared => \A e \in Elems(slots) : Live(e) => e \in Elems(m)
  BY SlotFacts, UnexpiredFacts, MakeRoomFacts, IdempotencyAssumption
<1>2. x \in Slot /\ x.key = k /\ x.rec = Pending /\ x.exp = now + LockTtl
  BY SlotFacts, IdempotencyAssumption DEF Slot, Pending
<1>3. slots' = Put(m, x)
  BY DEF Reserve
<1> HIDE DEF m, x
<1>4. IsMap(slots', Slot) /\ Elems(slots') = {x} \cup {e \in Elems(m) : e.key # k}
  BY <1>1, <1>2, <1>3, PutFacts
<1> QED BY <1>1, <1>2, <1>4

\* A request enters: it reserves its key, or it is told what the store has.
LEMMA EnterKeeps ==
    ASSUME IdemInv, NEW r \in Retries, NEW k \in IdemKeys, NEW p \in Prints, retries[r].st = "unsent",
           NEW st \in {"running", "looking", "mismatch", "in-flight", "replay"}, Enter(r, k, p, st),
           st = "looking" => shared,
           st = "running" => slots' = Reserve(k, p) /\ ~HoldsLive(slots, k),
           st # "running" => slots' = slots,
           st = "replay" => IsAnswer(retries, EntryOf(slots, k).rec, k, p),
           now' = now, shared' = shared
    PROVE  IdemInv'
<1>1. /\ now \in Nat /\ shared \in BOOLEAN /\ IsMap(slots, Slot) /\ Elems(slots) \subseteq Slot
      /\ retries \in [Retries -> Retry] /\ \A q \in Retries : RetryOK(retries[q], shared, now)
  BY SlotFacts
<1>2. st = "replay" => EntryOf(slots, k).rec \in 0..MaxRetries
  BY DEF IsAnswer, Retries
<1>3. /\ retries' \in [Retries -> Retry]
      /\ retries'[r].st = st /\ retries'[r].key = k /\ retries'[r].print = p /\ retries'[r].done = 0
      /\ ~retries'[r].over /\ ~retries'[r].evicted
      /\ st = "running" => retries'[r].since = now
      /\ st = "replay" => retries'[r].from = EntryOf(slots, k).rec
      /\ \A q \in Retries \ {r} :
           /\ retries'[q].st = retries[q].st /\ retries'[q].key = retries[q].key
           /\ retries'[q].print = retries[q].print /\ retries'[q].since = retries[q].since
           /\ retries'[q].done = retries[q].done /\ retries'[q].from = retries[q].from
           /\ retries'[q].over = retries[q].over
           /\ retries[q].evicted => retries'[q].evicted
           /\ q \in EvictedBy(slots') => retries'[q].evicted
           /\ q \notin EvictedBy(slots') => retries'[q].evicted = retries[q].evicted
  BY <1>2, EnterFacts
<1>4. \A q \in Retries : RetryOK(retries'[q], shared, now)
  <2> TAKE q \in Retries
  <2>1. CASE q = r
    BY <1>1, <1>3, <2>1 DEF RetryOK
  <2>2. CASE q # r
    <3>1. q \in EvictedBy(slots') => retries[q].st # "unsent"
      BY DEF EvictedBy
    <3>2. RetryOK(retries[q], shared, now)
      BY <1>1
    <3> QED BY <1>3, <2>2, <3>1, <3>2 DEF RetryOK
  <2> QED BY <2>1, <2>2
<1>5. \A q, j, f : IsAnswer(retries, q, j, f) => IsAnswer(retries', q, j, f)
  BY <1>3 DEF IsAnswer
<1>6. /\ IsMap(slots', Slot)
      /\ \A e \in Elems(slots') : e \in Elems(slots) \/ e.rec = Pending
      /\ \A e \in Elems(slots') : e.key # k => e \in Elems(slots)
      /\ shared => \A e \in Elems(slots) : e.key # k /\ Live(e) => e \in Elems(slots')
  <2>1. CASE st = "running"
    BY <2>1, ReserveFacts
  <2>2. CASE st # "running"
    BY <1>1, <2>2
  <2> QED BY <2>1, <2>2
<1>7. \A s \in Elems(slots') : s.rec # Pending => IsAnswer(retries', s.rec, s.key, s.print)
  BY <1>5, <1>6 DEF IdemInv
<1>8. \A q \in Retries : retries'[q].st = "replay" =>
          IsAnswer(retries', retries'[q].from, retries'[q].key, retries'[q].print)
  <2> SUFFICES ASSUME NEW q \in Retries, retries'[q].st = "replay"
               PROVE  IsAnswer(retries', retries'[q].from, retries'[q].key, retries'[q].print)
    OBVIOUS
  <2>1. CASE q = r
    BY <1>3, <1>5, <2>1
  <2>2. CASE q # r
    BY <1>3, <1>5, <2>2 DEF IdemInv
  <2> QED BY <2>1, <2>2
<1>9. \A j \in IdemKeys : Spoilt(retries, shared, j) => Spoilt(retries', shared, j)
  <2> SUFFICES ASSUME NEW j \in IdemKeys, NEW u \in Retries, retries[u].key = j,
                      retries[u].over \/ retries[u].evicted \/ (shared /\ retries[u].st = "failed")
               PROVE  Spoilt(retries', shared, j)
    BY DEF Spoilt
  <2>1. u # r
    BY <1>1 DEF RetryOK
  <2> QED BY <1>3, <2>1 DEF Spoilt
<1>10. \A j \in IdemKeys, q \in Retries, t \in Nat : q # r =>
          /\ Holder(retries', q, j, t) <=> Holder(retries, q, j, t)
          /\ Standing(retries', q, j, t) <=> Standing(retries, q, j, t)
  BY <1>3 DEF Holder, Standing
<1>11. \A j \in IdemKeys, t \in Nat : ~Standing(retries', r, j, t)
  BY <1>3 DEF Standing
<1>12. ASSUME NEW j \in IdemKeys, j # k \/ st # "running"
       PROVE  Guarded(retries', slots', shared', now', j)
  <2>1. \A t \in Nat : ~Holder(retries', r, j, t)
    BY <1>3, <1>12 DEF Holder, Executing
  <2>2. \A q \in Retries : Holder(retries', q, j, now) => Holder(retries, q, j, now) /\ retries'[q].since = retries[q].since
    BY <1>1, <1>3, <1>10, <2>1
  <2>3. \A q \in Retries : Standing(retries', q, j, now) => Standing(retries, q, j, now) /\ retries'[q].done = retries[q].done
    BY <1>1, <1>3, <1>10, <1>11
  <2>4. ASSUME ~Spoilt(retries', shared, j),
               NEW w \in Retries, retries[w].key = j, retries[w].st \in Executing \cup {"stored"},
               NEW e \in Elems(slots), e.key = j, Live(e)
        PROVE  e \in Elems(slots')
    <3>1. CASE st # "running"
      BY <3>1
    <3>2. CASE st = "running"
      <4> SUFFICES ASSUME e \notin Elems(slots') PROVE FALSE
        OBVIOUS
      <4>1. ~Holds(slots', j)
        <5> SUFFICES ASSUME NEW d \in Elems(slots'), d.key = j PROVE FALSE
          BY <1>6, EntryFacts
        <5>1. d \in Elems(slots)
          BY <1>6, <1>12, <3>2
        <5> QED BY <1>1, <2>4, <5>1, EntryFacts
      <4>2. HoldsLive(slots, j)
        BY <1>1, <2>4, EntryFacts
      <4>3. w \in EvictedBy(slots')
        BY <2>4, <4>1, <4>2 DEF EvictedBy, Executing
      <4>4. w # r
        BY <2>4 DEF Executing
      <4> QED BY <1>3, <2>4, <4>3, <4>4 DEF Spoilt
    <3> QED BY <3>1, <3>2
  <2>5. now' \in Nat /\ now <= now'
    BY <1>1
  <2> QED BY <1>3, <1>9, <2>2, <2>3, <2>4, <2>5, QuietGuarded
<1>13. CASE st = "running"
  <2>1. PICK x \in Elems(slots') : x.key = k /\ x.rec = Pending /\ x.exp = now + LockTtl
    BY <1>13, ReserveFacts
  <2>2. Guarded(retries', slots', shared, now, k)
    <3>1. CASE Spoilt(retries', shared, k)
      BY <3>1 DEF Guarded
    <3>2. CASE ~Spoilt(retries', shared, k)
      <4>1. /\ ~shared => \A q \in Retries : ~Holder(retries, q, k, now)
            /\ \A q \in Retries : ~Standing(retries, q, k, now)
        BY <1>9, <1>13, <3>2, FreeKey
      <4>2. /\ ~shared => \A q \in Retries : Holder(retries', q, k, now) => q = r
            /\ \A q \in Retries : ~Standing(retries', q, k, now)
        BY <1>1, <1>10, <1>11, <4>1
      <4>3. x.exp = retries'[r].since + LockTtl
        BY <1>3, <1>13, <2>1
      <4> QED BY <2>1, <4>2, <4>3 DEF Guarded
    <3> QED BY <3>1, <3>2
  <2> QED BY <1>1, <1>3, <1>4, <1>6, <1>7, <1>8, <1>12, <2>2 DEF IdemInv
<1>14. CASE st # "running"
  BY <1>1, <1>3, <1>4, <1>6, <1>7, <1>8, <1>12, <1>14 DEF IdemInv
<1> QED BY <1>13, <1>14

\* The requests other than r stay as they are; r goes on with its own key.
Moves(r) ==
    /\ retries' \in [Retries -> Retry]
    /\ \A q \in Retries \ {r} : retries'[q] = retries[q]
    /\ retries'[r].key = retries[r].key /\ retries'[r].print = retries[r].print
    /\ retries'[r].evicted = retries[r].evicted

LEMMA Moved ==
    ASSUME IdemInv, NEW r \in Retries, NEW x \in Retry, retries' = [retries EXCEPT ![r] = x],
           x.key = retries[r].key, x.print = retries[r].print, x.evicted = retries[r].evicted
    PROVE  Moves(r) /\ retries'[r] = x
<1>1. retries \in [Retries -> Retry]
  BY SlotFacts
<1> QED BY <1>1 DEF Moves

LEMMA MovesFacts ==
    ASSUME IdemInv, NEW r \in Retries, Moves(r), retries[r].st \notin {"stored", "failed"}
    PROVE  /\ \A q, j, f : IsAnswer(retries, q, j, f) => IsAnswer(retries', q, j, f)
           /\ \A j : Spoilt(retries, shared, j) => Spoilt(retries', shared, j)
           /\ \A j, t : \A q \in Retries \ {r} :
                 /\ Holder(retries', q, j, t) <=> Holder(retries, q, j, t)
                 /\ Standing(retries', q, j, t) <=> Standing(retries, q, j, t)
           /\ \A j, t : j # retries[r].key => ~Holder(retries', r, j, t) /\ ~Standing(retries', r, j, t)
<1>1. /\ \A q \in Retries \ {r} : retries'[q] = retries[q]
      /\ retries'[r].key = retries[r].key /\ retries'[r].evicted = retries[r].evicted
      /\ ~retries[r].over
  BY SlotFacts DEF Moves, RetryOK
<1>2. \A q, j, f : IsAnswer(retries, q, j, f) => IsAnswer(retries', q, j, f)
  BY <1>1 DEF IsAnswer
<1>3. ASSUME NEW j, Spoilt(retries, shared, j) PROVE Spoilt(retries', shared, j)
  <2>1. PICK u \in Retries : retries[u].key = j /\ (retries[u].over \/ retries[u].evicted \/ (shared /\ retries[u].st = "failed"))
    BY <1>3 DEF Spoilt
  <2>2. CASE u = r
    BY <1>1, <2>1, <2>2 DEF Spoilt
  <2>3. CASE u # r
    BY <1>1, <2>1, <2>3 DEF Spoilt
  <2> QED BY <2>2, <2>3
<1>4. \A j, t : \A q \in Retries \ {r} :
                 /\ Holder(retries', q, j, t) <=> Holder(retries, q, j, t)
                 /\ Standing(retries', q, j, t) <=> Standing(retries, q, j, t)
  BY <1>1 DEF Holder, Standing
<1>5. \A j, t : j # retries[r].key => ~Holder(retries', r, j, t) /\ ~Standing(retries', r, j, t)
  BY <1>1 DEF Holder, Standing
<1> QED BY <1>2, <1>3, <1>4, <1>5

LEMMA MoveKeeps ==
    ASSUME IdemInv, NEW r \in Retries, Moves(r),
           retries[r].st \in {"looking", "running", "failing", "storing"},
           RetryOK(retries'[r], shared, now), now' = now, shared' = shared,
           retries'[r].st = "replay" => IsAnswer(retries, retries'[r].from, retries[r].key, retries[r].print),
           IsMap(slots', Slot),
           \A e \in Elems(slots') : e \in Elems(slots) \/ (e.rec = r /\ IsAnswer(retries', r, e.key, e.print)),
           \A e \in Elems(slots) : e.key # retries[r].key => e \in Elems(slots'),
           Guarded(retries', slots', shared, now, retries[r].key)
    PROVE  IdemInv'
<1>1. /\ now \in Nat /\ shared \in BOOLEAN /\ \A q \in Retries : RetryOK(retries[q], shared, now)
  BY SlotFacts
<1>2. /\ retries' \in [Retries -> Retry]
      /\ \A q \in Retries \ {r} : retries'[q] = retries[q]
      /\ retries'[r].key = retries[r].key /\ retries'[r].print = retries[r].print
  BY DEF Moves
<1>3. /\ \A q, j, f : IsAnswer(retries, q, j, f) => IsAnswer(retries', q, j, f)
      /\ \A j : Spoilt(retries, shared, j) => Spoilt(retries', shared, j)
      /\ \A j, t : \A q \in Retries \ {r} :
            /\ Holder(retries', q, j, t) <=> Holder(retries, q, j, t)
            /\ Standing(retries', q, j, t) <=> Standing(retries, q, j, t)
      /\ \A j, t : j # retries[r].key => ~Holder(retries', r, j, t) /\ ~Standing(retries', r, j, t)
  BY MovesFacts
<1>4. \A q \in Retries : RetryOK(retries'[q], shared, now)
  BY <1>1, <1>2
<1>5. \A s \in Elems(slots') : s.rec # Pending => IsAnswer(retries', s.rec, s.key, s.print)
  BY <1>3 DEF IdemInv
<1>6. \A q \in Retries : retries'[q].st = "replay" =>
          IsAnswer(retries', retries'[q].from, retries'[q].key, retries'[q].print)
  <2> SUFFICES ASSUME NEW q \in Retries, retries'[q].st = "replay"
               PROVE  IsAnswer(retries', retries'[q].from, retries'[q].key, retries'[q].print)
    OBVIOUS
  <2>1. CASE q = r
    BY <1>2, <1>3, <2>1
  <2>2. CASE q # r
    BY <1>2, <1>3, <2>2 DEF IdemInv
  <2> QED BY <2>1, <2>2
<1>7. ASSUME NEW j \in IdemKeys, j # retries[r].key PROVE Guarded(retries', slots', shared', now', j)
  <2>1. \A q \in Retries : Holder(retries', q, j, now) => Holder(retries, q, j, now) /\ retries'[q].since = retries[q].since
    BY <1>2, <1>3, <1>7
  <2>2. \A q \in Retries : Standing(retries', q, j, now) => Standing(retries, q, j, now) /\ retries'[q].done = retries[q].done
    BY <1>2, <1>3, <1>7
  <2>3. \A e \in Elems(slots) : e.key = j /\ Live(e) => e \in Elems(slots')
    BY <1>7
  <2>4. now' \in Nat /\ now <= now'
    BY <1>1
  <2> QED BY <1>2, <1>3, <2>1, <2>2, <2>3, <2>4, QuietGuarded
<1>8. \A j \in IdemKeys : Guarded(retries', slots', shared', now', j)
  BY <1>7
<1> QED BY <1>1, <1>2, <1>4, <1>5, <1>6, <1>8 DEF IdemInv

\* ... and leaves the slots alone: it holds the key no longer than before.
LEMMA GoesOn ==
    ASSUME IdemInv, NEW r \in Retries, Moves(r),
           retries[r].st \in {"looking", "running", "failing", "storing"},
           RetryOK(retries'[r], shared, now), now' = now, shared' = shared, slots' = slots,
           retries'[r].st = "replay" => IsAnswer(retries, retries'[r].from, retries[r].key, retries[r].print),
           retries'[r].st # "stored",
           ~shared /\ retries'[r].st \in Executing =>
               retries[r].st \in Executing /\ retries'[r].since = retries[r].since
    PROVE  IdemInv'
<1>1. /\ now \in Nat /\ IsMap(slots, Slot) /\ retries[r].key \in IdemKeys
  BY SlotFacts DEF RetryOK
<1> DEFINE j == retries[r].key
<1>2. /\ retries' \in [Retries -> Retry]
      /\ \A q \in Retries \ {r} : retries'[q] = retries[q]
      /\ retries'[r].key = retries[r].key
  BY DEF Moves
<1>3. /\ Spoilt(retries, shared, j) => Spoilt(retries', shared, j)
      /\ \A q \in Retries \ {r} :
            /\ Holder(retries', q, j, now) <=> Holder(retries, q, j, now)
            /\ Standing(retries', q, j, now) <=> Standing(retries, q, j, now)
  BY MovesFacts
<1>4. ~shared => \A q \in Retries : Holder(retries', q, j, now) => Holder(retries, q, j, now) /\ retries'[q].since = retries[q].since
  <2> SUFFICES ASSUME ~shared, NEW q \in Retries, Holder(retries', q, j, now)
               PROVE  Holder(retries, q, j, now) /\ retries'[q].since = retries[q].since
    OBVIOUS
  <2>1. CASE q = r
    BY <1>2, <2>1 DEF Holder
  <2>2. CASE q # r
    BY <1>2, <1>3, <2>2
  <2> QED BY <2>1, <2>2
<1>5. \A q \in Retries : Standing(retries', q, j, now) => Standing(retries, q, j, now) /\ retries'[q].done = retries[q].done
  <2> SUFFICES ASSUME NEW q \in Retries, Standing(retries', q, j, now)
               PROVE  Standing(retries, q, j, now) /\ retries'[q].done = retries[q].done
    OBVIOUS
  <2>1. CASE q = r
    BY <2>1 DEF Standing
  <2>2. CASE q # r
    BY <1>2, <1>3, <2>2
  <2> QED BY <2>1, <2>2
<1> HIDE DEF j
<1>6. now' \in Nat /\ now <= now' /\ j \in IdemKeys
  BY <1>1 DEF j
<1>7. Guarded(retries', slots', shared', now', j)
  BY <1>2, <1>3, <1>4, <1>5, <1>6, QuietGuarded
<1>8. Guarded(retries', slots', shared, now, retries[r].key)
  BY <1>7 DEF j
<1> QED BY <1>1, <1>8, MoveKeeps

LEMMA LookKeeps ==
    ASSUME IdemInv, NEW r \in Retries, BeginLook(r) PROVE IdemInv'
<1> DEFINE k == retries[r].key
           found == Begin(k, retries[r].print)
           st == IF found = "new" THEN "running" ELSE found
           since == IF found = "new" THEN now ELSE 0
           from == IF found = "replay" THEN EntryOf(slots, k).rec ELSE 0
<1>1. /\ now \in Nat /\ retries \in [Retries -> Retry] /\ RetryOK(retries[r], shared, now)
      /\ IsMap(slots, Slot) /\ \A s \in Elems(slots) : s.rec \in 0..MaxRetries
  BY SlotFacts
<1>2. /\ retries[r].st = "looking" /\ now' = now /\ shared' = shared /\ slots' = slots
      /\ retries' = [retries EXCEPT ![r].st = st, ![r].since = since, ![r].from = from]
  BY DEF BeginLook
<1>3. st \in {"running", "mismatch", "in-flight", "replay"} /\ (st = "replay" <=> found = "replay")
  BY DEF Begin, Found
<1>4. found = "replay" => /\ IsAnswer(retries, EntryOf(slots, k).rec, k, retries[r].print)
                          /\ EntryOf(slots, k).rec \in 0..MaxRetries
  <2> SUFFICES ASSUME found = "replay" PROVE /\ IsAnswer(retries, EntryOf(slots, k).rec, k, retries[r].print)
                                             /\ EntryOf(slots, k).rec \in 0..MaxRetries
    OBVIOUS
  <2>1. HoldsLive(slots, k) /\ EntryOf(slots, k).print = retries[r].print /\ EntryOf(slots, k).rec # Pending
    BY DEF Begin, Found
  <2>2. EntryOf(slots, k) \in Elems(slots) /\ EntryOf(slots, k).key = k
    BY <1>1, <2>1, EntryFacts
  <2> QED BY <1>1, <2>1, <2>2 DEF IdemInv
<1>5. since \in Nat /\ from \in 0..MaxRetries
  BY <1>1, <1>4, IdempotencyAssumption
<1>6. st = "replay" => from = EntryOf(slots, k).rec
  BY <1>3
<1> HIDE DEF st, since, from
<1>7. /\ retries' \in [Retries -> Retry] /\ Moves(r)
      /\ retries'[r].st = st /\ retries'[r].from = from /\ retries'[r].over = retries[r].over
      /\ retries'[r].done = retries[r].done
  <2> DEFINE x == [retries[r] EXCEPT !.st = st, !.since = since, !.from = from]
  <2>1. retries[r] \in Retry
    BY <1>1
  <2>2. /\ x \in Retry /\ x.st = st /\ x.from = from /\ x.over = retries[r].over /\ x.done = retries[r].done
        /\ x.key = retries[r].key /\ x.print = retries[r].print /\ x.evicted = retries[r].evicted
    BY <1>3, <1>5, <2>1 DEF Retry
  <2>3. retries' = [retries EXCEPT ![r] = x]
    BY <1>2
  <2> HIDE DEF x
  <2> QED BY <2>2, <2>3, Moved DEF Moves
<1>8. RetryOK(retries'[r], shared, now)
  BY <1>1, <1>2, <1>3, <1>7 DEF RetryOK, Moves
<1>9. shared
  BY <1>1, <1>2 DEF RetryOK
<1>10. retries'[r].st = "replay" => IsAnswer(retries, retries'[r].from, retries[r].key, retries[r].print)
  BY <1>3, <1>4, <1>6, <1>7
<1>11. retries'[r].st # "stored"
  BY <1>3, <1>7
<1> QED BY <1>2, <1>7, <1>8, <1>9, <1>10, <1>11, GoesOn

LEMMA HandlerKeeps ==
    ASSUME IdemInv, NEW r \in Retries,
           HandlerThrows(r) \/ \E st \in {"failing", "storing"} : HandlerAnswers(r, st)
    PROVE  IdemInv'
<1>1. /\ now \in Nat /\ retries \in [Retries -> Retry] /\ RetryOK(retries[r], shared, now)
  BY SlotFacts
<1>2. /\ retries[r].st = "running" /\ now' = now /\ shared' = shared /\ slots' = slots
  BY DEF HandlerThrows, HandlerAnswers
<1>3. PICK st \in {"thrown", "failing", "storing"} :
          retries' = [retries EXCEPT ![r] = [retries[r] EXCEPT !.st = st, !.since = IF st = "thrown" THEN 0 ELSE retries[r].since]]
  <2>1. CASE HandlerThrows(r)
    BY <2>1 DEF HandlerThrows
  <2>2. ASSUME NEW st \in {"failing", "storing"}, HandlerAnswers(r, st)
        PROVE  retries' = [retries EXCEPT ![r] = [retries[r] EXCEPT !.st = st, !.since = IF st = "thrown" THEN 0 ELSE retries[r].since]]
    <3>1. retries' = [retries EXCEPT ![r] = [retries[r] EXCEPT !.st = st]]
      BY <2>2 DEF HandlerAnswers
    <3>2. [retries[r] EXCEPT !.st = st] = [retries[r] EXCEPT !.st = st, !.since = retries[r].since]
      BY <1>1 DEF Retry
    <3>3. st # "thrown"
      OBVIOUS
    <3> QED BY <3>1, <3>2, <3>3
  <2> QED BY <2>1, <2>2
<1>4. /\ retries' \in [Retries -> Retry] /\ Moves(r)
      /\ retries'[r].st = st /\ retries'[r].over = retries[r].over
      /\ retries'[r].done = retries[r].done
      /\ st # "thrown" => retries'[r].since = retries[r].since
  <2> DEFINE since == IF st = "thrown" THEN 0 ELSE retries[r].since
             x == [retries[r] EXCEPT !.st = st, !.since = since]
  <2>1. retries[r] \in Retry
    BY <1>1
  <2>2. since \in Nat /\ (st # "thrown" => since = retries[r].since)
    BY <2>1 DEF Retry
  <2>3. retries' = [retries EXCEPT ![r] = x]
    BY <1>3
  <2> HIDE DEF since
  <2>4. /\ x \in Retry /\ x.st = st /\ x.since = since /\ x.over = retries[r].over /\ x.done = retries[r].done
        /\ x.key = retries[r].key /\ x.print = retries[r].print /\ x.evicted = retries[r].evicted
    BY <2>1, <2>2 DEF Retry
  <2> HIDE DEF x
  <2> QED BY <2>2, <2>3, <2>4, Moved DEF Moves
<1>5. RetryOK(retries'[r], shared, now)
  BY <1>1, <1>2, <1>4 DEF RetryOK, Moves
<1> QED BY <1>2, <1>4, <1>5, GoesOn DEF Executing

LEMMA FinishFacts ==
    ASSUME IdemInv, NEW r \in Retries, NEW st \in {"stored", "failed"}, Finish(r, st),
           retries[r].st \in {"failing", "storing"}
    PROVE  /\ Moves(r) /\ retries'[r].st = st /\ RetryOK(retries'[r], shared, now)
           /\ st = "stored" => retries'[r].done = now
           /\ now >= retries[r].since + LockTtl => Spoilt(retries', shared, retries[r].key)
           /\ now' = now /\ shared' = shared
<1> DEFINE done == IF st = "stored" THEN now ELSE 0
           over == now >= retries[r].since + LockTtl
           x == [retries[r] EXCEPT !.st = st, !.since = 0, !.done = done, !.over = over]
<1>1. /\ now \in Nat /\ retries[r] \in Retry /\ RetryOK(retries[r], shared, now)
  BY SlotFacts
<1>2. retries' = [retries EXCEPT ![r] = x] /\ now' = now /\ shared' = shared
  BY DEF Finish
<1>3. done \in Nat /\ done <= now /\ (st = "stored" => done = now) /\ over \in BOOLEAN
  BY <1>1
<1> HIDE DEF done
<1>4. /\ x \in Retry /\ x.st = st /\ x.done = done /\ (over => x.over)
      /\ x.key = retries[r].key /\ x.print = retries[r].print /\ x.evicted = retries[r].evicted
  BY <1>1, <1>3 DEF Retry
<1> HIDE DEF x, over
<1>5. Moves(r) /\ retries'[r] = x
  BY <1>2, <1>4, Moved
<1>6. RetryOK(x, shared, now)
  BY <1>1, <1>3, <1>4 DEF RetryOK
<1>7. over => Spoilt(retries', shared, retries[r].key)
  BY <1>4, <1>5 DEF Spoilt
<1>8. now >= retries[r].since + LockTtl => over
  BY DEF over
<1> QED BY <1>2, <1>3, <1>4, <1>5, <1>6, <1>7, <1>8

\* The holder of a key gives it up, in time and with nothing spoilt: nobody else holds it.
LEMMA HolderFacts ==
    ASSUME IdemInv, ~shared, NEW r \in Retries, retries[r].st \in {"failing", "storing"},
           ~(now >= retries[r].since + LockTtl), ~Spoilt(retries, shared, retries[r].key)
    PROVE  /\ \A q \in Retries : Holder(retries, q, retries[r].key, now) => q = r
           /\ \A q \in Retries : ~Standing(retries, q, retries[r].key, now)
<1> DEFINE k == retries[r].key
<1>1. k \in IdemKeys /\ now \in Nat /\ retries[r].since \in Nat /\ Guarded(retries, slots, shared, now, k)
      /\ IsMap(slots, Slot)
  BY SlotFacts DEF RetryOK
<1>2. Holder(retries, r, k, now)
  BY <1>1, IdempotencyAssumption DEF Holder, Executing
<1>3. PICK s \in Elems(slots) : s.key = k /\ s.rec = Pending
  BY <1>1, <1>2 DEF Guarded
<1>4. \A q \in Retries : Holder(retries, q, k, now) => q = r
  BY <1>1, <1>2 DEF Guarded
<1>5. ASSUME NEW q \in Retries, Standing(retries, q, k, now) PROVE FALSE
  <2>1. PICK e \in Elems(slots) : e.key = k /\ e.rec # Pending
    BY <1>1, <1>5 DEF Guarded
  <2> QED BY <1>1, <1>3, <2>1, EntryFacts
<1> QED BY <1>4, <1>5

LEMMA FailedKeeps ==
    ASSUME IdemInv, NEW r \in Retries, Release(r) \/ CompleteFails(r) PROVE IdemInv'
<1> DEFINE k == retries[r].key
<1>1. /\ now \in Nat /\ IsMap(slots, Slot) /\ RetryOK(retries[r], shared, now)
  BY SlotFacts
<1>2. /\ retries[r].st \in {"failing", "storing"} /\ Finish(r, "failed")
      /\ slots' = Without(slots, k) \/ (shared /\ slots' = slots)
  BY DEF Release, CompleteFails
<1>3. /\ Moves(r) /\ retries'[r].st = "failed" /\ RetryOK(retries'[r], shared, now)
      /\ now >= retries[r].since + LockTtl => Spoilt(retries', shared, k)
      /\ now' = now /\ shared' = shared
  BY <1>2, FinishFacts
<1>4. retries'[r].key = k
  BY <1>3 DEF Moves
<1>5. /\ IsMap(slots', Slot) /\ \A e \in Elems(slots') : e \in Elems(slots)
      /\ \A e \in Elems(slots) : e.key # k => e \in Elems(slots')
  BY <1>1, <1>2, WithoutFacts
<1>6. Guarded(retries', slots', shared, now, k)
  <2> SUFFICES ASSUME ~Spoilt(retries', shared, k) PROVE Guarded(retries', slots', shared, now, k)
    BY DEF Guarded
  <2>1. ~shared
    BY <1>3, <1>4 DEF Spoilt
  <2>2. /\ Spoilt(retries, shared, k) => Spoilt(retries', shared, k)
        /\ \A q \in Retries \ {r} :
              /\ Holder(retries', q, k, now) <=> Holder(retries, q, k, now)
              /\ Standing(retries', q, k, now) <=> Standing(retries, q, k, now)
    BY <1>2, <1>3, MovesFacts
  <2>3. /\ \A q \in Retries : Holder(retries, q, k, now) => q = r
        /\ \A q \in Retries : ~Standing(retries, q, k, now)
    BY <1>2, <1>3, <2>1, <2>2, HolderFacts
  <2>4. ~Holder(retries', r, k, now) /\ ~Standing(retries', r, k, now)
    BY <1>3 DEF Holder, Standing, Executing
  <2>5. \A q \in Retries : ~Holder(retries', q, k, now) /\ ~Standing(retries', q, k, now)
    BY <2>2, <2>3, <2>4
  <2> QED BY <2>5 DEF Guarded
<1> HIDE DEF k
<1>7. Guarded(retries', slots', shared, now, retries[r].key)
  BY <1>6 DEF k
<1>8. \A e \in Elems(slots) : e.key # retries[r].key => e \in Elems(slots')
  BY <1>5 DEF k
<1> QED BY <1>2, <1>3, <1>5, <1>7, <1>8, MoveKeeps

LEMMA CompleteKeeps ==
    ASSUME IdemInv, NEW r \in Retries, Complete(r) PROVE IdemInv'
<1> DEFINE k == retries[r].key
           x == [key |-> k, print |-> retries[r].print, rec |-> r, exp |-> now + RecordTtl]
<1>1. /\ now \in Nat /\ IsMap(slots, Slot) /\ RetryOK(retries[r], shared, now)
      /\ \A q \in Retries : retries[q].done \in Nat /\ RetryOK(retries[q], shared, now)
  BY SlotFacts
<1>2. retries[r].st = "storing" /\ Finish(r, "stored") /\ slots' = Put(slots, x)
  BY DEF Complete, CompleteSlot
<1>3. /\ Moves(r) /\ retries'[r].st = "stored" /\ RetryOK(retries'[r], shared, now)
      /\ retries'[r].done = now
      /\ now >= retries[r].since + LockTtl => Spoilt(retries', shared, k)
      /\ now' = now /\ shared' = shared
  BY <1>2, FinishFacts
<1>4. retries'[r].key = k /\ retries'[r].print = retries[r].print
  BY <1>3 DEF Moves
<1>5. x \in Slot /\ x.key = k /\ x.print = retries[r].print /\ x.rec = r /\ x.exp = now + RecordTtl /\ r # Pending
  BY <1>1, <1>2, IdempotencyAssumption DEF Slot, RetryOK, Retries, Pending
<1> HIDE DEF x
<1>6. IsMap(slots', Slot) /\ Elems(slots') = {x} \cup {e \in Elems(slots) : e.key # k}
  BY <1>1, <1>2, <1>5, PutFacts
<1>7. IsAnswer(retries', r, k, retries[r].print)
  BY <1>3, <1>4 DEF IsAnswer
<1>8. /\ Spoilt(retries, shared, k) => Spoilt(retries', shared, k)
      /\ \A q \in Retries \ {r} :
            /\ Holder(retries', q, k, now) <=> Holder(retries, q, k, now)
            /\ Standing(retries', q, k, now) <=> Standing(retries, q, k, now)
      /\ \A q \in Retries \ {r} : retries'[q] = retries[q]
  BY <1>2, <1>3, MovesFacts DEF Moves
<1>9. Guarded(retries', slots', shared, now, k)
  <2> SUFFICES ASSUME ~Spoilt(retries', shared, k)
               PROVE  /\ ~shared => \A q \in Retries : ~Holder(retries', q, k, now)
                      /\ \A q \in Retries : Standing(retries', q, k, now) => now + RecordTtl >= retries'[q].done + RecordTtl
    BY <1>5, <1>6 DEF Guarded
  <2>1. ~Holder(retries', r, k, now)
    BY <1>3 DEF Holder, Executing
  <2>2. ASSUME ~shared PROVE \A q \in Retries : Holder(retries, q, k, now) => q = r
    BY <1>2, <1>3, <1>8, <2>2, HolderFacts
  <2>3. ASSUME NEW q \in Retries PROVE now + RecordTtl >= retries'[q].done + RecordTtl
    <3>1. CASE q = r
      BY <1>1, <1>3, <3>1, IdempotencyAssumption
    <3>2. CASE q # r
      BY <1>1, <1>8, <3>2, IdempotencyAssumption DEF RetryOK
    <3> QED BY <3>1, <3>2
  <2> QED BY <1>8, <2>1, <2>2, <2>3
<1> HIDE DEF k
<1>10. Guarded(retries', slots', shared, now, retries[r].key)
  BY <1>9 DEF k
<1>11. /\ \A e \in Elems(slots) : e.key # retries[r].key => e \in Elems(slots')
       /\ \A e \in Elems(slots') : e \in Elems(slots) \/ (e.rec = r /\ IsAnswer(retries', r, e.key, e.print))
  BY <1>5, <1>6, <1>7 DEF k
<1> QED BY <1>2, <1>3, <1>6, <1>10, <1>11, MoveKeeps

\* Time passes, or what is over goes from the MemoryStore.
LEMMA TimeKeepsIdem ==
    ASSUME IdemInv, now' \in Nat, now <= now', shared' = shared, retries' = retries,
           IsMap(slots', Slot), Elems(slots') \subseteq Elems(slots),
           \A e \in Elems(slots) : Live(e) => e \in Elems(slots')
    PROVE  IdemInv'
<1>1. /\ now \in Nat /\ shared \in BOOLEAN /\ retries \in [Retries -> Retry]
      /\ \A r \in Retries : RetryOK(retries[r], shared, now) /\ retries[r].done \in Nat
  BY SlotFacts
<1>2. \A r \in Retries : RetryOK(retries'[r], shared', now')
  BY <1>1 DEF RetryOK
<1>3. \A k \in IdemKeys : Guarded(retries', slots', shared', now', k)
  BY <1>1, QuietGuarded
<1>4. /\ \A s \in Elems(slots') : s.rec # Pending => IsAnswer(retries', s.rec, s.key, s.print)
      /\ \A r \in Retries : retries'[r].st = "replay" =>
             IsAnswer(retries', retries'[r].from, retries'[r].key, retries'[r].print)
  BY DEF IdemInv
<1> QED BY <1>1, <1>2, <1>3, <1>4 DEF IdemInv

\* What a look at the store finds.
LEMMA BeginFacts ==
    ASSUME IdemInv, NEW k, NEW p
    PROVE  /\ Begin(k, p) \in {"new", "mismatch", "in-flight", "replay"}
           /\ Begin(k, p) = "new" => ~HoldsLive(slots, k)
           /\ Begin(k, p) = "replay" => IsAnswer(retries, EntryOf(slots, k).rec, k, p)
<1>1. Begin(k, p) \in {"new", "mismatch", "in-flight", "replay"} /\ (Begin(k, p) = "new" => ~HoldsLive(slots, k))
  BY DEF Begin, Found
<1>2. ASSUME Begin(k, p) = "replay" PROVE IsAnswer(retries, EntryOf(slots, k).rec, k, p)
  <2>1. HoldsLive(slots, k) /\ EntryOf(slots, k).print = p /\ EntryOf(slots, k).rec # Pending
    BY <1>2 DEF Begin, Found
  <2>2. EntryOf(slots, k) \in Elems(slots) /\ EntryOf(slots, k).key = k
    BY <2>1, SlotFacts, EntryFacts
  <2> QED BY <2>1, <2>2 DEF IdemInv
<1> QED BY <1>1, <1>2

LEMMA BeginKeeps ==
    ASSUME IdemInv, NEW r \in Retries, NEW k \in IdemKeys, NEW p \in Prints,
           BeginNew(r, k, p) \/ BeginFound(r, k, p) \/ BeginRefused(r, k, p)
    PROVE  IdemInv'
<1>1. retries[r].st = "unsent" /\ now' = now /\ shared' = shared
  BY DEF BeginNew, BeginFound, BeginRefused, NextRetry
<1>2. CASE BeginNew(r, k, p)
  <2>1. slots' = Reserve(k, p) /\ ~HoldsLive(slots, k) /\ Enter(r, k, p, "running")
    BY <1>2, BeginFacts DEF BeginNew
  <2> QED BY <1>1, <2>1, EnterKeeps
<1>3. CASE BeginFound(r, k, p)
  <2> DEFINE st == Begin(k, p)
  <2>1. st \in {"mismatch", "in-flight", "replay"} /\ slots' = slots /\ Enter(r, k, p, st)
    BY <1>3, BeginFacts DEF BeginFound
  <2>2. st = "replay" => IsAnswer(retries, EntryOf(slots, k).rec, k, p)
    BY BeginFacts
  <2> HIDE DEF st
  <2> QED BY <1>1, <2>1, <2>2, EnterKeeps
<1>4. CASE BeginRefused(r, k, p)
  <2>1. slots' = slots /\ shared /\ Enter(r, k, p, "looking")
    BY <1>4 DEF BeginRefused
  <2> QED BY <1>1, <2>1, EnterKeeps
<1> QED BY <1>2, <1>3, <1>4

LEMMA IdemInvHolds == IdempotencySpec => []IdemInv
<1>1. ClockInit /\ IdempotencyInit => IdemInv
  <2> SUFFICES ASSUME ClockInit, IdempotencyInit PROVE IdemInv
    OBVIOUS
  <2>1. now = 0 /\ shared \in BOOLEAN /\ slots = <<>> /\ retries = [r \in Retries |-> Unsent]
    BY DEF ClockInit, IdempotencyInit
  <2>2. Unsent \in Retry /\ Unsent.st = "unsent" /\ RetryOK(Unsent, shared, 0)
    BY IdempotencyAssumption DEF Unsent, Retry, RetryOK
  <2>3. IsMap(slots, Slot) /\ Elems(slots) = {}
    BY <2>1 DEF IsMap, KeysUnique, Elems
  <2>4. \A k \in IdemKeys : Guarded(retries, slots, shared, now, k)
    BY <2>1, <2>2 DEF Guarded, Holder, Standing, Executing
  <2> QED BY <2>1, <2>2, <2>3, <2>4 DEF IdemInv
<1>2. IdemInv /\ [IdempotencyStep \/ IdempotencyTick]_<<now, idemVars>> => IdemInv'
  <2> SUFFICES ASSUME IdemInv, [IdempotencyStep \/ IdempotencyTick]_<<now, idemVars>> PROVE IdemInv'
    OBVIOUS
  <2>0. now \in Nat /\ IsMap(slots, Slot)
    BY SlotFacts
  <2>1. CASE \E r \in Retries : \E k \in IdemKeys, p \in Prints :
                BeginNew(r, k, p) \/ BeginFound(r, k, p) \/ BeginRefused(r, k, p)
    BY <2>1, BeginKeeps
  <2>2. CASE \E r \in Retries :
                \/ BeginLook(r) \/ HandlerThrows(r) \/ Release(r) \/ Complete(r) \/ CompleteFails(r)
                \/ \E st \in {"failing", "storing"} : HandlerAnswers(r, st)
    <3>1. PICK r \in Retries :
                \/ BeginLook(r) \/ HandlerThrows(r) \/ Release(r) \/ Complete(r) \/ CompleteFails(r)
                \/ \E st \in {"failing", "storing"} : HandlerAnswers(r, st)
      BY <2>2
    <3> QED BY <3>1, LookKeeps, HandlerKeeps, FailedKeeps, CompleteKeeps
  <2>3. CASE EvictExpired
    <3>1. /\ IsMap(slots', Slot) /\ Elems(slots') = {e \in Elems(slots) : Live(e)}
          /\ now' = now /\ shared' = shared /\ retries' = retries
      BY <2>0, <2>3, UnexpiredFacts DEF EvictExpired
    <3> QED BY <2>0, <3>1, TimeKeepsIdem
  <2>4. CASE IdempotencyTick \/ UNCHANGED <<now, idemVars>>
    <3>1. now' \in Nat /\ now <= now' /\ shared' = shared /\ retries' = retries /\ slots' = slots
      BY <2>0, <2>4 DEF IdempotencyTick, Tick, idemVars
    <3> QED BY <2>0, <3>1, TimeKeepsIdem
  <2> QED BY <2>1, <2>2, <2>3, <2>4 DEF IdempotencyStep
<1> QED BY <1>1, <1>2, PTL DEF IdempotencySpec

LEMMA OneRuns == IdemInv => OneRunner
<1> SUFFICES ASSUME IdemInv, ~shared, NEW r \in Retries, NEW q \in Retries, r # q,
                    retries[r].st \in Executing, retries[q].st \in Executing,
                    retries[r].key = retries[q].key
             PROVE  \E u \in Retries : retries[u].key = retries[r].key /\ Unprotected(u)
  BY DEF OneRunner
<1> DEFINE k == retries[r].key
<1>1. k \in IdemKeys /\ Guarded(retries, slots, shared, now, k) /\ now \in Nat
      /\ retries[r].since \in Nat /\ retries[q].since \in Nat
  BY SlotFacts DEF RetryOK, Executing
<1>2. CASE Spoilt(retries, shared, k)
  BY <1>2 DEF Spoilt, Unprotected
<1>3. CASE Holder(retries, r, k, now) /\ Holder(retries, q, k, now) /\ ~Spoilt(retries, shared, k)
  BY <1>1, <1>3 DEF Guarded
<1>4. CASE ~Holder(retries, r, k, now)
  <2>1. now >= retries[r].since + LockTtl
    BY <1>1, <1>4, IdempotencyAssumption DEF Holder
  <2> QED BY <2>1 DEF Unprotected
<1>5. CASE ~Holder(retries, q, k, now)
  <2>1. now >= retries[q].since + LockTtl
    BY <1>1, <1>5, IdempotencyAssumption DEF Holder
  <2> QED BY <2>1 DEF Unprotected
<1> QED BY <1>2, <1>3, <1>4, <1>5

\* Who starts to run with a key found nothing live under it, or comes from its look.
LEMMA RunsAnew ==
    ASSUME IdemInv, IdempotencyStep, NEW r \in Retries,
           retries[r].st \notin Executing, retries'[r].st = "running", retries[r].st # "looking"
    PROVE  retries'[r].key \in IdemKeys /\ ~HoldsLive(slots, retries'[r].key)
<1>1. retries \in [Retries -> Retry]
  BY SlotFacts
<1>2. ASSUME NEW w \in Retries, NEW k \in IdemKeys, NEW p \in Prints,
             BeginNew(w, k, p) \/ BeginFound(w, k, p) \/ BeginRefused(w, k, p)
      PROVE  retries'[r].key \in IdemKeys /\ ~HoldsLive(slots, retries'[r].key)
  <2>1. PICK st \in {"running", "looking", "mismatch", "in-flight", "replay"} :
            /\ Enter(w, k, p, st) /\ (st = "running" => ~HoldsLive(slots, k))
            /\ st = "replay" => IsAnswer(retries, EntryOf(slots, k).rec, k, p)
    BY <1>2, BeginFacts DEF BeginNew, BeginFound, BeginRefused
  <2>2. st = "replay" => EntryOf(slots, k).rec \in 0..MaxRetries
    BY <2>1 DEF IsAnswer, Retries
  <2>3. /\ retries'[w].st = st /\ retries'[w].key = k
        /\ \A q \in Retries \ {w} : retries'[q].st = retries[q].st
    BY <2>1, <2>2, EnterFacts
  <2>4. r = w
    BY <2>3 DEF Executing
  <2> QED BY <2>1, <2>3, <2>4
<1>3. ASSUME NEW w \in Retries,
             \/ BeginLook(w) \/ HandlerThrows(w) \/ Release(w) \/ Complete(w) \/ CompleteFails(w)
             \/ \E st \in {"failing", "storing"} : HandlerAnswers(w, st)
      PROVE  FALSE
  <2>1. r # w => retries'[r].st = retries[r].st
    BY <1>1, <1>3 DEF BeginLook, HandlerThrows, Release, Complete, CompleteFails, HandlerAnswers, Finish
  <2>2. retries[w].st \in Executing \cup {"looking"}
    BY <1>3 DEF BeginLook, HandlerThrows, Release, Complete, CompleteFails, HandlerAnswers, Executing
  <2> QED BY <2>1, <2>2 DEF Executing
<1>4. CASE EvictExpired
  BY <1>4 DEF EvictExpired, Executing
<1>5. CASE \E w \in Retries : \E k \in IdemKeys, p \in Prints :
                BeginNew(w, k, p) \/ BeginFound(w, k, p) \/ BeginRefused(w, k, p)
  BY <1>2, <1>5
<1>6. CASE \E w \in Retries :
             \/ BeginLook(w) \/ HandlerThrows(w) \/ Release(w) \/ Complete(w) \/ CompleteFails(w)
             \/ \E st \in {"failing", "storing"} : HandlerAnswers(w, st)
  BY <1>3, <1>6
<1> QED BY <1>4, <1>5, <1>6 DEF IdempotencyStep

(***************************************************************************)
(* The idempotency plugin (idempotency.ts, store.ts): a key runs once while *)
(* its reservation lives, a stored response is final for as long as it is   *)
(* kept, and what is replayed answered the very same request, for every     *)
(* order of requests, failures, expiries and evictions.                     *)
(***************************************************************************)
THEOREM IdempotencyTheorem == IdempotencySpec => IdempotencyCorrect
<1> DEFINE Final == \A r, q \in Retries :
              /\ retries[r].st \notin Executing /\ retries'[r].st = "running"
              /\ retries[q].st = "stored" /\ retries[q].key = retries'[r].key
              /\ now < retries[q].done + RecordTtl
              => \/ \E u \in Retries :
                        /\ retries[u].key = retries'[r].key
                        /\ Unprotected(u) \/ (shared /\ retries[u].st = "failed")
                 \/ retries[r].st = "looking"
<1>1. IdempotencySpec => []IdemInv
  BY IdemInvHolds
<1>2. IdemInv => IdempotencyTypeOK /\ OneRunner /\ ReplayIsTheAnswer
  <2> SUFFICES ASSUME IdemInv PROVE IdempotencyTypeOK /\ OneRunner /\ ReplayIsTheAnswer
    OBVIOUS
  <2>1. IdempotencyTypeOK
    BY DEF IdemInv, IsMap, IdempotencyTypeOK
  <2>2. ReplayIsTheAnswer
    BY SlotFacts DEF IdemInv, ReplayIsTheAnswer, IsAnswer
  <2> QED BY <2>1, <2>2, OneRuns
<1>3. IdemInv /\ [IdempotencyStep \/ IdempotencyTick]_<<now, idemVars>> => Final
  <2> SUFFICES ASSUME IdemInv, [IdempotencyStep \/ IdempotencyTick]_<<now, idemVars>>,
                      NEW r \in Retries, NEW q \in Retries,
                      retries[r].st \notin Executing, retries'[r].st = "running",
                      retries[q].st = "stored", retries[q].key = retries'[r].key,
                      now < retries[q].done + RecordTtl, retries[r].st # "looking",
                      ~Spoilt(retries, shared, retries'[r].key)
               PROVE  FALSE
    BY DEF Spoilt, Unprotected
  <2>1. IdempotencyStep
    BY DEF IdempotencyTick, idemVars, Executing
  <2>2. retries'[r].key \in IdemKeys /\ ~HoldsLive(slots, retries'[r].key)
    BY <2>1, RunsAnew
  <2>3. Standing(retries, q, retries'[r].key, now)
    BY DEF Standing
  <2> QED BY <2>2, <2>3, FreeKey
<1>4. [][Final]_<<now, idemVars>> => SuccessIsFinal
  BY PTL DEF SuccessIsFinal
<1>5. IdempotencySpec => [][IdempotencyStep \/ IdempotencyTick]_<<now, idemVars>>
  BY DEF IdempotencySpec
<1> HIDE DEF Final
<1> QED BY <1>1, <1>2, <1>3, <1>4, <1>5, PTL DEF IdempotencyCorrect

-----------------------------------------------------------------------------
(* The session plugin: whose values a copy and an entry hold.                *)

SessionEntry == [key : SessionIds, data : SUBSET Visits, exp : Nat]
Visit == [st : {"absent", "handling", "saving", "cookie", "over", "failed"}, id : SessionIds \cup {NoId},
          loaded : BOOLEAN, oldId : SessionIds \cup {NoId}, dirty : BOOLEAN, destroyed : BOOLEAN,
          data : SUBSET Visits, shared : BOOLEAN, wrote : SessionIds \cup {NoId}, deleted : SUBSET Visits]

Busy(g) == g.st \in {"handling", "saving"}
Gone(g) == g.st \in {"cookie", "over", "failed"}
IdsOf(u) == {LoadedId(u), RotatedId(u)}

\* A copy holds its own value and those of requests that are gone, of its own session; its id is
\* its own or that of a request that is gone; who is busy with the same id knows it is not alone.
VisitOK(vs, w) ==
    /\ \A v \in vs[w].data : IF v = w THEN Busy(vs[w]) /\ vs[w].wrote = vs[w].id
                             ELSE Gone(vs[v]) /\ vs[v].wrote = vs[w].id
    /\ Busy(vs[w]) /\ vs[w].wrote # NoId =>
           vs[w].wrote = vs[w].id /\ w \in vs[w].data /\ (vs[w].dirty \/ vs[w].destroyed)
    /\ Busy(vs[w]) => vs[w].id # NoId
    /\ \A u \in Visits : vs[w].id \in IdsOf(u) => u = w \/ Gone(vs[u])
    /\ \A u \in Visits : u # w /\ Busy(vs[u]) /\ Busy(vs[w]) /\ vs[u].id = vs[w].id => vs[w].shared

\* An entry holds values of requests that are gone; who is alone with it has them all.
HasAll(e, g) == Busy(g) /\ ~g.shared /\ g.id = e.key => e.data \subseteq g.data \cup g.deleted
EntryOK(e, vs) ==
    /\ \A v \in e.data : Gone(vs[v]) /\ vs[v].wrote = e.key
    /\ \A u \in Visits : e.key \in IdsOf(u) => Gone(vs[u])
    /\ \A w \in Visits : HasAll(e, vs[w])

SessionInv ==
    /\ now \in Nat /\ rolling \in BOOLEAN
    /\ IsMap(sessions, SessionEntry) /\ Len(sessions) <= SessionMaxKeys
    /\ visits \in [Visits -> Visit]
    /\ \A w \in Visits : VisitOK(visits, w)
    /\ \A e \in Elems(sessions) : EntryOK(e, visits)

LEMMA SessionFacts ==
    ASSUME SessionInv
    PROVE  /\ now \in Nat /\ IsMap(sessions, SessionEntry) /\ Elems(sessions) \subseteq SessionEntry
           /\ Len(sessions) \in Nat /\ Len(sessions) <= SessionMaxKeys
           /\ visits \in [Visits -> Visit] /\ \A v \in Visits : visits[v] \in Visit
           /\ \A w \in Visits : VisitOK(visits, w)
           /\ \A e \in Elems(sessions) : EntryOK(e, visits) /\ e.data \subseteq Visits
<1>1. /\ now \in Nat /\ IsMap(sessions, SessionEntry) /\ Len(sessions) <= SessionMaxKeys
      /\ visits \in [Visits -> Visit] /\ \A w \in Visits : VisitOK(visits, w)
      /\ \A e \in Elems(sessions) : EntryOK(e, visits)
  BY DEF SessionInv
<1>2. Elems(sessions) \subseteq SessionEntry
  BY <1>1, EntryFacts
<1>3. \A e \in Elems(sessions) : e.data \subseteq Visits
  BY <1>2 DEF SessionEntry
<1>4. Len(sessions) \in Nat
  BY <1>1 DEF IsMap
<1> QED BY <1>1, <1>2, <1>3, <1>4

\* The requests other than v stay as they are, unless they learn that they are not alone.
Others(v) ==
    /\ visits' \in [Visits -> Visit]
    /\ \A u \in Visits \ {v} :
          /\ visits'[u].st = visits[u].st /\ visits'[u].id = visits[u].id
          /\ visits'[u].dirty = visits[u].dirty /\ visits'[u].destroyed = visits[u].destroyed
          /\ visits'[u].data = visits[u].data /\ visits'[u].wrote = visits[u].wrote
          /\ visits'[u].deleted = visits[u].deleted
          /\ visits[u].shared => visits'[u].shared

\* A request that was not gone moves.
LEMMA VisitKeeps ==
    ASSUME SessionInv, NEW v \in Visits, ~Gone(visits[v]), Others(v), VisitOK(visits', v),
           \A w \in Visits \ {v} : Busy(visits'[v]) /\ Busy(visits[w]) /\ visits[w].id = visits'[v].id
               => visits'[w].shared,
           IsMap(sessions', SessionEntry), Len(sessions') <= SessionMaxKeys,
           \A e \in Elems(sessions') :
               (e \in Elems(sessions) /\ HasAll(e, visits'[v])) \/ EntryOK(e, visits'),
           now' = now, rolling' = rolling
    PROVE  SessionInv'
<1>1. /\ now \in Nat /\ visits \in [Visits -> Visit] /\ \A u \in Visits : visits[u] \in Visit
      /\ \A w \in Visits : VisitOK(visits, w)
      /\ \A e \in Elems(sessions) : EntryOK(e, visits) /\ e.data \subseteq Visits
  BY SessionFacts
<1>2. /\ visits' \in [Visits -> Visit]
      /\ \A u \in Visits \ {v} :
            /\ visits'[u].st = visits[u].st /\ visits'[u].id = visits[u].id
            /\ visits'[u].dirty = visits[u].dirty /\ visits'[u].destroyed = visits[u].destroyed
            /\ visits'[u].data = visits[u].data /\ visits'[u].wrote = visits[u].wrote
            /\ visits'[u].deleted = visits[u].deleted
            /\ visits[u].shared => visits'[u].shared
  BY DEF Others
<1>3. \A u \in Visits : Gone(visits[u]) => Gone(visits'[u]) /\ visits'[u].wrote = visits[u].wrote
  BY <1>2 DEF Gone
<1>4. ASSUME NEW w \in Visits \ {v} PROVE VisitOK(visits', w)
  <2>1. VisitOK(visits, w) /\ visits[w].data \subseteq Visits
    BY <1>1 DEF Visit
  <2>2. \A u \in visits'[w].data : IF u = w THEN Busy(visits'[w]) /\ visits'[w].wrote = visits'[w].id
                                   ELSE Gone(visits'[u]) /\ visits'[u].wrote = visits'[w].id
    BY <1>2, <1>3, <2>1 DEF VisitOK, Busy
  <2>3. Busy(visits'[w]) /\ visits'[w].wrote # NoId =>
           visits'[w].wrote = visits'[w].id /\ w \in visits'[w].data /\ (visits'[w].dirty \/ visits'[w].destroyed)
    BY <1>2, <2>1 DEF VisitOK, Busy
  <2>4. Busy(visits'[w]) => visits'[w].id # NoId
    BY <1>2, <2>1 DEF VisitOK, Busy
  <2>5. \A u \in Visits : visits'[w].id \in IdsOf(u) => u = w \/ Gone(visits'[u])
    BY <1>2, <1>3, <2>1 DEF VisitOK
  <2>6. \A u \in Visits : u # w /\ Busy(visits'[u]) /\ Busy(visits'[w]) /\ visits'[u].id = visits'[w].id
            => visits'[w].shared
    <3> SUFFICES ASSUME NEW u \in Visits, u # w, Busy(visits'[u]), Busy(visits'[w]), visits'[u].id = visits'[w].id
                 PROVE  visits'[w].shared
      OBVIOUS
    <3>1. Busy(visits[w]) /\ visits[w].id = visits'[w].id
      BY <1>2 DEF Busy
    <3>2. CASE u = v
      BY <3>1, <3>2
    <3>3. CASE u # v
      BY <1>2, <2>1, <3>1, <3>3 DEF VisitOK, Busy
    <3> QED BY <3>2, <3>3
  <2> QED BY <2>2, <2>3, <2>4, <2>5, <2>6 DEF VisitOK
<1>5. ASSUME NEW e \in Elems(sessions), HasAll(e, visits'[v]) PROVE EntryOK(e, visits')
  <2>1. EntryOK(e, visits) /\ e.data \subseteq Visits
    BY <1>1
  <2>2. \A u \in e.data : Gone(visits'[u]) /\ visits'[u].wrote = e.key
    BY <1>3, <2>1 DEF EntryOK
  <2>3. \A u \in Visits : e.key \in IdsOf(u) => Gone(visits'[u])
    BY <1>3, <2>1 DEF EntryOK
  <2>4. \A w \in Visits : HasAll(e, visits'[w])
    BY <1>2, <1>5, <2>1 DEF EntryOK, HasAll, Busy
  <2> QED BY <2>2, <2>3, <2>4 DEF EntryOK
<1>6. \A w \in Visits : VisitOK(visits', w)
  BY <1>4
<1>7. \A e \in Elems(sessions') : EntryOK(e, visits')
  BY <1>5
<1>8. now' \in Nat /\ rolling' \in BOOLEAN
  BY <1>1 DEF SessionInv
<1> QED BY <1>2, <1>6, <1>7, <1>8 DEF SessionInv

\* A request moves by itself.
LEMMA AloneMoves ==
    ASSUME SessionInv, NEW v \in Visits, NEW x \in Visit, visits' = [visits EXCEPT ![v] = x]
    PROVE  Others(v) /\ visits'[v] = x /\ \A u \in Visits \ {v} : visits'[u] = visits[u]
BY SessionFacts DEF Others

\* Entries that go.
LEMMA DroppedFacts ==
    ASSUME SessionInv, NEW k, sessions' = sessions \/ sessions' = Without(sessions, k)
    PROVE  /\ IsMap(sessions', SessionEntry) /\ Len(sessions') <= SessionMaxKeys
           /\ Elems(sessions') \subseteq Elems(sessions)
<1>1. /\ IsMap(sessions, SessionEntry) /\ Len(sessions) \in Nat /\ Len(sessions) <= SessionMaxKeys
      /\ SessionMaxKeys \in Nat
  BY SessionFacts, SessionAssumption
<1>2. CASE sessions' = sessions
  BY <1>1, <1>2
<1>3. CASE sessions' = Without(sessions, k)
  <2>1. /\ IsMap(sessions', SessionEntry) /\ Len(sessions') \in Nat /\ Len(sessions') <= Len(sessions)
        /\ Elems(sessions') \subseteq Elems(sessions)
    BY <1>1, <1>3, WithoutFacts
  <2> QED BY <1>1, <2>1
<1> QED BY <1>2, <1>3

\* A request goes on with its copy; a session may be dropped.
LEMMA StaysBusy ==
    ASSUME SessionInv, NEW v \in Visits, Busy(visits[v]), NEW x \in Visit, Busy(x),
           x.id = visits[v].id, x.shared = visits[v].shared, visits' = [visits EXCEPT ![v] = x],
           x.data \subseteq visits[v].data \cup {v}, v \in x.data => x.wrote = x.id,
           x.wrote # NoId => x.wrote = x.id /\ v \in x.data /\ (x.dirty \/ x.destroyed),
           visits[v].data \cup visits[v].deleted \subseteq x.data \cup x.deleted,
           NEW k, sessions' = sessions \/ sessions' = Without(sessions, k),
           now' = now, rolling' = rolling
    PROVE  SessionInv'
<1>1. Others(v) /\ visits'[v] = x /\ \A u \in Visits \ {v} : visits'[u] = visits[u]
  BY AloneMoves
<1>2. VisitOK(visits, v) /\ \A w \in Visits : VisitOK(visits, w)
  BY SessionFacts
<1>3. VisitOK(visits', v)
  <2>1. \A u \in x.data : u # v => Gone(visits'[u]) /\ visits'[u].wrote = x.id
    <3> SUFFICES ASSUME NEW u \in x.data, u # v PROVE Gone(visits'[u]) /\ visits'[u].wrote = x.id
      OBVIOUS
    <3>1. u \in Visits /\ u \in visits[v].data
      BY DEF Visit
    <3> QED BY <1>1, <1>2, <3>1 DEF VisitOK
  <2>2. \A u \in Visits : x.id \in IdsOf(u) => u = v \/ Gone(visits'[u])
    BY <1>1, <1>2 DEF VisitOK
  <2>3. \A u \in Visits : u # v /\ Busy(visits'[u]) /\ visits'[u].id = x.id => x.shared
    BY <1>1, <1>2 DEF VisitOK
  <2>4. x.id # NoId
    BY <1>2 DEF VisitOK
  <2> QED BY <1>1, <2>1, <2>2, <2>3, <2>4 DEF VisitOK
<1>4. \A w \in Visits \ {v} : Busy(visits'[v]) /\ Busy(visits[w]) /\ visits[w].id = visits'[v].id => visits'[w].shared
  BY <1>1, <1>2 DEF VisitOK
<1>5. /\ IsMap(sessions', SessionEntry) /\ Len(sessions') <= SessionMaxKeys
      /\ Elems(sessions') \subseteq Elems(sessions)
  BY DroppedFacts
<1>6. \A e \in Elems(sessions) : HasAll(e, x)
  <2> SUFFICES ASSUME NEW e \in Elems(sessions), ~x.shared, x.id = e.key PROVE e.data \subseteq x.data \cup x.deleted
    BY DEF HasAll
  <2>1. HasAll(e, visits[v])
    BY SessionFacts DEF EntryOK
  <2> QED BY <2>1 DEF HasAll
<1>7. ~Gone(visits[v])
  BY DEF Gone, Busy
<1> QED BY <1>1, <1>3, <1>4, <1>5, <1>6, <1>7, VisitKeeps

LEMMA HandlingKeeps ==
    ASSUME SessionInv, NEW v \in Visits,
           \/ SetKey(v) \/ DestroySession(v) \/ SaveStarts(v)
           \/ \E u \in Visits : DeleteKey(v, u)
    PROVE  SessionInv'
<1> DEFINE g == visits[v]
<1>1. g \in Visit /\ VisitOK(visits, v)
  BY SessionFacts
<1>2. g.st = "handling" /\ Busy(g) /\ now' = now /\ rolling' = rolling
  BY DEF SetKey, DestroySession, SaveStarts, DeleteKey, Busy
<1>3. /\ g.id # NoId /\ g.id \in SessionIds /\ g.data \subseteq Visits /\ g.deleted \subseteq Visits
      /\ v \in g.data => g.wrote = g.id
      /\ g.wrote # NoId => g.wrote = g.id /\ v \in g.data /\ (g.dirty \/ g.destroyed)
  BY <1>1, <1>2 DEF VisitOK, Visit
<1>4. CASE SetKey(v)
  <2> DEFINE x == [g EXCEPT !.data = g.data \cup {v}, !.dirty = TRUE, !.deleted = g.deleted \ {v}, !.wrote = g.id]
  <2>1. visits' = [visits EXCEPT ![v] = x] /\ sessions' = sessions
    BY <1>4 DEF SetKey
  <2>2. x \in Visit /\ x.st = g.st /\ x.id = g.id /\ x.shared = g.shared /\ x.data = g.data \cup {v} /\ x.dirty = TRUE
        /\ x.deleted = g.deleted \ {v} /\ x.wrote = g.id
    BY <1>1, <1>3 DEF Visit
  <2> HIDE DEF x
  <2>3. Busy(x) /\ g.data \cup g.deleted \subseteq x.data \cup x.deleted
    BY <1>2, <2>2 DEF Busy
  <2> QED BY <1>2, <2>1, <2>2, <2>3, StaysBusy
<1>5. CASE DestroySession(v)
  <2> DEFINE x == [g EXCEPT !.destroyed = TRUE, !.dirty = FALSE]
  <2>1. visits' = [visits EXCEPT ![v] = x] /\ sessions' = sessions
    BY <1>5 DEF DestroySession
  <2>2. x \in Visit /\ x.st = g.st /\ x.id = g.id /\ x.shared = g.shared /\ x.data = g.data /\ x.destroyed = TRUE
        /\ x.deleted = g.deleted /\ x.wrote = g.wrote
    BY <1>1, <1>3 DEF Visit
  <2> HIDE DEF x
  <2>3. Busy(x)
    BY <1>2, <2>2 DEF Busy
  <2> QED BY <1>2, <1>3, <2>1, <2>2, <2>3, StaysBusy
<1>6. CASE SaveStarts(v)
  <2> DEFINE x == [g EXCEPT !.st = "saving"]
  <2>1. visits' = [visits EXCEPT ![v] = x] /\ (sessions' = sessions \/ sessions' = Without(sessions, g.oldId))
    BY <1>6 DEF SaveStarts
  <2>2. x \in Visit /\ x.st = "saving" /\ x.id = g.id /\ x.shared = g.shared /\ x.data = g.data /\ x.destroyed = g.destroyed
        /\ x.deleted = g.deleted /\ x.wrote = g.wrote /\ x.dirty = g.dirty
    BY <1>1, <1>3 DEF Visit
  <2> HIDE DEF x
  <2>3. Busy(x)
    BY <1>2, <2>2 DEF Busy
  <2> QED BY <1>2, <1>3, <2>1, <2>2, <2>3, StaysBusy
<1>7. ASSUME NEW u \in Visits, DeleteKey(v, u) PROVE SessionInv'
  <2> DEFINE wrote == IF u = v THEN NoId ELSE g.wrote
             x == [g EXCEPT !.data = g.data \ {u}, !.dirty = TRUE, !.deleted = g.deleted \cup {u}, !.wrote = wrote]
  <2>1. visits' = [visits EXCEPT ![v] = x] /\ sessions' = sessions
    BY <1>7 DEF DeleteKey
  <2>2. wrote \in SessionIds \cup {NoId} /\ (u = v => wrote = NoId) /\ (u # v => wrote = g.wrote)
    BY <1>1 DEF Visit
  <2> HIDE DEF wrote
  <2>3. x \in Visit /\ x.st = g.st /\ x.id = g.id /\ x.shared = g.shared /\ x.data = g.data \ {u} /\ x.dirty = TRUE
        /\ x.deleted = g.deleted \cup {u} /\ x.wrote = wrote
    BY <1>1, <1>3, <2>2 DEF Visit
  <2> HIDE DEF x
  <2>4. Busy(x) /\ g.data \cup g.deleted \subseteq x.data \cup x.deleted
    BY <1>2, <2>3 DEF Busy
  <2>5. /\ v \in x.data => x.wrote = x.id
        /\ x.wrote # NoId => x.wrote = x.id /\ v \in x.data /\ (x.dirty \/ x.destroyed)
    BY <1>3, <2>2, <2>3
  <2> QED BY <1>2, <1>3, <2>1, <2>3, <2>4, <2>5, StaysBusy
<1> QED BY <1>4, <1>5, <1>6, <1>7

\* regenerate() takes the id that only this request can bring into the store.
LEMMA RegenerateKeeps ==
    ASSUME SessionInv, NEW v \in Visits, Regenerate(v) PROVE SessionInv'
<1> DEFINE g == visits[v]
           oldId == IF g.oldId = NoId /\ g.loaded THEN g.id ELSE g.oldId
           x == [g EXCEPT !.oldId = oldId, !.id = RotatedId(v), !.data = {}, !.dirty = TRUE, !.wrote = NoId]
<1>1. g \in Visit /\ VisitOK(visits, v) /\ \A w \in Visits : VisitOK(visits, w)
  BY SessionFacts
<1>2. /\ g.st = "handling" /\ Busy(g) /\ now' = now /\ rolling' = rolling
      /\ visits' = [visits EXCEPT ![v] = x]
      /\ sessions' = sessions \/ sessions' = Without(sessions, g.id)
  BY DEF Regenerate, Busy
<1>3. RotatedId(v) \in SessionIds /\ RotatedId(v) # NoId /\ RotatedId(v) \in IdsOf(v)
      /\ \A u \in Visits : RotatedId(v) \in IdsOf(u) => u = v
  BY SessionAssumption DEF RotatedId, LoadedId, SessionIds, NoId, IdsOf, Visits
<1>4. oldId \in SessionIds \cup {NoId}
  BY <1>1 DEF Visit
<1> HIDE DEF oldId
<1>5. x \in Visit /\ x.st = g.st /\ x.id = RotatedId(v) /\ x.data = {} /\ x.wrote = NoId
  BY <1>1, <1>3, <1>4 DEF Visit
<1> HIDE DEF x
<1>6. Others(v) /\ visits'[v] = x /\ \A u \in Visits \ {v} : visits'[u] = visits[u]
  BY <1>2, <1>5, AloneMoves
<1>7. ~Gone(visits[v]) /\ Busy(x)
  BY <1>2, <1>5 DEF Gone, Busy
<1>8. \A w \in Visits \ {v} : visits[w].id # RotatedId(v)
  BY <1>1, <1>3, <1>7 DEF VisitOK
<1>9. VisitOK(visits', v)
  BY <1>3, <1>5, <1>6, <1>8 DEF VisitOK
<1>10. \A w \in Visits \ {v} : Busy(visits'[v]) /\ Busy(visits[w]) /\ visits[w].id = visits'[v].id => visits'[w].shared
  BY <1>5, <1>6, <1>8
<1>11. /\ IsMap(sessions', SessionEntry) /\ Len(sessions') <= SessionMaxKeys
       /\ Elems(sessions') \subseteq Elems(sessions)
  BY <1>2, DroppedFacts
<1>12. \A e \in Elems(sessions) : HasAll(e, x)
  <2> SUFFICES ASSUME NEW e \in Elems(sessions), e.key = RotatedId(v) PROVE FALSE
    BY <1>5 DEF HasAll
  <2> QED BY <1>3, <1>7, SessionFacts DEF EntryOK
<1> QED BY <1>2, <1>6, <1>7, <1>9, <1>10, <1>11, <1>12, VisitKeeps

\* A request is over.
LEMMA LeaveKeeps ==
    ASSUME SessionInv, NEW v \in Visits, Busy(visits[v]), NEW x \in Visit, Gone(x), x.data = {},
           x.id \in {visits[v].id, NoId}, visits' = [visits EXCEPT ![v] = x],
           IsMap(sessions', SessionEntry), Len(sessions') <= SessionMaxKeys,
           \A e \in Elems(sessions') : e \in Elems(sessions) \/ EntryOK(e, visits'),
           now' = now, rolling' = rolling
    PROVE  SessionInv'
<1>1. Others(v) /\ visits'[v] = x /\ \A u \in Visits \ {v} : visits'[u] = visits[u]
  BY AloneMoves
<1>2. ~Busy(x) /\ ~Gone(visits[v])
  BY DEF Busy, Gone
<1>3. \A u \in Visits : NoId \notin IdsOf(u)
  BY SessionAssumption DEF RotatedId, LoadedId, NoId, IdsOf, Visits
<1>4. VisitOK(visits', v)
  <2>1. \A u \in Visits : x.id \in IdsOf(u) => u = v \/ Gone(visits'[u])
    BY <1>1, <1>3, SessionFacts DEF VisitOK
  <2> QED BY <1>1, <1>2, <2>1 DEF VisitOK
<1>5. \A e : HasAll(e, visits'[v])
  BY <1>1, <1>2 DEF HasAll
<1> QED BY <1>1, <1>2, <1>4, <1>5, VisitKeeps

LEMMA LeavesFacts ==
    ASSUME SessionInv, NEW v \in Visits, NEW cookie \in BOOLEAN, Leaves(v, cookie)
    PROVE  \E x \in Visit :
               /\ visits' = [visits EXCEPT ![v] = x] /\ Gone(x) /\ x.data = {}
               /\ x.id \in {visits[v].id, NoId} /\ x.wrote = visits[v].wrote
<1> DEFINE g == visits[v]
           st == IF cookie THEN "cookie" ELSE "over"
           id == IF cookie THEN g.id ELSE NoId
           x == [Absent EXCEPT !.st = st, !.id = id, !.shared = g.shared, !.wrote = g.wrote, !.destroyed = g.destroyed]
<1>1. g \in Visit
  BY SessionFacts
<1>2. visits' = [visits EXCEPT ![v] = x]
  BY DEF Leaves
<1>3. st \in {"cookie", "over"} /\ id \in {g.id, NoId} /\ id \in SessionIds \cup {NoId}
  BY <1>1 DEF Visit
<1> HIDE DEF st, id
<1>4. x \in Visit /\ x.st = st /\ x.id = id /\ x.data = {} /\ x.wrote = g.wrote
  BY <1>1, <1>3 DEF Visit, Absent
<1> HIDE DEF x
<1> QED BY <1>2, <1>3, <1>4 DEF Gone

LEMMA StoredFacts ==
    ASSUME SessionInv, NEW v \in Visits, Busy(visits[v])
    PROVE  LET id == visits[v].id
               e == [key |-> id, data |-> visits[v].data, exp |-> now + SessionTtl]
               w == Stored(id, visits[v].data)
           IN  /\ e \in SessionEntry /\ e \in Elems(w) /\ Live(e)
               /\ IsMap(w, SessionEntry) /\ Len(w) <= SessionMaxKeys
               /\ \A d \in Elems(w) : d = e \/ d \in Elems(sessions)
<1> DEFINE id == visits[v].id
           e == [key |-> id, data |-> visits[v].data, exp |-> now + SessionTtl]
           m == IF Holds(sessions, id) THEN sessions ELSE MakeRoom(sessions, SessionMaxKeys)
<1>1. /\ now \in Nat /\ IsMap(sessions, SessionEntry) /\ Len(sessions) \in Nat /\ Len(sessions) <= SessionMaxKeys
      /\ visits[v] \in Visit /\ VisitOK(visits, v)
  BY SessionFacts
<1>2. id \in SessionIds /\ visits[v].data \subseteq Visits
  BY <1>1 DEF Visit, VisitOK
<1>3. e \in SessionEntry /\ e.key = id /\ Live(e)
  BY <1>1, <1>2, SessionAssumption DEF SessionEntry, Live
<1> HIDE DEF e
<1>4. /\ IsMap(m, SessionEntry) /\ Elems(m) \subseteq Elems(sessions)
      /\ IF Holds(m, id) THEN Len(m) <= SessionMaxKeys ELSE Len(m) \in Nat /\ Len(m) < SessionMaxKeys
  <2>1. CASE Holds(sessions, id)
    BY <1>1, <2>1
  <2>2. CASE ~Holds(sessions, id)
    <3>1. /\ IsMap(m, SessionEntry) /\ Elems(m) \subseteq Elems(sessions)
          /\ Len(m) \in Nat /\ Len(m) < SessionMaxKeys
      BY <1>1, <2>2, MakeRoomFacts, SessionAssumption
    <3>2. ~Holds(m, id)
      BY <1>1, <2>2, <3>1, EntryFacts
    <3> QED BY <3>1, <3>2
  <2> QED BY <2>1, <2>2
<1> HIDE DEF m
<1>5. /\ IsMap(Put(m, e), SessionEntry) /\ Elems(Put(m, e)) = {e} \cup {d \in Elems(m) : d.key # id}
      /\ Len(Put(m, e)) = IF Holds(m, id) THEN Len(m) ELSE Len(m) + 1
  BY <1>3, <1>4, PutFacts
<1>6. Len(Put(m, e)) <= SessionMaxKeys
  BY <1>4, <1>5, SessionAssumption
<1>7. Stored(id, visits[v].data) = Put(m, e)
  BY DEF Stored, m, e
<1> HIDE DEF id
<1>8. /\ e \in SessionEntry /\ e \in Elems(Put(m, e)) /\ Live(e)
      /\ IsMap(Put(m, e), SessionEntry) /\ Len(Put(m, e)) <= SessionMaxKeys
      /\ \A d \in Elems(Put(m, e)) : d = e \/ d \in Elems(sessions)
  BY <1>3, <1>4, <1>5, <1>6
<1> QED BY <1>7, <1>8 DEF id, e

LEMMA SaveKeeps ==
    ASSUME SessionInv, NEW v \in Visits,
           SaveDestroyed(v) \/ SaveClean(v) \/ SaveStores(v) \/ VisitFails(v)
    PROVE  SessionInv'
<1> DEFINE g == visits[v]
<1>1. g \in Visit /\ VisitOK(visits, v) /\ \A w \in Visits : VisitOK(visits, w)
  BY SessionFacts
<1>2. Busy(g) /\ now' = now /\ rolling' = rolling
  BY DEF SaveDestroyed, SaveClean, SaveStores, VisitFails, UnderWay, Busy
<1>3. CASE VisitFails(v)
  <2> DEFINE x == [Absent EXCEPT !.st = "failed"]
  <2>1. x \in Visit /\ Gone(x) /\ x.data = {} /\ x.id = NoId
    BY DEF Absent, Visit, Gone
  <2>2. visits' = [visits EXCEPT ![v] = x] /\ sessions' = sessions
    BY <1>3 DEF VisitFails
  <2> HIDE DEF x
  <2> QED BY <1>2, <2>1, <2>2, SessionFacts, LeaveKeeps
<1>4. CASE SaveDestroyed(v) \/ SaveClean(v)
  <2>1. Leaves(v, FALSE) /\ (sessions' = sessions \/ sessions' = Without(sessions, g.id))
    BY <1>4 DEF SaveDestroyed, SaveClean
  <2>2. PICK x \in Visit : /\ visits' = [visits EXCEPT ![v] = x] /\ Gone(x) /\ x.data = {}
                           /\ x.id \in {g.id, NoId}
    BY <2>1, LeavesFacts
  <2>3. /\ IsMap(sessions', SessionEntry) /\ Len(sessions') <= SessionMaxKeys
        /\ Elems(sessions') \subseteq Elems(sessions)
    BY <2>1, DroppedFacts
  <2> QED BY <1>2, <2>2, <2>3, LeaveKeeps
<1>5. CASE SaveStores(v)
  <2> DEFINE e == [key |-> g.id, data |-> g.data, exp |-> now + SessionTtl]
  <2>1. \E cookie \in BOOLEAN : Leaves(v, cookie)
    BY <1>5 DEF SaveStores
  <2>2. sessions' = Stored(g.id, g.data)
    BY <1>5 DEF SaveStores
  <2>3. PICK x \in Visit : /\ visits' = [visits EXCEPT ![v] = x] /\ Gone(x) /\ x.data = {}
                           /\ x.id \in {g.id, NoId} /\ x.wrote = g.wrote
    BY <2>1, LeavesFacts
  <2>4. /\ IsMap(sessions', SessionEntry) /\ Len(sessions') <= SessionMaxKeys
        /\ \A d \in Elems(sessions') : d = e \/ d \in Elems(sessions)
    BY <1>2, <2>2, StoredFacts
  <2>5. visits'[v] = x /\ \A u \in Visits \ {v} : visits'[u] = visits[u]
    BY <2>3, AloneMoves
  <2>6. e.key = g.id /\ e.data = g.data
    OBVIOUS
  <2> HIDE DEF e
  <2>7. EntryOK(e, visits')
    <3>1. ASSUME NEW u \in e.data PROVE Gone(visits'[u]) /\ visits'[u].wrote = e.key
      <4>1. u \in Visits
        BY <1>1, <2>6 DEF Visit
      <4>2. CASE u = v
        BY <1>1, <2>3, <2>5, <2>6, <4>2 DEF VisitOK
      <4>3. CASE u # v
        BY <1>1, <2>5, <2>6, <4>1, <4>3 DEF VisitOK
      <4> QED BY <4>2, <4>3
    <3>2. ASSUME NEW u \in Visits, e.key \in IdsOf(u) PROVE Gone(visits'[u])
      BY <1>1, <2>3, <2>5, <2>6, <3>2 DEF VisitOK
    <3>3. ASSUME NEW w \in Visits PROVE HasAll(e, visits'[w])
      <4>1. CASE w = v
        BY <2>3, <2>5, <4>1 DEF HasAll, Busy, Gone
      <4>2. CASE w # v
        BY <1>1, <1>2, <2>5, <2>6, <4>2 DEF VisitOK, HasAll
      <4> QED BY <4>1, <4>2
    <3> QED BY <3>1, <3>2, <3>3 DEF EntryOK
  <2> QED BY <1>2, <2>3, <2>4, <2>7, LeaveKeeps
<1> QED BY <1>3, <1>4, <1>5

\* A request loads a session that is there, or begins one under its own id.
LEMMA LoadKeeps ==
    ASSUME SessionInv, NEW v \in Visits, NEW sid \in KnownIds \cup {NoId}, Load(v, sid)
    PROVE  SessionInv'
<1> DEFINE found == HoldsLive(sessions, sid)
           id == IF found THEN sid ELSE LoadedId(v)
           data == IF found THEN EntryOf(sessions, sid).data ELSE {}
           same == {u \in Visits : UnderWay(u) /\ id \in {visits[u].id, visits[u].oldId}}
           met == same # {}
           x == [Absent EXCEPT !.st = "handling", !.id = id, !.loaded = found, !.data = data, !.shared = met]
           vs == [u \in Visits |-> IF u = v THEN x
                     ELSE IF u \in same THEN [visits[u] EXCEPT !.shared = TRUE] ELSE visits[u]]
<1>1. /\ IsMap(sessions, SessionEntry) /\ Elems(sessions) \subseteq SessionEntry
      /\ \A u \in Visits : visits[u] \in Visit /\ VisitOK(visits, u)
      /\ \A e \in Elems(sessions) : EntryOK(e, visits) /\ e.data \subseteq Visits
  BY SessionFacts
<1>2. /\ visits[v].st = "absent" /\ visits' = vs /\ now' = now /\ rolling' = rolling
      /\ sessions' = sessions \/ sessions' = Without(sessions, sid)
  BY DEF Load, NextVisit
<1>3. found => EntryOf(sessions, sid) \in Elems(sessions) /\ EntryOf(sessions, sid).key = sid
  BY <1>1, EntryFacts
<1>4. LoadedId(v) \in SessionIds /\ LoadedId(v) # NoId /\ LoadedId(v) \in IdsOf(v)
      /\ \A u \in Visits : LoadedId(v) \in IdsOf(u) => u = v
  BY SessionAssumption DEF RotatedId, LoadedId, SessionIds, NoId, IdsOf, Visits
<1>5. id \in SessionIds /\ id # NoId
  <2>1. found => sid \in SessionIds
    BY <1>1, <1>3 DEF SessionEntry
  <2>2. NoId \notin SessionIds
    BY SessionAssumption DEF NoId, SessionIds
  <2> QED BY <1>4, <2>1, <2>2
<1>6. data \subseteq Visits /\ \A u \in data : Gone(visits[u]) /\ visits[u].wrote = id
  <2>1. CASE found
    BY <1>1, <1>3, <2>1 DEF EntryOK
  <2>2. CASE ~found
    BY <2>2
  <2> QED BY <2>1, <2>2
<1>7. \A u \in Visits : id \in IdsOf(u) => u = v \/ Gone(visits[u])
  <2>1. CASE found
    BY <1>1, <1>3, <2>1 DEF EntryOK
  <2>2. CASE ~found
    BY <1>4, <2>2
  <2> QED BY <2>1, <2>2
<1>8. \A e \in Elems(sessions) : e.key = id => e.data \subseteq data
  <2>1. CASE found
    BY <1>1, <1>3, <2>1, EntryFacts
  <2>2. CASE ~found
    <3>1. ~Gone(visits[v])
      BY <1>2 DEF Gone
    <3> QED BY <1>1, <1>4, <2>2, <3>1 DEF EntryOK
  <2> QED BY <2>1, <2>2
<1>9. found \in BOOLEAN
  BY DEF HoldsLive
<1>10. same \subseteq Visits /\ \A u \in Visits : Busy(visits[u]) /\ visits[u].id = id => u \in same
  BY DEF UnderWay, Busy
<1> HIDE DEF found, id, data, same
<1>9a. met \in BOOLEAN /\ (same # {} => met)
  OBVIOUS
<1> HIDE DEF met
<1>11. /\ x \in Visit /\ x.st = "handling" /\ x.id = id /\ x.data = data
       /\ x.wrote = NoId /\ x.deleted = {} /\ (same # {} => x.shared)
  BY <1>5, <1>6, <1>9, <1>9a DEF Absent, Visit
<1> HIDE DEF x
<1>12. ASSUME NEW u \in Visits \ {v}
       PROVE  /\ vs[u] \in Visit
              /\ vs[u].st = visits[u].st /\ vs[u].id = visits[u].id
              /\ vs[u].dirty = visits[u].dirty /\ vs[u].destroyed = visits[u].destroyed
              /\ vs[u].data = visits[u].data /\ vs[u].wrote = visits[u].wrote
              /\ vs[u].deleted = visits[u].deleted
              /\ visits[u].shared => vs[u].shared
              /\ u \in same => vs[u].shared
  <2>1. CASE u \in same
    <3>1. vs[u] = [visits[u] EXCEPT !.shared = TRUE]
      BY <2>1
    <3> HIDE DEF vs
    <3> QED BY <1>1, <3>1 DEF Visit
  <2>2. CASE u \notin same
    <3>1. vs[u] = visits[u]
      BY <2>2
    <3> HIDE DEF vs
    <3> QED BY <1>1, <2>2, <3>1
  <2> QED BY <2>1, <2>2
<1>13. vs[v] = x /\ vs \in [Visits -> Visit]
  BY <1>11, <1>12
<1> HIDE DEF vs
<1>14. Others(v) /\ visits'[v] = x
  BY <1>2, <1>12, <1>13 DEF Others
<1>15. ~Gone(visits[v]) /\ Busy(x)
  BY <1>2, <1>11 DEF Gone, Busy
<1>16. \A u \in Visits \ {v} : Busy(visits[u]) /\ visits[u].id = id => vs[u].shared /\ x.shared
  BY <1>10, <1>11, <1>12
<1>17. VisitOK(visits', v)
  <2>1. \A u \in x.data : u # v /\ Gone(visits'[u]) /\ visits'[u].wrote = x.id
    BY <1>2, <1>6, <1>11, <1>12, <1>15 DEF Gone
  <2>2. \A u \in Visits : x.id \in IdsOf(u) => u = v \/ Gone(visits'[u])
    BY <1>2, <1>7, <1>11, <1>12 DEF Gone
  <2>3. \A u \in Visits : u # v /\ Busy(visits'[u]) /\ visits'[u].id = x.id => x.shared
    BY <1>2, <1>11, <1>12, <1>16 DEF Busy
  <2> QED BY <1>5, <1>11, <1>14, <2>1, <2>2, <2>3 DEF VisitOK
<1>18. \A w \in Visits \ {v} : Busy(visits'[v]) /\ Busy(visits[w]) /\ visits[w].id = visits'[v].id => visits'[w].shared
  BY <1>2, <1>11, <1>14, <1>16
<1>19. \A e \in Elems(sessions) : HasAll(e, x)
  BY <1>8, <1>11 DEF HasAll
<1>20. /\ IsMap(sessions', SessionEntry) /\ Len(sessions') <= SessionMaxKeys
       /\ Elems(sessions') \subseteq Elems(sessions)
  BY <1>2, DroppedFacts
<1> QED BY <1>2, <1>14, <1>15, <1>17, <1>18, <1>19, <1>20, VisitKeeps

LEMMA SessionInvHolds == SessionSpec => []SessionInv
<1>1. ClockInit /\ SessionInit => SessionInv
  <2> SUFFICES ASSUME ClockInit, SessionInit PROVE SessionInv
    OBVIOUS
  <2>1. now = 0 /\ rolling \in BOOLEAN /\ sessions = <<>> /\ visits = [v \in Visits |-> Absent]
    BY DEF ClockInit, SessionInit
  <2>2. Absent \in Visit /\ Absent.data = {} /\ Absent.id = NoId /\ ~Busy(Absent)
    BY DEF Absent, Visit, Busy
  <2>3. IsMap(sessions, SessionEntry) /\ Elems(sessions) = {} /\ Len(sessions) = 0 /\ 0 <= SessionMaxKeys
    BY <2>1, SessionAssumption DEF IsMap, KeysUnique, Elems
  <2>4. \A u \in Visits : NoId \notin IdsOf(u)
    BY SessionAssumption DEF RotatedId, LoadedId, NoId, IdsOf, Visits
  <2>5. \A w \in Visits : VisitOK(visits, w)
    BY <2>1, <2>2, <2>4 DEF VisitOK
  <2> QED BY <2>1, <2>2, <2>3, <2>5 DEF SessionInv
<1>2. SessionInv /\ [SessionStep \/ SessionTick]_<<now, sessionVars>> => SessionInv'
  <2> SUFFICES ASSUME SessionInv, [SessionStep \/ SessionTick]_<<now, sessionVars>> PROVE SessionInv'
    OBVIOUS
  <2>1. ASSUME NEW v \in Visits,
               \/ \E sid \in KnownIds \cup {NoId} : Load(v, sid)
               \/ SetKey(v) \/ Regenerate(v) \/ DestroySession(v)
               \/ \E u \in Visits : DeleteKey(v, u)
               \/ VisitFails(v)
               \/ SaveStarts(v) \/ SaveDestroyed(v) \/ SaveClean(v) \/ SaveStores(v)
        PROVE  SessionInv'
    BY <2>1, LoadKeeps, HandlingKeeps, RegenerateKeeps, SaveKeeps
  <2>2. ASSUME now' \in Nat, rolling' = rolling, visits' = visits, IsMap(sessions', SessionEntry),
               Len(sessions') <= SessionMaxKeys, Elems(sessions') \subseteq Elems(sessions)
        PROVE  SessionInv'
    BY <2>2 DEF SessionInv
  <2>3. CASE SessionSweep
    <3>1. IsMap(sessions, SessionEntry) /\ Len(sessions) \in Nat /\ Len(sessions) <= SessionMaxKeys /\ now \in Nat
      BY SessionFacts
    <3>2. /\ IsMap(sessions', SessionEntry) /\ Elems(sessions') \subseteq Elems(sessions)
          /\ Len(sessions') \in Nat /\ Len(sessions') <= Len(sessions)
          /\ now' = now /\ rolling' = rolling /\ visits' = visits
      BY <2>3, <3>1, UnexpiredFacts DEF SessionSweep
    <3>3. Len(sessions') <= SessionMaxKeys
      BY <3>1, <3>2, SessionAssumption
    <3> QED BY <2>2, <3>1, <3>2, <3>3
  <2>4. CASE SessionTick \/ UNCHANGED <<now, sessionVars>>
    <3>1. now' \in Nat /\ rolling' = rolling /\ visits' = visits /\ sessions' = sessions
      BY <2>4, SessionFacts DEF SessionTick, Tick, sessionVars
    <3> QED BY <2>2, <3>1, SessionFacts
  <2>5. CASE SessionStep
    BY <2>1, <2>3, <2>5 DEF SessionStep
  <2> QED BY <2>4, <2>5
<1> QED BY <1>1, <1>2, PTL DEF SessionSpec

\* Who is saved: the request's own step, with nothing to store, or its copy stored.
LEMMA SavedBy ==
    ASSUME SessionInv, SessionStep, NEW v \in Visits,
           visits[v].st = "saving", visits'[v].st \in {"cookie", "over"}, ~visits[v].destroyed
    PROVE  SaveClean(v) \/ SaveStores(v)
<1>1. visits \in [Visits -> Visit] /\ \A u \in Visits : visits[u] \in Visit
  BY SessionFacts
<1>2. ASSUME NEW w \in Visits, NEW sid \in KnownIds \cup {NoId}, Load(w, sid) PROVE FALSE
  <2>1. w # v
    BY <1>2 DEF Load, NextVisit
  <2>2. PICK S \in SUBSET Visits : visits'[v] = IF v \in S THEN [visits[v] EXCEPT !.shared = TRUE] ELSE visits[v]
    BY <1>2, <2>1 DEF Load
  <2>3. visits'[v].st = visits[v].st
    BY <1>1, <2>2 DEF Visit
  <2> QED BY <2>3
<1>3. ASSUME NEW w \in Visits, w # v,
             \/ SetKey(w) \/ Regenerate(w) \/ DestroySession(w)
             \/ \E u \in Visits : DeleteKey(w, u)
             \/ VisitFails(w)
             \/ SaveStarts(w) \/ SaveDestroyed(w) \/ SaveClean(w) \/ SaveStores(w)
      PROVE  FALSE
  <2>1. visits'[v] = visits[v]
    BY <1>1, <1>3 DEF SetKey, Regenerate, DestroySession, DeleteKey, VisitFails, SaveStarts, SaveDestroyed,
                      SaveClean, SaveStores, Leaves
  <2> QED BY <2>1
<1>4. ASSUME \/ SetKey(v) \/ Regenerate(v) \/ DestroySession(v)
             \/ \E u \in Visits : DeleteKey(v, u)
             \/ VisitFails(v)
             \/ SaveStarts(v) \/ SaveDestroyed(v)
      PROVE  FALSE
  <2>1. CASE VisitFails(v)
    <3>1. visits'[v].st = "failed"
      BY <1>1, <2>1 DEF VisitFails, Absent
    <3> QED BY <3>1
  <2>2. CASE ~VisitFails(v)
    BY <1>4, <2>2 DEF SetKey, Regenerate, DestroySession, DeleteKey, SaveStarts, SaveDestroyed
  <2> QED BY <2>1, <2>2
<1>5. CASE SessionSweep
  BY <1>5 DEF SessionSweep
<1>6. PICK w \in Visits :
          \/ \E sid \in KnownIds \cup {NoId} : Load(w, sid)
          \/ SetKey(w) \/ Regenerate(w) \/ DestroySession(w)
          \/ \E u \in Visits : DeleteKey(w, u)
          \/ VisitFails(w)
          \/ SaveStarts(w) \/ SaveDestroyed(w) \/ SaveClean(w) \/ SaveStores(w)
  BY <1>5 DEF SessionStep
<1>7. CASE w = v
  BY <1>2, <1>4, <1>6, <1>7
<1>8. CASE w # v
  BY <1>2, <1>3, <1>6, <1>8
<1> QED BY <1>7, <1>8

(***************************************************************************)
(* The session plugin (plugin.ts, store.ts): a value is readable only under *)
(* the id of the session it was set in, also after regenerate(), and a      *)
(* request that is alone with its session loses nothing, for every order of *)
(* loads, regenerations, destructions and saves.                            *)
(***************************************************************************)
THEOREM SessionTheorem == SessionSpec => SessionCorrect
<1> DEFINE Serial == \A v \in Visits, id \in SessionIds :
              id = visits[v].id /\ visits[v].st = "saving" /\ visits'[v].st \in {"cookie", "over"}
              /\ ~visits[v].destroyed /\ ~visits[v].shared
              => /\ visits[v].wrote = id =>
                        HoldsLive(sessions, id)' /\ v \in EntryOf(sessions, id)'.data
                 /\ HoldsLive(sessions, id) =>
                        EntryOf(sessions, id).data \ EntryOf(sessions, id)'.data
                            \subseteq visits[v].deleted
<1>1. SessionSpec => []SessionInv
  BY SessionInvHolds
<1>2. SessionInv => SessionTypeOK /\ NoFixation
  <2> SUFFICES ASSUME SessionInv PROVE SessionTypeOK /\ NoFixation
    OBVIOUS
  <2>1. \A v \in Visits : visits[v].id \in SessionIds \cup {NoId} /\ visits[v].data \subseteq Visits
    BY SessionFacts DEF Visit
  <2>2. SessionTypeOK
    BY <2>1 DEF SessionInv, SessionTypeOK, IsMap, SessionEntry
  <2>3. NoFixation
    BY SessionFacts DEF NoFixation, EntryOK, Elems
  <2> QED BY <2>2, <2>3
<1>3. SessionInv /\ [SessionStep \/ SessionTick]_<<now, sessionVars>> => Serial
  <2> SUFFICES ASSUME SessionInv, [SessionStep \/ SessionTick]_<<now, sessionVars>>,
                      NEW v \in Visits, NEW id \in SessionIds, id = visits[v].id,
                      visits[v].st = "saving", visits'[v].st \in {"cookie", "over"},
                      ~visits[v].destroyed, ~visits[v].shared
               PROVE  /\ visits[v].wrote = id =>
                            HoldsLive(sessions, id)' /\ v \in EntryOf(sessions, id)'.data
                      /\ HoldsLive(sessions, id) =>
                            EntryOf(sessions, id).data \ EntryOf(sessions, id)'.data
                                \subseteq visits[v].deleted
    OBVIOUS
  <2> DEFINE g == visits[v]
  <2>1. /\ Busy(g) /\ g.id # NoId /\ VisitOK(visits, v)
        /\ g.wrote # NoId => v \in g.data /\ (g.dirty \/ g.destroyed)
    BY SessionFacts DEF Busy, VisitOK
  <2>2. SessionStep
    BY DEF SessionTick, sessionVars
  <2>3. SaveClean(v) \/ SaveStores(v)
    BY <2>2, SavedBy
  <2>4. IsMap(sessions, SessionEntry) /\ \A e \in Elems(sessions) : EntryOK(e, visits)
    BY SessionFacts
  <2>5. CASE SaveClean(v)
    <3>1. sessions' = sessions /\ ~g.dirty /\ ~g.destroyed
      BY <2>5 DEF SaveClean, MustStore
    <3>2. visits[v].wrote # id
      BY <2>1, <3>1
    <3>3. EntryOf(sessions, id)' = EntryOf(sessions, id)
      BY <3>1 DEF EntryOf
    <3> QED BY <3>2, <3>3
  <2>6. CASE SaveStores(v)
    <3> DEFINE e == [key |-> id, data |-> g.data, exp |-> now + SessionTtl]
    <3>1. sessions' = Stored(id, g.data) /\ now' = now
      BY <2>6 DEF SaveStores
    <3>2. e \in Elems(sessions') /\ Live(e) /\ IsMap(sessions', SessionEntry)
      BY <2>1, <3>1, StoredFacts
    <3>3. e.key = id /\ e.data = g.data
      OBVIOUS
    <3> HIDE DEF e
    <3>4. EntryOf(sessions', id) = e /\ HoldsLive(sessions', id)
      BY <3>2, <3>3, EntryFacts
    <3>5. EntryOf(sessions, id)' = e /\ HoldsLive(sessions, id)'
      BY <3>1, <3>4 DEF EntryOf, HoldsLive, Live
    <3>6. HoldsLive(sessions, id) => EntryOf(sessions, id).data \subseteq g.data \cup g.deleted
      <4> SUFFICES ASSUME HoldsLive(sessions, id) PROVE EntryOf(sessions, id).data \subseteq g.data \cup g.deleted
        OBVIOUS
      <4>1. EntryOf(sessions, id) \in Elems(sessions) /\ EntryOf(sessions, id).key = id
        BY <2>4, EntryFacts
      <4>2. HasAll(EntryOf(sessions, id), g)
        BY <2>4, <4>1 DEF EntryOK
      <4> QED BY <2>1, <4>1, <4>2 DEF HasAll
    <3>7. visits[v].wrote = id => v \in e.data
      BY <2>1, <3>3
    <3> QED BY <3>3, <3>5, <3>6, <3>7
  <2> QED BY <2>3, <2>5, <2>6
<1>4. [][Serial]_<<now, sessionVars>> => SerialWritesKept
  BY PTL DEF SerialWritesKept
<1>5. SessionSpec => [][SessionStep \/ SessionTick]_<<now, sessionVars>>
  BY DEF SessionSpec
<1> HIDE DEF Serial
<1> QED BY <1>1, <1>2, <1>3, <1>4, <1>5, PTL DEF SessionCorrect
=============================================================================
