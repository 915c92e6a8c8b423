------------------------------- MODULE TtlMap -------------------------------
(***************************************************************************)
(* What the plugins' in-process stores have in common: a Map of entries    *)
(* that expire, as the sequence of its entries in the order of insertion,  *)
(* with a ceiling on its size.                                             *)
(***************************************************************************)
EXTENDS WallClock, Sequences, FiniteSets

Live(e) == now < e.exp
Holds(m, k) == \E i \in 1..Len(m) : m[i].key = k
EntryOf(m, k) == m[CHOOSE i \in 1..Len(m) : m[i].key = k]
HoldsLive(m, k) == \E i \in 1..Len(m) : m[i].key = k /\ Live(m[i])

(* The elements of m whose indices are in I, in their order. *)
Nth(I, j) == CHOOSE i \in I : Cardinality({h \in I : h <= i}) = j
Picked(m, I) == [j \in 1..Cardinality(I) |-> m[Nth(I, j)]]

(* Map.delete *)
Without(m, k) == Picked(m, {i \in 1..Len(m) : m[i].key # k})

(* #evict *)
Unexpired(m) == Picked(m, {i \in 1..Len(m) : Live(m[i])})

(* Map.set: an entry that is there keeps its place. *)
Put(m, e) ==
    IF Holds(m, e.key)
    THEN [i \in 1..Len(m) |-> IF m[i].key = e.key THEN e ELSE m[i]]
    ELSE Append(m, e)

(* #capacityEvict, when the map has reached max: the expired go first, then *)
(* the oldest, until there is room for one more.                            *)
MakeRoom(m, max) ==
    IF Len(m) < max THEN m
    ELSE LET live == Unexpired(m) IN
         IF Len(live) < max THEN live
         ELSE SubSeq(live, Len(live) - max + 2, Len(live))

KeysUnique(m) == \A i, j \in 1..Len(m) : m[i].key = m[j].key => i = j

=============================================================================
