---------------------------- MODULE HpackDecoder ----------------------------
(***************************************************************************)
(* The decoder of one connection's header blocks (http2/hpack.zig): the    *)
(* dynamic table as a ring of owned entries, evicted from its oldest end,  *)
(* under the encoder of the peer.  Octets are left out: a representation   *)
(* is what decodeInt and decodeStr make of it.                             *)
(***************************************************************************)
EXTENDS Integers, FiniteSets, Sequences
LOCAL INSTANCE SequencesExt
LOCAL INSTANCE FiniteSetsExt

CONSTANTS Names, Values, Static, Overhead,
          DynCap,              \* dyn_cap: the slots of the ring
          HardMax, MaxList,    \* hard_max, max_list
          NamesOfEvicted       \* whether the peer names a field that the new one pushes out

ASSUME HpackAssumption ==
    /\ {DynCap, Overhead} \subseteq Nat \ {0} /\ {HardMax, MaxList} \subseteq Nat
    /\ HardMax <= DynCap * Overhead
    /\ \A s \in Names \cup Values : Len(s) \in Nat
    /\ \A i \in 1..Len(Static) : Static[i].name \in Names /\ Static[i].value \in Values
    /\ NamesOfEvicted \in BOOLEAN

VARIABLES hdec,      \* the Decoder
          block,     \* decode()'s locals, what it read last, and the field it emitted for it
          failed     \* decode() returned an error, and the connection ends

hpackVars == <<hdec, block, failed>>

Slots == 0..DynCap - 1
Entry == [name : Names, value : Values]
NoEntry == [name |-> <<>>, value |-> <<>>]
Need(f) == Len(f.name) + Len(f.value) + Overhead

NewBlock ==
    [list |-> 0, seen_field |-> FALSE, read |-> [how |-> "nothing", index |-> 0], last |-> NoEntry]

HpackInit ==
    /\ hdec = [entries |-> [s \in Slots |-> NoEntry], head |-> 0, count |-> 0, size |-> 0,
               max_size |-> HardMax]
    /\ block = NewBlock /\ failed = FALSE

-----------------------------------------------------------------------------
(* The table.                                                               *)

(* seeded fault: counted from the oldest entry *)
SlotFromHead(d, j) == (d.head + j) % DynCap

(* The slot of dynamic entry j, 0 being the newest. *)
SlotOf(d, j) == (d.head + d.count - 1 - j) % DynCap

(* evictOldest, k times: the entries are freed *)
Evicted(d, k) ==
    LET oldest == {SlotOf(d, j) : j \in d.count - k..d.count - 1}
    IN [d EXCEPT !.head = (@ + k) % DynCap, !.count = @ - k,
                 !.size = @ - FoldSet(LAMBDA s, sum : Need(d.entries[s]) + sum, 0, oldest),
                 !.entries = [s \in Slots |-> IF s \in oldest THEN NoEntry ELSE @[s]]]

(* The evictions a loop makes before `need' more units fit, or nothing is left. *)
Evictions(d, need) ==
    Min({d.count} \cup {k \in 0..d.count : Evicted(d, k).size + need <= d.max_size})

setMaxSize(d, max) ==
    LET e == [d EXCEPT !.max_size = max] IN Evicted(e, Evictions(e, 0))

Stored(d, f) ==
    [d EXCEPT !.entries[(d.head + d.count) % DynCap] = f, !.count = @ + 1, !.size = @ + Need(f)]

add(d, f) ==
    LET e == Evicted(d, Evictions(d, Need(f)))
    IN IF Need(f) > d.max_size THEN e ELSE Stored(e, f)

(* lookup: the indices that are no error, and what they stand for *)
Indices == 1..Len(Static) + hdec.count
lookup(index) ==
    IF index <= Len(Static) THEN Static[index]
    ELSE hdec.entries[SlotOf(hdec, index - Len(Static) - 1)]

-----------------------------------------------------------------------------
(* decode, one representation at a time.                                    *)

Fails == failed' = TRUE /\ UNCHANGED block

(* emit *)
Emit(how, index, f) ==
    LET list == block.list + Need(f)
    IN IF list > MaxList THEN Fails
       ELSE /\ block' = [list |-> list, seen_field |-> TRUE, last |-> f,
                         read |-> [how |-> how, index |-> index]]
            /\ UNCHANGED failed

DecodeIndexed(index) ==
    IF index \in Indices THEN Emit("indexed", index, lookup(index)) /\ UNCHANGED hdec
    ELSE Fails /\ UNCHANGED hdec

(* An entry is freed as it is evicted: a name that points into it is whatever the      *)
(* memory holds by then, when it is copied and when it is emitted.                     *)
NameFreed(index, f) ==
    index - Len(Static) > hdec.count - Evictions(hdec, Need(f))

InMemory(name, freed) == IF freed THEN {n \in Names : Len(n) = Len(name)} ELSE {name}

DecodeLiteral(index, name, value, indexing) ==
    LET f == [name |-> IF index = 0 THEN name ELSE lookup(index).name, value |-> value]
        freed == indexing /\ index > Len(Static) /\ NameFreed(index, f)
    IN /\ freed => NamesOfEvicted
       /\ \E copied, emitted \in InMemory(f.name, freed) :
            /\ Emit(IF indexing THEN "added" ELSE "literal", index, [f EXCEPT !.name = emitted])
            /\ hdec' = IF indexing THEN add(hdec, [f EXCEPT !.name = copied]) ELSE hdec

LiteralOf(index) ==
    \E value \in Values, indexing \in BOOLEAN :
        IF index = 0 THEN \E name \in Names : DecodeLiteral(0, name, value, indexing)
        ELSE IF index \in Indices THEN DecodeLiteral(index, <<>>, value, indexing)
        ELSE Fails /\ UNCHANGED hdec

(* A size update, which is valid only before any field. *)
DecodeResize(max) ==
    IF block.seen_field \/ max > HardMax THEN Fails /\ UNCHANGED hdec
    ELSE hdec' = setMaxSize(hdec, max) /\ UNCHANGED <<block, failed>>

(* The next block of the connection, or the octets end within a representation. *)
BlockOver == block' = NewBlock /\ UNCHANGED <<hdec, failed>>
Truncated == Fails /\ UNCHANGED hdec

HpackStep ==
    /\ ~failed
    /\ \/ \E index \in 0..Len(Static) + hdec.count + 1 : DecodeIndexed(index) \/ LiteralOf(index)
       \/ \E max \in 0..HardMax + 1 : DecodeResize(max)
       \/ BlockOver \/ Truncated

HpackSpec == HpackInit /\ [][HpackStep]_hpackVars

-----------------------------------------------------------------------------
(* Properties.                                                              *)

(* What the ring holds, newest first. *)
Ring == [k \in 1..hdec.count |-> hdec.entries[(hdec.head + hdec.count - k) % DynCap]]

(* The decoder's ring is the table its peer's encoder keeps, field for field and at     *)
(* every size, and each representation is read as the field it stands for: a table one  *)
(* entry off would give every later request of the connection wrong headers.            *)
(* (hpack.zig: add, setMaxSize, lookup, decode)                                         *)
Table == INSTANCE HeaderTable WITH
    table <- IF failed THEN <<>> ELSE Ring, room <- hdec.max_size,
    said <- block.read, got <- block.last,
    total <- block.list, broken <- failed
HeadersInStep == Table!Spec
=============================================================================
