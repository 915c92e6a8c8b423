----------------------------- MODULE HeaderTable ----------------------------
(***************************************************************************)
(* What the two ends of an HTTP/2 connection must agree on when header     *)
(* blocks are compressed: the table of recent fields, newest first, of     *)
(* which there is always as much as fits, and the field that each          *)
(* representation in a block stands for.                                   *)
(***************************************************************************)
EXTENDS SequencesExt, Integers, FiniteSetsExt

CONSTANTS Names, Values,       \* of header fields: sequences, of which only the length counts
          Static,              \* the fields both ends know from the start
          Overhead,            \* what a field costs beyond its bytes
          HardMax,             \* the largest table the decoder has offered
          MaxList              \* the largest header list it accepts

VARIABLES table,    \* the recent fields
          room,     \* the size the encoder keeps the table to
          said,     \* the representation read last, or NothingSaid
          got,      \* the field it stood for
          total,    \* what the list read so far costs
          broken    \* the connection is given up

tableVars == <<table, room, said, got, total, broken>>

Field == [name : Names, value : Values]
NoField == [name |-> <<>>, value |-> <<>>]
NothingSaid == [how |-> "nothing", index |-> 0]
Cost(f) == Len(f.name) + Len(f.value) + Overhead
SizeOf(t) == FoldSeq(LAMBDA f, size : Cost(f) + size, 0, t)

(* As many of the newest fields as fit. *)
Fitting(t, size) ==
    SubSeq(t, 1, Max({0} \cup {k \in 1..Len(t) : SizeOf(SubSeq(t, 1, k)) <= size}))

(* A field larger than the table empties it. *)
Adding(t, f) == IF Cost(f) <= room THEN <<f>> \o Fitting(t, room - Cost(f)) ELSE <<>>

Known == Static \o table

Init ==
    /\ table = <<>> /\ room = HardMax /\ broken = FALSE
    /\ said = NothingSaid /\ got = NoField /\ total = 0

Read(how, index, f) ==
    /\ said' = [how |-> how, index |-> index] /\ got' = f
    /\ total' = total + Cost(f) /\ total' <= MaxList
    /\ UNCHANGED <<room, broken>>

Indexed == \E i \in 1..Len(Known) : Read("indexed", i, Known[i]) /\ UNCHANGED table

(* The name is that of a known field, or (index 0) a new one. *)
Named(i) == IF i = 0 THEN Field ELSE {f \in Field : f.name = Known[i].name}
Literal == \E i \in 0..Len(Known) : \E f \in Named(i) : Read("literal", i, f) /\ UNCHANGED table
LiteralAdded ==
    \E i \in 0..Len(Known) : \E f \in Named(i) : Read("added", i, f) /\ table' = Adding(table, f)

Resize ==
    /\ total = 0
    /\ \E size \in 0..HardMax : room' = size /\ table' = Fitting(table, size)
    /\ UNCHANGED <<said, got, total, broken>>

BlockEnds ==
    /\ said' = NothingSaid /\ got' = NoField /\ total' = 0
    /\ UNCHANGED <<table, room, broken>>

(* A block that makes no sense, or too long a list. *)
Break == broken' = TRUE /\ table' = <<>> /\ UNCHANGED <<room, said, got, total>>

Next == ~broken /\ (Indexed \/ Literal \/ LiteralAdded \/ Resize \/ BlockEnds \/ Break)

Spec == Init /\ [][Next]_tableVars
=============================================================================
