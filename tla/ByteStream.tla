----------------------------- MODULE ByteStream -----------------------------
(***************************************************************************)
(* What the write path of one connection promises, whatever the socket     *)
(* does: the bytes the engine has taken over form a stream, the kernel has *)
(* always received a prefix of that stream, and once the connection is     *)
(* closing not one more byte reaches it.                                   *)
(*                                                                         *)
(* Bytes are numbered 1, 2, 3, ... in the order the engine produced them,  *)
(* so a prefix of the stream is a set 1..n.                                *)
(***************************************************************************)
EXTENDS Integers

VARIABLES
    accepted,   \* how many bytes the engine has taken over
    wire,       \* the bytes the kernel has received
    closing     \* the connection has been told to close

streamVars == <<accepted, wire, closing>>

Init ==
    /\ accepted = 0
    /\ wire = {}
    /\ closing = FALSE

(* More bytes are taken over, more of them are delivered, or both. *)
Advance ==
    /\ ~closing
    /\ accepted' \in Nat
    /\ accepted' >= accepted
    /\ \E n \in 0..accepted' : wire' = 1..n
    /\ wire \subseteq wire'
    /\ closing' \in BOOLEAN

Next == Advance

Spec == Init /\ [][Next]_streamVars
=============================================================================
