------------------------------ MODULE OnceOnly ------------------------------
(***************************************************************************)
(* What a secure datagram session promises its two applications: a         *)
(* datagram that was sealed may be opened late, out of order or never, but *)
(* no application is handed one that was not sealed, or the same one       *)
(* twice.                                                                  *)
(***************************************************************************)
EXTENDS Bags

VARIABLES sealed,   \* the datagrams an application has sent
          opened    \* the bag of those handed to the application they were for

Init == sealed = {} /\ opened = EmptyBag

Seal(d) == /\ d \notin sealed
           /\ sealed' = sealed \cup {d}
           /\ UNCHANGED opened

Open(d) == /\ d \in sealed
           /\ ~ BagIn(d, opened)
           /\ opened' = opened (+) SetToBag({d})
           /\ UNCHANGED sealed

\* any datagram may be sealed: the step itself says which
Next == (\E d \in sealed' : Seal(d)) \/ (\E d \in sealed : Open(d))

Spec == Init /\ [][Next]_<<sealed, opened>>
=============================================================================
