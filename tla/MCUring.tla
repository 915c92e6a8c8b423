------------------------------ MODULE MCUring -------------------------------
(***************************************************************************)
(* The io_uring server for TLC: alone with one connection that does much,  *)
(* or with two that share the receive buffer and call each other.          *)
(***************************************************************************)
EXTENDS UringTcp

UnitsSent == <<3, 1>>
SegmentsSent == <<2, 1>>

(* One choice of allow_half_open is enough for two connections. *)
MCInit == UringInit /\ (ring.callers = 2 => ~ring.allow_half_open)

KernelGoesOn == \E c \in ConnIds : KernelWorks(c) \/ PeerReadsRing(c)

(* The kernel completes what can complete and the peers read what they were *)
(* sent; the loop drains the completion queue, which is weak fairness of    *)
(* onRingReadable with its guard spelled out.  Nothing makes a listener     *)
(* call, a peer end or the server close.                                    *)
Fairness ==
    /\ WF_uringVars(KernelGoesOn)
    /\ []<>(~ring.up \/ ring.cq = <<>>) \/ []<><<HandlesOne>>_uringVars

Spec == MCInit /\ [][UringStep]_uringVars /\ Fairness
=============================================================================
