---------------------------- MODULE MCWritePath -----------------------------
(***************************************************************************)
(* The write path of one connection, for TLC: under any writes and closes  *)
(* of a TLS connection, and, on a plain one, under the writes of a         *)
(* streamed response.                                                      *)
(***************************************************************************)
EXTENDS StreamResponse

VARIABLE part

mcVars == <<part, allVars>>

PathInit == part \in {"any writer", "stream"} /\ StreamInit

AnyWriter == part = "any writer" /\ Next /\ UNCHANGED <<part, driveVars>>
OnlyStream(A) == part = "stream" /\ A /\ UNCHANGED part

PathSpec ==
    PathInit /\ [][AnyWriter \/ OnlyStream(StreamNext)]_mcVars /\ WF_mcVars(OnlyStream(Drive))

(* StreamSafe and StreamEnds of the behaviours that stream. *)
StreamCorrect == part = "stream" => []StreamSafe /\ StreamEnds
=============================================================================
