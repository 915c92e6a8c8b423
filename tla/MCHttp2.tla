------------------------------- MODULE MCHttp2 ------------------------------
(***************************************************************************)
(* The HTTP/2 connection, for TLC, on three instances at once: two streams *)
(* with uploads and responses; three requests, for refusals and floods,    *)
(* whose responses are empty; two responses, with longer bodies and larger *)
(* windows, whose requests are.  Its header decoder is a fourth part, on   *)
(* its own.                                                                *)
(***************************************************************************)
EXTENDS Http2, HpackDecoder

VARIABLE part

\* Names, values and a static table: fields of four sizes, all of which fit or not
SomeNames == {<<>>, <<"n">>}
SomeValues == {<<>>, <<"v">>}
OneStatic == <<[name |-> <<"n">>, value |-> <<>>]>>

Requests == INSTANCE Http2 WITH
    MaxStream <- 3, Windows <- {}, Increments <- {}, Payloads <- {1}, Bodies <- {0}, Chunks <- {}

Responses == INSTANCE Http2 WITH
    MaxWindow <- 3, Windows <- {0, 1, 2}, Increments <- {0, 2}, Payloads <- {},
    Bodies <- {0, 3}, Chunks <- {1, 2}, MaxMade <- 3

Init ==
    /\ HpackInit
    /\ \/ part \in {"both", "headers"} /\ Http2Init
       \/ part = "requests" /\ Requests!Http2Init
       \/ part = "responses" /\ Responses!Http2Init

Next ==
    /\ UNCHANGED part
    /\ \/ part = "both" /\ Http2Next /\ UNCHANGED hpackVars
       \/ part = "requests" /\ Requests!Http2Next /\ UNCHANGED hpackVars
       \/ part = "responses" /\ Responses!Http2Next /\ UNCHANGED hpackVars
       \/ part = "headers" /\ HpackStep /\ UNCHANGED http2Vars

Spec == Init /\ [][Next]_<<part, http2Vars, hpackVars>>
=============================================================================
