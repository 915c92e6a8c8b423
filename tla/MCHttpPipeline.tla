--------------------------- MODULE MCHttpPipeline ---------------------------
(* The clients HttpPipeline is checked with: sequences of two or three      *)
(* requests drawn from a few shapes, sized around BufSize and InSize.       *)
EXTENDS HttpPipeline

R(h, b, m) == [head |-> h, body |-> b, mode |-> m, close |-> FALSE]
Closing(r) == [r EXCEPT !.close = TRUE]

Plain(scripts) == [tls : {FALSE}, script : scripts]
OverTls(scripts) == [tls : {TRUE}, script : scripts]

(* Plain: every way a request can be answered; a body that spills over the  *)
(* inline buffer, a head that does not fit, a body above the limit.         *)
PlainShapes ==
    { R(1, 0, "sync"), R(1, 1, "native"), R(2, 0, "direct"), R(1, 1, "async"),
      R(1, 0, "stream"), R(1, 3, "async"), R(1, 3, "sync") }
PlainScripts ==
    [1..3 -> PlainShapes]
        \cup { <<R(1, 0, "async"), x, R(1, 0, "sync")>> :
                 x \in {R(1, 0, "bad"), R(4, 0, "sync"), R(1, 9, "sync"), Closing(R(1, 0, "sync")),
                        Closing(R(1, 0, "async")), Closing(R(1, 0, "stream"))} }

(* TLS: requests that fit the inline buffer, answered at once or later; a   *)
(* stream, or a body that spills over, only as the last.                    *)
TlsShapes == { R(1, 0, "sync"), R(2, 0, "async"), R(1, 0, "async"), R(1, 2, "sync") }
TlsScripts ==
    [1..3 -> TlsShapes]
        \cup { <<x, y>> : x \in TlsShapes, y \in {R(1, 0, "stream"), R(1, 3, "sync"), R(1, 3, "async")} }

Connections == Plain(PlainScripts) \cup OverTls(TlsScripts)

(* A body that spills over, and the request behind it in the same record. *)
BigThenSmall == OverTls({ <<R(1, 3, "sync"), R(1, 1, "sync")>> })
=============================================================================
