----------------------------- MODULE MCServices -----------------------------
(***************************************************************************)
(* The parts of the library that run beside the connections, for TLC, with *)
(* what must eventually happen in each: the application's boot, the route  *)
(* table, the request pipeline, a WebSocket, an event stream, a connection *)
(* awaiting admission, a circuit breaker, a proxied call, a byte range and *)
(* a secured datagram socket.  They share no state, so each behaviour is   *)
(* one part's: the others stay in one of their initial states.             *)
(***************************************************************************)
EXTENDS CircuitBreaker, AppPipeline, WebSocket, SseStream, TcpAdmission,
        PluginBoot, Router, ProxyCall, SendRange, UdpReplay

VARIABLE part

\* /, /a, /:x, /*, /a/*, and one with more parameters than MaxParams
SomeRoutes == {<<"", "">>, <<"", "a">>, <<"", ":x">>, <<"", "*">>, <<"", "a", "*">>, <<"", ":x", ":y">>}
\* /, /a, //a, /a/, /b, /a/b
SomePaths == {<<"", "">>, <<"", "a">>, <<"", "", "a">>, <<"", "a", "">>, <<"", "b">>, <<"", "a", "b">>}

breakerAll == <<now, breakerVars>>
helperVars == <<bootVars, routerVars, proxyVars, rangeVars, replayVars>>
mcVars == <<part, breakerAll, appVars, wsVars, sseVars, admissionVars, helperVars>>

Init ==
    /\ part \in {"breaker", "pipeline", "websocket", "sse", "admission",
                 "boot", "router", "proxy", "range", "replay"}
    /\ ClockInit /\ BreakerInit /\ WebSocketInit /\ SseInit
    /\ BootInit /\ RouterInit /\ ProxyInit /\ RangeInit /\ ReplayInit
    /\ part # "boot" => asyncPlugins = {}
    /\ part # "router" => routed = <<>>
    /\ part # "proxy" => ~ deadlineMs
    /\ part # "range" => request = NoHeader /\ from = "buffer" /\ length = 0
    /\ IF part = "pipeline" THEN PipelineInit ELSE
           /\ hooks = {} /\ at = 1 /\ ran = <<>> /\ waiting = FALSE /\ detached = FALSE
           /\ timer = "off" /\ result = "none" /\ answers = <<>>
    /\ IF part = "admission" THEN AdmissionInit ELSE
           /\ store = "sync" /\ failClosed = FALSE /\ verdict = "pending" /\ buffering = FALSE
           /\ held = <<>> /\ arrived = <<>> /\ heard = <<>> /\ ended = FALSE

OnlyBreaker(A) ==
    part = "breaker" /\ A /\ UNCHANGED <<part, appVars, wsVars, sseVars, admissionVars, helperVars>>
OnlyPipeline(A) ==
    part = "pipeline" /\ A
      /\ UNCHANGED <<part, breakerAll, wsVars, sseVars, admissionVars, helperVars>>
OnlyWebSocket(A) ==
    part = "websocket" /\ A
      /\ UNCHANGED <<part, breakerAll, appVars, sseVars, admissionVars, helperVars>>
OnlySse(A) ==
    part = "sse" /\ A /\ UNCHANGED <<part, breakerAll, appVars, wsVars, admissionVars, helperVars>>
OnlyAdmission(A) ==
    part = "admission" /\ A /\ UNCHANGED <<part, breakerAll, appVars, wsVars, sseVars, helperVars>>
OnlyHelper(p, A, rest) ==
    part = p /\ A
      /\ UNCHANGED <<part, breakerAll, appVars, wsVars, sseVars, admissionVars, rest>>

OnlyBoot(A)   == OnlyHelper("boot", A, <<routerVars, proxyVars, rangeVars, replayVars>>)
OnlyRouter(A) == OnlyHelper("router", A, <<bootVars, proxyVars, rangeVars, replayVars>>)
OnlyProxy(A)  == OnlyHelper("proxy", A, <<bootVars, routerVars, rangeVars, replayVars>>)
OnlyRange(A)  == OnlyHelper("range", A, <<bootVars, routerVars, proxyVars, replayVars>>)
OnlyReplay(A) == OnlyHelper("replay", A, <<bootVars, routerVars, proxyVars, rangeVars>>)

(* Bound of the run: compressed messages are texts, and the last frame a client sends *)
(* ends its message.                                                                  *)
FramesBound ==
    /\ \A i \in DOMAIN frames : frames[i].z => frames[i].op = "text"
    /\ Len(frames) = MaxFrames => Last(frames).fin

Next ==
    \/ OnlyBreaker(BreakerStep) \/ OnlyBreaker(BreakerTick)
    \/ OnlyPipeline(PipelineStep)
    \/ OnlyWebSocket(WebSocketStep)
    \/ OnlySse(SseStep)
    \/ OnlyAdmission(AdmissionStep)
    \/ OnlyBoot(BootStep)
    \/ OnlyRouter(asked = Nothing /\ RouterStep)    \* the table never changes: one request will do
    \/ OnlyProxy(ProxyStep)
    \/ OnlyRange(RangeStep)
    \/ OnlyReplay(ReplayStep)

(* Timers fire and promise jobs run.  Nothing makes a handler settle, a producer go on   *)
(* or a peer do anything.                                                                *)
Fairness ==
    /\ WF_mcVars(OnlyBreaker(BreakerTick))
    /\ \A c \in Calls : WF_mcVars(OnlyBreaker(TimesOut(c)))
    /\ WF_mcVars(OnlyPipeline(StepRuns)) /\ WF_mcVars(OnlyPipeline(RequestEnds))
    /\ WF_mcVars(OnlyPipeline(TimerFires))
    /\ WF_mcVars(OnlySse(Start)) /\ WF_mcVars(OnlySse(FirstPull)) /\ WF_mcVars(OnlySse(Yield))
    /\ WF_mcVars(OnlySse(Resume)) /\ WF_mcVars(OnlySse(End)) /\ WF_mcVars(OnlySse(HeartbeatFires))
    /\ WF_mcVars(OnlyProxy(DeadlineFires))

Spec == Init /\ [][Next]_mcVars /\ Fairness

(* The routes as they are registered, and as requests find them. *)
RoutesCorrect == BootCorrect /\ RouterCorrect

(* The pipeline's safety, and EveryRequestAnswered of the behaviours that have a request. *)
PipelineCorrect == []PipelineSafe /\ (part = "pipeline" => EveryRequestAnswered)
=============================================================================
