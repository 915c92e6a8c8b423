----------------------------- MODULE PluginBoot -----------------------------
(***************************************************************************)
(* An application from registration to listening: plugins load depth-first, *)
(* awaited by ready() or at once by listen(), each adding a route and      *)
(* perhaps plugins of its own; listen() compiles the routes and hands the  *)
(* engine their table.  Scope 0 is the application, scope p that of plugin *)
(* p.  Callers await ready(), as the documentation has them do.            *)
(***************************************************************************)
EXTENDS Integers, SequencesExt

CONSTANTS MaxPlugins,    \* bound: plugins registered
          MaxRoutes,     \* bound: routes the application adds itself
          MayBeAsync     \* the plugins that may be async

ASSUME BootAssumption == MaxPlugins \in Nat /\ MaxRoutes \in Nat /\ MayBeAsync \subseteq Nat

Plugins == 1..MaxPlugins

VARIABLES asyncPlugins,  \* those that return a promise
          plugins,       \* Scope.plugins, by scope
          registered,    \* how many there are
          late,          \* those registered once the application had booted
          loader,        \* idle, ready (awaiting), listen (synchronous), bind
          loops,        \* the loops loadPlugins is in, innermost last
          awaited,       \* the plugin whose promise ready() awaits, 0: none
          loaded,        \* the plugins run, in order
          appBooted, bootFailed,
          routes,        \* Toki.#routes: who added each
          compiled,      \* Toki.#compiled
          table,         \* the engine's routes
          appListening

bootVars == <<asyncPlugins, plugins, registered, late, loader, loops, awaited, loaded,
              appBooted, bootFailed, routes, compiled, table, appListening>>

BootInit ==
  /\ asyncPlugins \in SUBSET (MayBeAsync \cap Plugins)
  /\ plugins = [s \in 0..MaxPlugins |-> <<>>] /\ registered = 0 /\ late = {}
  /\ loader = "idle" /\ loops = <<>> /\ awaited = 0 /\ loaded = <<>>
  /\ appBooted = FALSE /\ bootFailed = FALSE
  /\ routes = <<>> /\ compiled = <<>> /\ table = <<>> /\ appListening = FALSE

Loading == <<loader, loops, awaited, loaded, appBooted, bootFailed>>
Serving == <<compiled, table, appListening>>

\* register: a fresh child scope at the end of the scope's plugins
Registers(scope, n) ==
  /\ registered + n <= MaxPlugins
  /\ registered' = registered + n
  /\ plugins' = [plugins EXCEPT ![scope] = @ \o [i \in 1..n |-> registered + i]]

RegisterPlugin ==
  /\ loader = "idle" /\ Registers(0, 1)
  /\ late' = IF appBooted THEN late \cup {registered + 1} ELSE late
  /\ UNCHANGED <<asyncPlugins, routes, Loading, Serving>>

AddRoute ==
  /\ loader = "idle" /\ Len(routes) < MaxRoutes + MaxPlugins
  /\ Len(SelectSeq(routes, LAMBDA r : r = 0)) < MaxRoutes
  /\ routes' = Append(routes, 0)
  /\ UNCHANGED <<asyncPlugins, plugins, registered, late, Loading, Serving>>

\* a plugin's own code: a route, and none, one or two plugins
PluginActs(p) ==
  /\ \E n \in 0..2 : Registers(p, n)
  /\ routes' = Append(routes, p)

\* ready, and the boot of listen (bound: a boot that failed is not tried again)
BeginLoad(how) == loader' = how /\ loops' = <<[scope |-> 0, next |-> 1]>>

Ready ==
  /\ loader = "idle" /\ ~ appBooted /\ ~ bootFailed /\ BeginLoad("ready")
  /\ UNCHANGED <<asyncPlugins, plugins, registered, late, awaited, loaded, appBooted, bootFailed,
                 routes, Serving>>

\* listen, and inject when the application is not listening
Listen ==
  /\ loader = "idle" /\ ~ bootFailed
  /\ IF appBooted THEN loader' = "bind" /\ UNCHANGED loops ELSE BeginLoad("listen")
  /\ UNCHANGED <<asyncPlugins, plugins, registered, late, awaited, loaded, appBooted, bootFailed,
                 routes, Serving>>

Inner == Last(loops)
Advanced == [loops EXCEPT ![Len(loops)].next = @ + 1]

\* the recursive call, right after the plugin
Descend(p) == loops' = Append(Advanced, [scope |-> p, next |-> 1])

LoadFails == loader' = "idle" /\ loops' = <<>> /\ awaited' = 0 /\ bootFailed' = TRUE

\* the next plugin of the innermost loop is called
LoadNext ==
  /\ loops # <<>> /\ awaited = 0
  /\ Inner.next <= Len(plugins[Inner.scope])
  /\ LET p == plugins[Inner.scope][Inner.next]
     IN /\ loaded' = Append(loaded, p)
        /\ \/ /\ p \notin asyncPlugins /\ PluginActs(p) /\ Descend(p)
              /\ UNCHANGED <<loader, awaited, bootFailed>>
           \/ /\ p \in asyncPlugins /\ loader = "ready" /\ awaited' = p
              /\ UNCHANGED <<loader, loops, bootFailed, plugins, registered, routes>>
           \/ \* listen cannot await it: it throws
              /\ p \in asyncPlugins /\ loader = "listen" /\ LoadFails
              /\ UNCHANGED <<plugins, registered, routes>>
  /\ UNCHANGED <<asyncPlugins, late, appBooted, Serving>>

\* the awaited plugin has done its work, or rejects and ready() with it
PluginSettles ==
  /\ awaited # 0
  /\ \/ PluginActs(awaited) /\ Descend(awaited) /\ awaited' = 0 /\ UNCHANGED <<loader, bootFailed>>
     \/ LoadFails /\ UNCHANGED <<plugins, registered, routes>>
  /\ UNCHANGED <<asyncPlugins, late, loaded, appBooted, Serving>>

\* a loop is done; when it was the outermost, the application has booted
LoopEnds ==
  /\ loops # <<>> /\ awaited = 0 /\ Inner.next > Len(plugins[Inner.scope])
  /\ loops' = Front(loops)
  /\ IF Len(loops) > 1 THEN UNCHANGED <<loader, appBooted>>
     ELSE appBooted' = TRUE /\ loader' = (IF loader = "listen" THEN "bind" ELSE "idle")
  /\ UNCHANGED <<asyncPlugins, plugins, registered, late, awaited, loaded, bootFailed, routes,
                 Serving>>

CompileAll == compiled' = routes

\* the end of listen: native.listen takes the table, or throws (the port is taken, or the
\* engine is serving already) after the routes have been compiled
Bind ==
  /\ loader = "bind" /\ loader' = "idle" /\ CompileAll
  /\ \/ ~ appListening /\ table' = routes /\ appListening' = TRUE
     \/ UNCHANGED <<table, appListening>>
  /\ UNCHANGED <<asyncPlugins, plugins, registered, late, loops, awaited, loaded, appBooted,
                 bootFailed, routes>>

\* the handle's close()
CloseApp ==
  /\ loader = "idle" /\ appListening /\ appListening' = FALSE /\ table' = <<>>
  /\ UNCHANGED <<asyncPlugins, plugins, registered, late, routes, compiled, Loading>>

BootStep == \/ RegisterPlugin \/ AddRoute \/ Ready \/ Listen \/ LoadNext \/ PluginSettles
            \/ LoopEnds \/ Bind \/ CloseApp

-----------------------------------------------------------------------------
BootTypeOK ==
  /\ registered \in 0..MaxPlugins /\ Range(loaded) \subseteq Plugins
  /\ Range(routes) \cup Range(compiled) \cup Range(table) \subseteq 0..MaxPlugins
  /\ (loops # <<>>) = (loader \in {"ready", "listen"})
  /\ awaited # 0 => loader = "ready" /\ awaited \in asyncPlugins

ScopeOf(p) == CHOOSE s \in 0..MaxPlugins : p \in Range(plugins[s])

\* a plugin and what it and its plugins registered: what no set can leave out that holds the
\* plugin and, of each of its members, the plugins registered in its scope
WithTheirs(S) == \A s \in S : Range(plugins[s]) \subseteq S
Within(p) == {q \in 0..MaxPlugins : \A S \in SUBSET (0..MaxPlugins) : p \in S /\ WithTheirs(S) => q \in S}

Place(p) == CHOOSE i \in DOMAIN loaded : loaded[i] = p

\* "Plugins load depth-first in registration order", each once: a plugin's whole subtree is
\* there before its next sibling, and all of it is there when the application has booted.
LoadedInOrder ==
  appBooted /\ ~ bootFailed =>
    /\ IsInjective(loaded) /\ Range(loaded) = (1..registered) \ late
    /\ \A s \in 0..MaxPlugins : \A i, j \in DOMAIN plugins[s] : i < j =>
         \A p \in Within(plugins[s][i]) : \A q \in Within(plugins[s][j]) :
            {p, q} \subseteq Range(loaded) => Place(p) < Place(q)
    /\ \A p \in Range(loaded) : ScopeOf(p) = 0 \/ Place(ScopeOf(p)) < Place(p)

\* The engine dispatches by an index into a table it was given once: the handler found there
\* is that route's, also after a listen() that failed when it had recompiled the routes.
RouteIndexStable == \A i \in DOMAIN table : i \in DOMAIN compiled /\ compiled[i] = table[i]

\* Synchronous and asynchronous plugins, late registrations, failed loads and listen()
\* calls in any order give one load order and one route table (app.ts, scope.ts).
BootCorrect == BootTypeOK /\ LoadedInOrder /\ RouteIndexStable
=============================================================================
