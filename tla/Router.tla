------------------------------- MODULE Router --------------------------------
(***************************************************************************)
(* The engine's route table (http/router.zig): exact paths in a map, paths *)
(* with parameters or a `*' scanned in order, and for what neither serves  *)
(* the choice between 404 and 405.  A path is the sequence of its parts    *)
(* between slashes, so "/a" is <<"", "a">> and "/" is <<"", "">>.          *)
(***************************************************************************)
EXTENDS Integers, SequencesExt, FiniteSetsExt

CONSTANTS RouteMethods, RoutePaths,   \* of the routes
          AskedPaths,                 \* of the requests
          ParamParts,                 \* parts of the form ":x"
          MaxTable,                   \* bound: routes in a table
          MaxParams                   \* max_params

ASSUME RouterAssumption ==
  /\ {MaxTable, MaxParams} \subseteq Nat
  /\ RoutePaths \cup AskedPaths \subseteq Seq(STRING) \ {<<>>}

VARIABLES routed,    \* the routes, in the order of their indices
          asked,     \* the request that was resolved last
          resolution    \* what it came to

routerVars == <<routed, asked, resolution>>

TableRoutes == [method : RouteMethods, path : RoutePaths]
Nothing == [kind |-> "none"]

RouterInit ==
  /\ routed \in UNION {[1..n -> TableRoutes] : n \in 0..MaxTable}
  /\ asked = Nothing /\ resolution = Nothing

isDynamic(path) == \E k \in DOMAIN path : path[k] \in ParamParts \cup {"*"}

\* without its leading slashes, of which one part always remains
Trimmed(path) ==
  SubSeq(path, Min({Len(path)} \cup {k \in DOMAIN path : path[k] # ""}), Len(path))

Wildcards(segments) == {k \in DOMAIN segments : segments[k] = "*"}
endsWithWildcard(segments) == Last(segments) = "*"

\* A wildcard takes the rest of the path, also none of it; without one the parts are as many
\* as the segments.
matchPattern(segments, path) ==
  LET parts == Trimmed(path)
      ends  == Wildcards(segments)
      fixed == IF ends = {} THEN Len(segments) ELSE Min(ends) - 1
      captures == Cardinality({k \in 1..fixed : segments[k] \in ParamParts})
  IN /\ IF ends = {} THEN Len(parts) = fixed ELSE Len(parts) >= fixed
     /\ \A k \in 1..fixed : segments[k] \in ParamParts \cup {parts[k]}
     /\ (IF ends = {} THEN captures ELSE captures + 1) <= MaxParams

Pattern(route) == Trimmed(route.path)

Exact(t, path) == {i \in DOMAIN t : ~ isDynamic(t[i].path) /\ t[i].path = path}
Matching(t, path) == {i \in DOMAIN t : isDynamic(t[i].path) /\ matchPattern(Pattern(t[i]), path)}

OfMethod(t, S, method) == {i \in S : t[i].method = method}

\* The map keeps the last of several routes for a path; of the patterns the first one matches.
lookup(t, method, path) ==
  LET exact == OfMethod(t, Exact(t, path), method)
      dynamic == OfMethod(t, Matching(t, path), method)
  IN IF exact # {} THEN Max(exact) ELSE IF dynamic # {} THEN Min(dynamic) ELSE 0

\* seeded fault: a catch-all advertises its method
AllowedByCatchAll(t, path) == {t[i].method : i \in Exact(t, path) \cup Matching(t, path)}

\* resolveMiss
AllowedFor(t, path) ==
  {t[i].method : i \in Exact(t, path) \cup
                        {j \in Matching(t, path) : ~ endsWithWildcard(Pattern(t[j]))}}

resolve(t, method, path) ==
  LET own == lookup(t, method, path)
      get == IF method = "HEAD" THEN lookup(t, "GET", path) ELSE 0
      found == IF own # 0 THEN own ELSE get
  IN IF found # 0 THEN [kind |-> "found", route |-> t[found]]
     ELSE IF AllowedFor(t, path) = {} THEN [kind |-> "not_found"]
     ELSE [kind |-> "method_not_allowed", allow |-> AllowedFor(t, path)]

Ask(method, path) ==
  /\ asked' = [kind |-> "asked", method |-> method, path |-> path]
  /\ resolution' = resolve(routed, method, path)
  /\ UNCHANGED routed

RouterStep == \E method \in RouteMethods \cup {"PUT"}, path \in AskedPaths : Ask(method, path)

-----------------------------------------------------------------------------
\* A 405 tells the truth: the method asked for is not among those allowed, and a request with
\* any of them is served.
AllowIsTrue ==
  resolution.kind = "method_not_allowed" =>
    /\ asked.method \notin resolution.allow
    /\ asked.method = "HEAD" => "GET" \notin resolution.allow
    /\ \A method \in resolution.allow : resolve(routed, method, asked.path).kind = "found"

\* A trailing `*' is a fallback: it changes nothing for requests of another method, which go to
\* the same route, or the same 404 and so the static files, as without it (cors() and its
\* `OPTIONS /*').
CatchAllIsSilent ==
  asked # Nothing =>
    \A i \in DOMAIN routed :
      /\ endsWithWildcard(Pattern(routed[i]))
      /\ routed[i].method \notin {asked.method} \cup (IF asked.method = "HEAD" THEN {"GET"} ELSE {})
      => resolve(RemoveAt(routed, i), asked.method, asked.path) = resolution

\* No pattern, wherever it was registered, takes a request from the route of its exact path.
ExactIsReached ==
  asked # Nothing =>
    \A route \in Range(routed) :
      /\ route.method = asked.method /\ route.path = asked.path /\ ~ isDynamic(route.path)
      => resolution = [kind |-> "found", route |-> route]

\* What a request resolves to stays what its route's author registered, whatever else is in
\* the table (RouteTable.resolve, lookup, resolveMiss).
RouterCorrect == AllowIsTrue /\ CatchAllIsSilent /\ ExactIsReached
=============================================================================
