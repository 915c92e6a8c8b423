-------------------------- MODULE MCRequestPlugins --------------------------
(***************************************************************************)
(* The plugins that keep stores between requests, for TLC.  They share no   *)
(* state but the clock, so each behaviour is one plugin's: the others stay *)
(* in their initial states.                                                *)
(***************************************************************************)
EXTENDS Idempotency, SessionPlugin, HttpCache, RateLimit

CONSTANTS
    SessionHorizon,    \* bounds: the clock stops here for the session plugin,
    MaxDestroyed,      \* so many requests of a run destroy their session,
    StoreHorizon       \* and the clock stops here for the others, but for the limiter on memcached

VARIABLE plugin

mcVars == <<plugin, now, idemVars, sessionVars, cacheVars, rateVars>>

Init ==
    /\ plugin \in {"idempotency", "session", "cache", "ratelimiter"}
    /\ ClockInit
    /\ IF plugin = "idempotency" THEN IdempotencyInit ELSE
           shared = FALSE /\ slots = <<>> /\ retries = [r \in Retries |-> Unsent]
    /\ IF plugin = "session" THEN SessionInit ELSE
           rolling = FALSE /\ sessions = <<>> /\ visits = [v \in Visits |-> Absent]
    /\ CacheInit
    /\ IF plugin = "ratelimiter" THEN RateLimitInit ELSE
           /\ backend = "memory" /\ failClosed = FALSE /\ buckets = <<>>
           /\ hits = [h \in Hits |-> Unmade] /\ lastSweep = 0

(* Keys, fingerprints and pages are interchangeable: the first request of a *)
(* run has these.                                                          *)
FirstKey == CHOOSE k \in IdemKeys : TRUE
FirstPrint == CHOOSE p \in Prints : TRUE
FirstPage == CHOOSE p \in Pages : TRUE

IdempotencyNext ==
    /\ plugin = "idempotency"
    /\ IdempotencyStep \/ (now < StoreHorizon /\ IdempotencyTick)
    /\ retries'[1].key \in {"none", FirstKey} /\ retries'[1].print \in {"none", FirstPrint}
    /\ UNCHANGED <<plugin, sessionVars, cacheVars, rateVars>>

SessionNext ==
    /\ plugin = "session"
    /\ SessionStep \/ (now < SessionHorizon /\ SessionTick)
    /\ Cardinality({v \in Visits : visits'[v].destroyed}) <= MaxDestroyed
    /\ UNCHANGED <<plugin, idemVars, cacheVars, rateVars>>

CacheNext ==
    /\ plugin = "cache"
    /\ CacheStep \/ (now < StoreHorizon /\ CacheTick)
    /\ fetches'[1].page \in {"none", FirstPage}
    /\ UNCHANGED <<plugin, idemVars, sessionVars, rateVars>>

RateLimitNext ==
    /\ plugin = "ratelimiter"
    /\ \/ RateLimitStep
       \/ (now < StoreHorizon \/ backend = "memcached") /\ RateLimitTick
    /\ UNCHANGED <<plugin, idemVars, sessionVars, cacheVars>>

Next == IdempotencyNext \/ SessionNext \/ CacheNext \/ RateLimitNext

Spec == Init /\ [][Next]_mcVars

=============================================================================
