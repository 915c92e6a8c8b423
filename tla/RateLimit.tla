----------------------------- MODULE RateLimit -----------------------------
(***************************************************************************)
(* The fixed-window rate limiters: the rateLimit middleware (udpRateLimit  *)
(* and tcpRateLimit decide in the same way) over its MemoryStore, Redis or *)
(* memcached, and the engine's native limiter.  A bucket is an entry       *)
(* [key, count, exp]; the native limiter's window_start is exp - WindowLen.*)
(* A bucket lives for the configured window, except in memcached, which    *)
(* counts time in whole seconds and takes at most thirty days of them.     *)
(***************************************************************************)
EXTENDS TtlMap, FiniteSets

CONSTANTS
    Peers,            \* bucket keys
    MaxHits,          \* bound: requests of a run, numbered as they arrive
    Budget,           \* max
    WindowLen,        \* windowMs
    Second, MaxTtl,   \* memcached: the clock's steps in a second, MAX_TTL_SECONDS
    BucketMax         \* maxKeys of the MemoryStore and of the native limiter

ASSUME RateLimitAssumption ==
    /\ MaxHits \in Nat /\ Budget \in Nat \ {0} /\ WindowLen \in Nat \ {0}
    /\ Second \in Nat \ {0} /\ MaxTtl \in Nat \ {0} /\ BucketMax \in Nat \ {0}

VARIABLES
    backend,     \* "memory", "redis", "memcached" or "native"
    failClosed,  \* onStoreError = "closed"
    buckets,     \* the store
    hits,        \* the requests: whose, when decided, with what verdict
    lastSweep    \* native: last_sweep

rateVars == <<backend, failClosed, buckets, hits, lastSweep>>

Hits == 1..MaxHits
Unmade == [st |-> "unmade", peer |-> "none", at |-> 0, read |-> 0,
           metered |-> TRUE]

RateLimitInit ==
    /\ backend \in {"memory", "redis", "memcached", "native"}
    /\ failClosed \in BOOLEAN
    /\ buckets = <<>>
    /\ hits = [h \in Hits |-> Unmade]
    /\ lastSweep = 0

-----------------------------------------------------------------------------

NextHit(h) == hits[h].st = "unmade" /\ \A g \in Hits : g < h => hits[g].st # "unmade"

(* The TTL of MemcachedStore: min(MAX_TTL_SECONDS, max(1, ceil(windowMs / 1000))). *)
KeyLife ==
    LET ceil == (WindowLen + Second - 1) \div Second
        secs == IF ceil > 1 THEN ceil ELSE 1
    IN  Second * (IF secs < MaxTtl THEN secs ELSE MaxTtl)

(* How long a bucket of the store lives: its window. *)
Life(store) == IF store = "memcached" THEN KeyLife ELSE WindowLen

Fresh(p, at) == [key |-> p, count |-> 1, exp |-> at + Life(backend)]

Counted(p) == [EntryOf(buckets, p) EXCEPT !.count = @ + 1]

(* A hit's verdict, given the time read.  metered is history: FALSE for a  *)
(* hit that no bucket stands for, or whose live bucket has been evicted.   *)
VerdictOn(h, p, st, read, metered) ==
    hits' = [g \in Hits |->
        IF g = h THEN [st |-> st, peer |-> p, at |-> now, read |-> read, metered |-> metered]
        ELSE IF /\ hits[g].st # "unmade"
                /\ HoldsLive(buckets, hits[g].peer)
                /\ ~\E i \in 1..Len(buckets') : buckets'[i].key = hits[g].peer
             THEN [hits[g] EXCEPT !.metered = FALSE] ELSE hits[g]]

Verdict(h, p, st, metered) == VerdictOn(h, p, st, now, metered)

(* ... on a hit that made the bucket's count n *)
Decide(h, p, n) == Verdict(h, p, IF n > Budget THEN "blocked" ELSE "passed", TRUE)

(* MemoryStore.hit, and the hit script of the RedisStore (its server drops *)
(* what has expired and has no ceiling).                                   *)
HitStale(h, p) ==                                        \* seeded fault
    /\ backend \in {"memory", "redis"} /\ NextHit(h) /\ Holds(buckets, p)
    /\ buckets' = Put(buckets, Counted(p))
    /\ Decide(h, p, Counted(p).count)
    /\ UNCHANGED <<now, backend, failClosed, lastSweep>>
HitCounted(h, p) ==
    /\ backend \in {"memory", "redis"}
    /\ NextHit(h)
    /\ HoldsLive(buckets, p)
    /\ buckets' = Put(buckets, Counted(p))
    /\ Decide(h, p, Counted(p).count)
    /\ UNCHANGED <<now, backend, failClosed, lastSweep>>

HitFresh(h, p) ==
    /\ backend \in {"memory", "redis"}
    /\ NextHit(h)
    /\ ~HoldsLive(buckets, p)
    /\ buckets' = Put(IF backend = "memory" THEN MakeRoom(buckets, BucketMax)
                      ELSE Unexpired(buckets), Fresh(p, now))
    /\ Decide(h, p, 1)
    /\ UNCHANGED <<now, backend, failClosed, lastSweep>>

(* MemcachedStore.hit: add, which starts a window ... *)
MemcachedAdd(h, p) ==
    /\ backend = "memcached"
    /\ NextHit(h)
    /\ IF HoldsLive(buckets, p)
       THEN /\ hits' = [hits EXCEPT ![h] = [Unmade EXCEPT !.st = "adding", !.peer = p]]
            /\ UNCHANGED buckets
       ELSE /\ buckets' = Put(Unexpired(buckets), Fresh(p, now))
            /\ Decide(h, p, 1)
    /\ UNCHANGED <<now, backend, failClosed, lastSweep>>

(* ... or, when there is one, incr; if that window has ended by then, the  *)
(* hit passes uncounted.                                                   *)
MemcachedIncr(h) ==
    /\ hits[h].st = "adding"
    /\ LET p == hits[h].peer IN
       IF HoldsLive(buckets, p)
       THEN buckets' = Put(buckets, Counted(p)) /\ Decide(h, p, Counted(p).count)
       ELSE UNCHANGED buckets /\ Verdict(h, p, "passed", FALSE)
    /\ UNCHANGED <<now, backend, failClosed, lastSweep>>

(* The shared store is down, for the first call of a hit or for the incr   *)
(* after memcached's add: the policy decides.                              *)
StoreFails(h, p) ==
    /\ backend \in {"redis", "memcached"}
    /\ NextHit(h) \/ (hits[h].st = "adding" /\ hits[h].peer = p)
    /\ UNCHANGED buckets
    /\ Verdict(h, p, IF failClosed THEN "refused" ELSE "passed", FALSE)
    /\ UNCHANGED <<now, backend, failClosed, lastSweep>>

(* The periodic sweep of the MemoryStore; the native limiter's sweep, of   *)
(* the timer or on the accept path.                                        *)
SweepBuckets ==
    /\ backend \in {"memory", "native"}
    /\ buckets # Unexpired(buckets)
    /\ buckets' = Unexpired(buckets)
    /\ UNCHANGED <<now, backend, failClosed, hits, lastSweep>>

-----------------------------------------------------------------------------
(* The native limiter.  It is given conn.last_read for the time, which is  *)
(* older than the clock for requests that waited in the connection's       *)
(* buffer while an earlier one was being handled.                          *)


(* now - window_start >= window_ms.  The subtraction is unsigned and       *)
(* unchecked (ReleaseFast): with a time before the window began it wraps,  *)
(* and the outcome is left open.                                           *)
WindowOver(b, at) ==
    IF at < b.exp - WindowLen THEN BOOLEAN ELSE {at >= b.exp}

SweepDue(p, at) ==
    /\ ~Holds(buckets, p) /\ Len(buckets) >= BucketMax
    /\ at < lastSweep \/ at - lastSweep >= WindowLen

(* The table after maybeSweep, which runs when it is full and at most once *)
(* per window: what it may look like.                                      *)
NativeTables(p, at) ==
    IF ~SweepDue(p, at) THEN {buckets}
    ELSE {Picked(buckets, {i \in 1..Len(buckets) : buckets[i].key \in kept}) :
              kept \in {K \in SUBSET Peers : \A i \in 1..Len(buckets) :
                           (buckets[i].key \notin K) \in WindowOver(buckets[i], at)}}

NativeHitAfter(table, h, p, at) ==
    LET b == EntryOf(table, p)
        verdict(st, metered) == VerdictOn(h, p, st, at, metered /\ at = now)
    IN
    \/ /\ ~Holds(table, p) /\ Len(table) >= BucketMax     \* full: not tracked
       /\ buckets' = table
       /\ verdict("passed", FALSE)
    \/ /\ IF Holds(table, p) THEN TRUE \in WindowOver(b, at) ELSE Len(table) < BucketMax
       /\ buckets' = Put(table, Fresh(p, at))
       /\ verdict("passed", TRUE)
    \/ /\ Holds(table, p) /\ FALSE \in WindowOver(b, at)
       /\ IF b.count >= Budget
          THEN buckets' = table /\ verdict("blocked", TRUE)
          ELSE /\ buckets' = Put(table, [b EXCEPT !.count = @ + 1])
               /\ verdict("passed", TRUE)

NativeHit(h, p, at) ==
    /\ backend = "native"
    /\ NextHit(h)
    /\ at = now \/ \E g \in Hits :      \* it waited behind an earlier request of its read
           hits[g].st = "passed" /\ hits[g].peer = p /\ hits[g].read = at
    /\ \E table \in NativeTables(p, at) : NativeHitAfter(table, h, p, at)
    /\ lastSweep' = IF SweepDue(p, at) THEN at ELSE lastSweep
    /\ UNCHANGED <<now, backend, failClosed>>

RateLimitStep ==
    \/ \E h \in Hits :
        \/ \E p \in Peers :
            \/ HitCounted(h, p) \/ HitFresh(h, p)
            \/ MemcachedAdd(h, p) \/ StoreFails(h, p)
            \/ \E at \in 0..now : NativeHit(h, p, at)
        \/ MemcachedIncr(h)
    \/ SweepBuckets

RateLimitTick == Tick /\ UNCHANGED rateVars

RateLimitSpec ==
    /\ ClockInit /\ RateLimitInit
    /\ [][RateLimitStep \/ RateLimitTick]_<<now, rateVars>>

-----------------------------------------------------------------------------

RateLimitTypeOK ==
    /\ buckets \in Seq([key : Peers, count : Nat \ {0}, exp : Nat])
    /\ KeysUnique(buckets)
    /\ backend \in {"memory", "native"} => Len(buckets) <= BucketMax
    /\ backend = "native" => \A i \in 1..Len(buckets) : buckets[i].count <= Budget
    /\ lastSweep \in 0..MaxTime

(* The verdicts st on p of the last window. *)
Lately(p, st) ==
    {h \in Hits : hits[h].st \in st /\ hits[h].peer = p /\ now - hits[h].at < Life(backend)}

(* A fixed window lets a burst through at the end of one window and the    *)
(* next at the start of the following, and no more: in any stretch as long *)
(* as the store's window at most twice the budget passes, unless a hit was *)
(* let through uncounted (store down, key table full, bucket evicted).     *)
(* Over memcached that is not quite the configured window: it is a fraction*)
(* of a second longer, or, above thirty days, shorter.                     *)
TwiceTheBudget ==
    \A p \in Peers :
        (\A h \in Hits : hits[h].peer = p => hits[h].metered)
        => Cardinality(Lately(p, {"passed"})) <= 2 * Budget

(* An innocent client is never blocked: whoever is blocked by a count has  *)
(* made at least Budget other requests within the store's last window,     *)
(* blocked ones included.  (A native hit with an old time is exempt; over  *)
(* memcached, a client that kept to the budget of each configured window   *)
(* may be blocked, for the rest of the second.)                            *)
BlockIsEarned ==
    [][\A h \in Hits :
          hits[h].st \in {"unmade", "adding"} /\ hits'[h].st = "blocked"
             /\ hits'[h].metered
          => Cardinality({g \in Hits \ {h} :
                 hits[g].peer = hits'[h].peer /\ now - hits[g].at < Life(backend)
                 /\ hits[g].st \in {"passed", "blocked"}}) >= Budget]_<<now, rateVars>>

(* A client that keeps knocking does not keep itself locked out: no hit    *)
(* moves the end of a window that has not ended.                           *)
WindowEnds ==
    [][backend # "native" =>
          \A p \in Peers :
             HoldsLive(buckets, p) /\ Holds(buckets, p)'
             => EntryOf(buckets', p).exp = EntryOf(buckets, p).exp]_<<now, rateVars>>

(* The limiters let through at most twice the budget in one window's time,  *)
(* block nobody who has not earned it, and for no longer than their window. *)
RateLimitCorrect ==
    [](RateLimitTypeOK /\ TwiceTheBudget) /\ BlockIsEarned /\ WindowEnds
=============================================================================
