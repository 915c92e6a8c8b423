----------------------------- MODULE HttpCache -----------------------------
(***************************************************************************)
(* The cache plugin: a look-up at preHandler, a store at onSend, and the   *)
(* LRU MemoryStore.  Responses to several requests for a page may be under *)
(* way at once; an entry is named by the request that stored it.           *)
(***************************************************************************)
EXTENDS TtlMap

CONSTANTS
    Pages,            \* what defaultKey() tells apart
    MaxFetches,       \* bound: requests of a run, numbered as they arrive
    CacheTtl, CacheMax

ASSUME CacheAssumption ==
    MaxFetches \in Nat /\ CacheTtl \in Nat /\ CacheMax \in Nat \ {0}

VARIABLES
    entries,    \* the store, least recently used first
    fetches,    \* the requests
    recency     \* history: the pages, in the order of their last get or set

cacheVars == <<entries, fetches, recency>>

Fetches == 1..MaxFetches

(* A request: its page, whether it bypasses the cache, what the handler    *)
(* answered, and for a hit the request whose response was replayed.        *)
NotFetched == [st |-> "none", page |-> "none", bypass |-> FALSE,
               shareable |-> FALSE, from |-> 0, at |-> 0]

CacheInit ==
    /\ entries = <<>>
    /\ fetches = [f \in Fetches |-> NotFetched]
    /\ recency = <<>>

-----------------------------------------------------------------------------

NextFetch(f) == fetches[f].st = "none" /\ \A g \in Fetches : g < f => fetches[g].st # "none"
Touch(p) == recency' = Append(Picked(recency, {i \in 1..Len(recency) : recency[i] # p}), p)

(* A hit is bumped to the newest place and replayed. *)
Hit(f, p) ==
    /\ NextFetch(f)
    /\ HoldsLive(entries, p)
    /\ entries' = Append(Without(entries, p), EntryOf(entries, p))
    /\ fetches' = [fetches EXCEPT ![f] = [NotFetched EXCEPT
           !.st = "hit", !.page = p, !.from = EntryOf(entries, p).by, !.at = now]]
    /\ Touch(p)
    /\ UNCHANGED now

(* A miss, also of an expired entry, which goes; a bypass does not look. *)
Miss(f, p, bypass) ==
    /\ NextFetch(f)
    /\ bypass \/ ~HoldsLive(entries, p)
    /\ entries' = IF bypass THEN entries ELSE Without(entries, p)
    /\ fetches' = [fetches EXCEPT ![f] =
           [NotFetched EXCEPT !.st = "handling", !.page = p, !.bypass = bypass]]
    /\ UNCHANGED <<now, recency>>

(* The handler's response: shareable when its status is a cacheable one    *)
(* and it is not marked private, no-store or no-cache.                     *)
HandlerResponds(f, shareable) ==
    /\ fetches[f].st = "handling"
    /\ fetches' = [fetches EXCEPT ![f].st = "sending", ![f].shareable = shareable]
    /\ UNCHANGED <<now, entries, recency>>

(* MemoryStore.set: the newest place, and the oldest entry goes past max. *)
Kept(p, f) ==
    LET m == Append(Without(entries, p), [key |-> p, by |-> f, exp |-> now + CacheTtl]) IN
    IF Len(m) > CacheMax THEN Tail(m) ELSE m

StoreableWhenOk(f) == fetches[f].shareable               \* seeded fault
Storeable(f) == fetches[f].shareable /\ ~fetches[f].bypass

(* onSend: the response is stored, or the store fails and it is not. *)
SendStored(f) ==
    /\ fetches[f].st = "sending"
    /\ Storeable(f)
    /\ entries' = Kept(fetches[f].page, f)
    /\ Touch(fetches[f].page)
    /\ fetches' = [fetches EXCEPT ![f].st = "sent", ![f].at = now]
    /\ UNCHANGED now

SendUnstored(f) ==
    /\ fetches[f].st = "sending"
    /\ fetches' = [fetches EXCEPT ![f].st = "sent", ![f].at = now]
    /\ UNCHANGED <<now, entries, recency>>

(* the periodic sweep *)
EvictEntries ==
    /\ entries # Unexpired(entries)
    /\ entries' = Unexpired(entries)
    /\ UNCHANGED <<now, fetches, recency>>

CacheStep ==
    \/ \E f \in Fetches :
        \/ \E p \in Pages : Hit(f, p) \/ \E b \in BOOLEAN : Miss(f, p, b)
        \/ \E s \in BOOLEAN : HandlerResponds(f, s)
        \/ SendStored(f) \/ SendUnstored(f)
    \/ EvictEntries

CacheTick == Tick /\ UNCHANGED cacheVars

CacheSpec == ClockInit /\ CacheInit /\ [][CacheStep \/ CacheTick]_<<now, cacheVars>>

-----------------------------------------------------------------------------

CacheTypeOK ==
    /\ entries \in Seq([key : Pages, by : Fetches, exp : Nat])
    /\ KeysUnique(entries) /\ Len(entries) <= CacheMax

(* What a client gets from the cache was meant for it: the response of a   *)
(* request for the same page that neither it nor its handler wanted kept   *)
(* out of a shared cache, sent less than the TTL ago.  Nothing can be      *)
(* replayed from a replay, so that an entry cannot outlive its TTL by      *)
(* being hit.                                                              *)
HitIsShareable ==
    \A f \in Fetches :
        fetches[f].st = "hit" =>
            LET g == fetches[f].from IN
            /\ fetches[g].st = "sent"
            /\ fetches[g].page = fetches[f].page
            /\ fetches[g].shareable /\ ~fetches[g].bypass
            /\ fetches[f].at - fetches[g].at < CacheTtl

(* What stays in a full cache is what was used last: the entries' order is *)
(* that of their last use, so the one that goes first is the one unused    *)
(* for longest.                                                            *)
LruOrder ==
    \A i, j \in 1..Len(entries) : i < j =>
        \E a, b \in 1..Len(recency) :
            a < b /\ recency[a] = entries[i].key /\ recency[b] = entries[j].key

(* The cache gives out only what may be shared, for as long as it may, and  *)
(* drops what was used least recently (cache.ts, store.ts).                 *)
CacheCorrect == CacheTypeOK /\ HitIsShareable /\ LruOrder
=============================================================================
