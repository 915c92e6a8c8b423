---------------------------- MODULE Idempotency ----------------------------
(***************************************************************************)
(* The idempotency plugin: its preHandler and onSend hooks around a        *)
(* handler, over the in-process MemoryStore or over a shared store (Redis, *)
(* memcached), whose operations take turns with those of other requests.   *)
(* A stored response is named by the request that produced it.             *)
(***************************************************************************)
EXTENDS TtlMap

CONSTANTS
    IdemKeys, Prints,   \* Idempotency-Key values and request fingerprints
    MaxRetries,         \* bound: requests of a run, numbered as they arrive
    LockTtl, RecordTtl,
    IdemMaxKeys         \* maxKeys of the MemoryStore

ASSUME IdempotencyAssumption ==
    MaxRetries \in Nat /\ LockTtl \in Nat /\ RecordTtl \in Nat /\ IdemMaxKeys \in Nat \ {0}

VARIABLES
    shared,    \* a shared store, or the MemoryStore
    slots,     \* the store, in the order of insertion of a Map
    retries    \* the requests

idemVars == <<shared, slots, retries>>

Pending == 0            \* the record of a reservation
Retries == 1..MaxRetries

(* A request: where it is, what it asks, whether it owns a reservation (the *)
(* WeakMap), and, as history, when it began, whether it outlived its lock   *)
(* before it finished and whether its slot was evicted.                     *)
Unsent == [st |-> "unsent", key |-> "none", print |-> "none", since |-> 0, done |-> 0,
           from |-> 0, over |-> FALSE, evicted |-> FALSE]

IdempotencyInit ==
    /\ shared \in BOOLEAN
    /\ slots = <<>>
    /\ retries = [r \in Retries |-> Unsent]

-----------------------------------------------------------------------------
(* The stores.                                                             *)

(* What a look at key k finds, for a request with fingerprint p. *)
Found(k, p) ==
    LET s == EntryOf(slots, k) IN
    IF s.print # p THEN "mismatch" ELSE IF s.rec = Pending THEN "in-flight" ELSE "replay"

Begin(k, p) ==
    IF HoldsLive(slots, k) THEN Found(k, p) ELSE "new"

(* A reservation is written; the MemoryStore makes room for it first. *)
Reserve(k, p) ==
    Put(IF shared THEN Unexpired(slots) ELSE MakeRoom(slots, IdemMaxKeys),
            [key |-> k, print |-> p, rec |-> Pending, exp |-> now + LockTtl])

CompleteSlot(k, p, r) ==
    Put(slots, [key |-> k, print |-> p, rec |-> r, exp |-> now + RecordTtl])

-----------------------------------------------------------------------------
(* The preHandler hook.                                                    *)

NextRetry(r) == retries[r].st = "unsent" /\ \A q \in Retries : q < r => retries[q].st # "unsent"

(* The requests that lose a live slot of theirs when the slots become ss. *)
EvictedBy(ss) ==
    {q \in Retries :
        /\ retries[q].st \in {"running", "failing", "storing", "stored"}
        /\ HoldsLive(slots, retries[q].key)
        /\ ~Holds(ss, retries[q].key)}

Enter(r, k, p, st) ==
    retries' = [q \in Retries |->
        IF q = r THEN [Unsent EXCEPT !.st = st, !.key = k, !.print = p,
                                     !.since = IF st \in {"running", "looking"} THEN now ELSE 0,
                                     !.from = IF st = "replay" THEN EntryOf(slots, k).rec ELSE 0]
        ELSE IF q \in EvictedBy(slots') THEN [retries[q] EXCEPT !.evicted = TRUE]
        ELSE retries[q]]

(* begin: the key is reserved (at once, or by SET NX / add)... *)
BeginNew(r, k, p) ==
    /\ NextRetry(r)
    /\ Begin(k, p) = "new"
    /\ slots' = Reserve(k, p)
    /\ Enter(r, k, p, "running")
    /\ UNCHANGED <<now, shared>>

(* ... or the MemoryStore has an answer at once ... *)
BeginFound(r, k, p) ==
    /\ NextRetry(r)
    /\ ~shared
    /\ Begin(k, p) # "new"
    /\ UNCHANGED slots
    /\ Enter(r, k, p, Begin(k, p))
    /\ UNCHANGED <<now, shared>>

(* ... or the shared store refuses, and is then asked what it holds. *)
BeginRefused(r, k, p) ==
    /\ NextRetry(r)
    /\ shared
    /\ Begin(k, p) # "new"
    /\ UNCHANGED slots
    /\ Enter(r, k, p, "looking")
    /\ UNCHANGED <<now, shared>>

(* The GET after a refused SET NX.  A slot that is gone by then counts as  *)
(* "new", although nothing has been reserved.                              *)
BeginLook(r) ==
    /\ retries[r].st = "looking"
    /\ LET k == retries[r].key
           found == Begin(k, retries[r].print)
       IN retries' = [retries EXCEPT
              ![r].st = IF found = "new" THEN "running" ELSE found,
              ![r].since = IF found = "new" THEN now ELSE 0,
              ![r].from = IF found = "replay" THEN EntryOf(slots, k).rec ELSE 0]
    /\ UNCHANGED <<now, shared, slots>>

-----------------------------------------------------------------------------
(* The handler and the onSend hook.                                        *)

(* The handler answers, with a server error or with a response to keep. *)
HandlerAnswers(r, st) ==
    /\ retries[r].st = "running"
    /\ retries' = [retries EXCEPT ![r].st = st]
    /\ UNCHANGED <<now, shared, slots>>

(* The handler throws: no onSend hook runs and the lock is left to expire. *)
HandlerThrows(r) ==
    /\ retries[r].st = "running"
    /\ retries' = [retries EXCEPT ![r].st = "thrown", ![r].since = 0]
    /\ UNCHANGED <<now, shared, slots>>

Finish(r, st) ==
    /\ retries' = [retries EXCEPT ![r].st = st, ![r].since = 0,
                                  ![r].done = IF st = "stored" THEN now ELSE 0,
                                  ![r].over = now >= retries[r].since + LockTtl]
    /\ UNCHANGED <<now, shared>>

(* A server error leaves the key free for a retry; release may fail, and   *)
(* then the lock's TTL frees it.                                           *)
Release(r) ==
    /\ retries[r].st = "failing"
    /\ \/ slots' = Without(slots, retries[r].key)
       \/ shared /\ UNCHANGED slots
    /\ Finish(r, "failed")

(* Any other response is stored. *)
CompleteLocks(r) ==                                      \* seeded fault
    /\ retries[r].st = "storing"
    /\ slots' = Put(slots, [key |-> retries[r].key, print |-> retries[r].print,
                                rec |-> r, exp |-> now + LockTtl])
    /\ Finish(r, "stored")
Complete(r) ==
    /\ retries[r].st = "storing"
    /\ slots' = CompleteSlot(retries[r].key, retries[r].print, r)
    /\ Finish(r, "stored")

(* The store's write fails: the key is released, if that succeeds. *)
CompleteFails(r) ==
    /\ shared
    /\ retries[r].st = "storing"
    /\ \/ slots' = Without(slots, retries[r].key)
       \/ UNCHANGED slots
    /\ Finish(r, "failed")

(* The MemoryStore's periodic sweep. *)
EvictExpired ==
    /\ ~shared
    /\ slots # Unexpired(slots)
    /\ slots' = Unexpired(slots)
    /\ UNCHANGED <<now, shared, retries>>

IdempotencyStep ==
    \/ \E r \in Retries :
        \/ \E k \in IdemKeys, p \in Prints :
               BeginNew(r, k, p) \/ BeginFound(r, k, p) \/ BeginRefused(r, k, p)
        \/ BeginLook(r)
        \/ \E st \in {"failing", "storing"} : HandlerAnswers(r, st)
        \/ HandlerThrows(r)
        \/ Release(r) \/ Complete(r) \/ CompleteFails(r)
    \/ EvictExpired

IdempotencyTick == Tick /\ UNCHANGED idemVars

IdempotencySpec ==
    /\ ClockInit /\ IdempotencyInit
    /\ [][IdempotencyStep \/ IdempotencyTick]_<<now, idemVars>>

-----------------------------------------------------------------------------

Slot == [key : IdemKeys, print : Prints, rec : 0..MaxRetries, exp : Nat]

IdempotencyTypeOK ==
    /\ shared \in BOOLEAN
    /\ slots \in Seq(Slot)
    /\ KeysUnique(slots)

Executing == {"running", "failing", "storing"}

(* A request whose key is no longer protected by what it reserved: it      *)
(* outlived its lock, or the full MemoryStore dropped its reservation.     *)
Unprotected(r) ==
    \/ retries[r].over \/ retries[r].evicted
    \/ retries[r].st \in Executing /\ now >= retries[r].since + LockTtl

(* store.ts 17-26: two concurrent requests with one key do not both run,   *)
(* whatever releases, server errors, throws and expiries come in between,  *)
(* as long as no handler of the key outlives its lock, and the store is    *)
(* the MemoryStore with room.                                              *)
OneRunner ==
    \A r, q \in Retries :
        /\ ~shared /\ r # q
        /\ retries[r].st \in Executing /\ retries[q].st \in Executing
        /\ retries[r].key = retries[q].key
        => \E u \in Retries : retries[u].key = retries[r].key /\ Unprotected(u)

(* idempotency.ts 26-32: a key whose response was stored does not run      *)
(* again while the record lives.  Exempt are keys of which some handler    *)
(* outlived its lock (its release or its response replaces the record) or  *)
(* some slot was evicted; a shared store is held to it as long as no       *)
(* request read a slot that had just gone and no request of the key failed *)
(* (its release may come late).                                            *)
SuccessIsFinal ==
    [][\A r, q \in Retries :
          /\ retries[r].st \notin Executing /\ retries'[r].st = "running"
          /\ retries[q].st = "stored" /\ retries[q].key = retries'[r].key
          /\ now < retries[q].done + RecordTtl
          => \/ \E u \in Retries :
                    /\ retries[u].key = retries'[r].key
                    /\ Unprotected(u) \/ (shared /\ retries[u].st = "failed")
             \/ retries[r].st = "looking"]_<<now, idemVars>>

(* A replayed response was produced by a run of the very same request: the *)
(* key and the parameters agree, and it was neither an error nor a run     *)
(* that threw.                                                             *)
ReplayIsTheAnswer ==
    \A r \in Retries :
        retries[r].st = "replay" =>
            LET q == retries[r].from IN
            /\ q # Pending
            /\ retries[q].st = "stored"
            /\ retries[q].key = retries[r].key /\ retries[q].print = retries[r].print

(* The plugin's promise: one key runs once while its reservation lives, and *)
(* what is replayed is the answer of that run (idempotency.ts, store.ts).   *)
IdempotencyCorrect ==
    [](IdempotencyTypeOK /\ OneRunner /\ ReplayIsTheAnswer) /\ SuccessIsFinal
=============================================================================
