--------------------------- MODULE SessionPlugin ---------------------------
(***************************************************************************)
(* The session plugin: load at onRequest, the handler's calls on the       *)
(* session object, save at onSend.  Several requests may be under way with *)
(* the id of one session, each with its own copy of the data.  A session's *)
(* data is the set of the requests whose set() it contains.                *)
(***************************************************************************)
EXTENDS TtlMap

CONSTANTS
    MaxVisits,        \* bound: requests of a run, numbered as they arrive
    SessionTtl,       \* maxAge
    SessionMaxKeys    \* maxKeys of the MemoryStore

ASSUME SessionAssumption ==
    MaxVisits \in Nat /\ SessionTtl \in Nat \ {0} /\ SessionMaxKeys \in Nat \ {0}

VARIABLES
    rolling,     \* the option
    sessions,    \* the store
    visits       \* the requests and their session objects

sessionVars == <<rolling, sessions, visits>>

Visits == 1..MaxVisits
NoId == 0
LoadedId(v) == 2 * v - 1       \* newSessionId() of a visit's load ...
RotatedId(v) == 2 * v          \* ... and of its regenerate()
SessionIds == 1..2 * MaxVisits

(* A visit's StoredSession (id to data), and as history: whether another   *)
(* visit was under way on the same session (shared), where its set() went  *)
(* (wrote) and what it deleted.                                            *)
Absent == [st |-> "absent", id |-> NoId, loaded |-> FALSE, oldId |-> NoId, dirty |-> FALSE,
           destroyed |-> FALSE, data |-> {}, shared |-> FALSE, wrote |-> NoId, deleted |-> {}]

SessionInit ==
    /\ rolling \in BOOLEAN
    /\ sessions = <<>>
    /\ visits = [v \in Visits |-> Absent]

-----------------------------------------------------------------------------

UnderWay(v) == visits[v].st \in {"handling", "saving"}
NextVisit(v) == visits[v].st = "absent" /\ \A u \in Visits : u < v => visits[u].st # "absent"

(* The ids a client may present: the ones a response's cookie has named.   *)
KnownIds == {e.id : e \in {visits[v] : v \in {u \in Visits : visits[u].st = "cookie"}}}

(* load: the session of the cookie's id, if the store has it, or a new one. *)
Load(v, sid) ==
    /\ NextVisit(v)
    /\ LET found == HoldsLive(sessions, sid)
           id == IF found THEN sid ELSE LoadedId(v)
           same == {u \in Visits : UnderWay(u) /\ id \in {visits[u].id, visits[u].oldId}}
       IN
       /\ visits' = [u \in Visits |->
              IF u = v
              THEN [Absent EXCEPT !.st = "handling", !.id = id, !.loaded = found,
                                  !.data = IF found THEN EntryOf(sessions, sid).data ELSE {},
                                  !.shared = same # {}]
              ELSE IF u \in same THEN [visits[u] EXCEPT !.shared = TRUE] ELSE visits[u]]
       (* get() deletes an entry it finds expired *)
       /\ sessions' = IF found THEN sessions ELSE Without(sessions, sid)
    /\ UNCHANGED <<now, rolling>>

(* session.set() *)
SetKey(v) ==
    /\ visits[v].st = "handling"
    /\ visits' = [visits EXCEPT ![v].data = @ \cup {v}, ![v].dirty = TRUE,
                                ![v].deleted = @ \ {v},
                                ![v].wrote = visits[v].id]
    /\ UNCHANGED <<now, rolling, sessions>>

(* session.delete() of a key the session has *)
DeleteKey(v, u) ==
    /\ visits[v].st = "handling"
    /\ u \in visits[v].data
    /\ visits' = [visits EXCEPT ![v].data = @ \ {u}, ![v].dirty = TRUE,
                                ![v].deleted = @ \cup {u},
                                ![v].wrote = IF u = v THEN NoId ELSE @]
    /\ UNCHANGED <<now, rolling, sessions>>

(* session.regenerate(): a fresh id, no data; the stored session is        *)
(* dropped at once, unless the store fails to.                             *)
Regenerate(v) ==
    /\ visits[v].st = "handling"
    /\ LET drop == visits[v].oldId = NoId /\ visits[v].loaded IN
       /\ visits' = [visits EXCEPT
              ![v].oldId = IF drop THEN visits[v].id ELSE @,
              ![v].id = RotatedId(v), ![v].data = {}, ![v].dirty = TRUE, ![v].wrote = NoId]
       /\ \/ sessions' = IF drop THEN Without(sessions, visits[v].id) ELSE sessions
          \/ UNCHANGED sessions
    /\ UNCHANGED <<now, rolling>>

(* session.destroy() *)
DestroySession(v) ==
    /\ visits[v].st = "handling"
    /\ ~visits[v].destroyed
    /\ visits' = [visits EXCEPT ![v].destroyed = TRUE, ![v].dirty = FALSE]
    /\ UNCHANGED <<now, rolling, sessions>>

(* The handler throws, so that no onSend hook runs, or a call that save     *)
(* makes on the store is rejected: no more is stored, and no cookie set.   *)
VisitFails(v) ==
    /\ UnderWay(v)
    /\ visits' = [visits EXCEPT ![v] = [Absent EXCEPT !.st = "failed"]]
    /\ UNCHANGED <<now, rolling, sessions>>

(* save, its first await: the session that regenerate() replaced is dropped. *)
SaveStarts(v) ==
    /\ visits[v].st = "handling"
    /\ visits' = [visits EXCEPT ![v].st = "saving"]
    /\ sessions' = IF visits[v].oldId # NoId THEN Without(sessions, visits[v].oldId) ELSE sessions
    /\ UNCHANGED <<now, rolling>>

(* MemoryStore.set *)
Stored(id, data) ==
    Put(IF Holds(sessions, id) THEN sessions ELSE MakeRoom(sessions, SessionMaxKeys),
        [key |-> id, data |-> data, exp |-> now + SessionTtl])

(* The response goes out, with a cookie that names the session or without. *)
Leaves(v, cookie) ==
    visits' = [visits EXCEPT ![v] =
        [Absent EXCEPT !.st = IF cookie THEN "cookie" ELSE "over",
                       !.id = IF cookie THEN visits[v].id ELSE NoId,
                       !.shared = visits[v].shared, !.wrote = visits[v].wrote,
                       !.destroyed = visits[v].destroyed]]

(* save of a destroyed session: dropped, and the cookie cleared *)
SaveDestroyed(v) ==
    /\ visits[v].st = "saving"
    /\ visits[v].destroyed
    /\ sessions' = IF visits[v].loaded THEN Without(sessions, visits[v].id) ELSE sessions
    /\ Leaves(v, FALSE)
    /\ UNCHANGED <<now, rolling>>

MustStoreNew(s) == (s.dirty /\ ~s.loaded) \/ (rolling /\ s.loaded)   \* seeded fault
MustStore(s) == s.dirty \/ (rolling /\ s.loaded)

(* save of a session that has nothing to store *)
SaveClean(v) ==
    /\ visits[v].st = "saving"
    /\ ~visits[v].destroyed /\ ~MustStore(visits[v])
    /\ Leaves(v, FALSE)
    /\ UNCHANGED <<now, rolling, sessions>>

(* save: the request's copy replaces what the store has *)
SaveStores(v) ==
    /\ visits[v].st = "saving"
    /\ ~visits[v].destroyed /\ MustStore(visits[v])
    /\ sessions' = Stored(visits[v].id, visits[v].data)
    /\ Leaves(v, ~visits[v].loaded \/ visits[v].oldId # NoId \/ rolling)
    /\ UNCHANGED <<now, rolling>>

(* the sweep *)
SessionSweep ==
    /\ sessions # Unexpired(sessions)
    /\ sessions' = Unexpired(sessions)
    /\ UNCHANGED <<now, rolling, visits>>

SessionStep ==
    \/ \E v \in Visits :
        \/ \E sid \in KnownIds \cup {NoId} : Load(v, sid)
        \/ SetKey(v) \/ Regenerate(v) \/ DestroySession(v)
        \/ \E u \in Visits : DeleteKey(v, u)
        \/ VisitFails(v)
        \/ SaveStarts(v) \/ SaveDestroyed(v) \/ SaveClean(v) \/ SaveStores(v)
    \/ SessionSweep

SessionTick == Tick /\ UNCHANGED sessionVars

SessionSpec ==
    /\ ClockInit /\ SessionInit
    /\ [][SessionStep \/ SessionTick]_<<now, sessionVars>>

-----------------------------------------------------------------------------

SessionTypeOK ==
    /\ rolling \in BOOLEAN
    /\ sessions \in Seq([key : SessionIds, data : SUBSET Visits, exp : Nat])
    /\ KeysUnique(sessions) /\ Len(sessions) <= SessionMaxKeys
    /\ \A v \in Visits : visits[v].id \in SessionIds \cup {NoId} /\ visits[v].data \subseteq Visits

(* session.ts 12: regenerate() after a login stops fixation.  Whatever     *)
(* other requests save at the same time, a value lives under the id of the *)
(* session it was set in and under no other: what a request sets after     *)
(* regenerate() is never readable under an id known before.                *)
NoFixation ==
    \A i \in 1..Len(sessions) : \A v \in sessions[i].data : visits[v].wrote = sessions[i].key

(* plugin.ts 57-92: requests of one session that do not overlap lose       *)
(* nothing: a stored session has every value set in it by a request that   *)
(* was alone with the session, unless somebody else deleted it.  (Requests *)
(* that overlap do lose updates, also to a reader when rolling is on.)     *)
SerialWritesKept ==
    [][\A v \in Visits, id \in SessionIds :
          id = visits[v].id /\ visits[v].st = "saving" /\ visits'[v].st \in {"cookie", "over"}
          /\ ~visits[v].destroyed /\ ~visits[v].shared
          => /\ visits[v].wrote = id =>
                    HoldsLive(sessions, id)' /\ v \in EntryOf(sessions, id)'.data
             /\ HoldsLive(sessions, id) =>
                    EntryOf(sessions, id).data \ EntryOf(sessions, id)'.data
                        \subseteq visits[v].deleted
      ]_<<now, sessionVars>>

(* What a session holds is what its own requests set, under its own id, for *)
(* every order of loads, regenerations, destructions and saves (plugin.ts). *)
SessionCorrect == [](SessionTypeOK /\ NoFixation) /\ SerialWritesKept
=============================================================================
