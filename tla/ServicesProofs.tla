-------------------------- MODULE ServicesProofs ---------------------------
(***************************************************************************)
(* Proofs about the parts of the library that run beside the connections.  *)
(* They share no state, so a step of one leaves the others' invariants     *)
(* alone; each part's invariant is proved from its own steps, and then     *)
(* holds in the composition that TLC checks.                               *)
(***************************************************************************)
EXTENDS MCServices, FiniteSetTheorems, WellFoundedInduction, TLAPS

(* Every step is a step of the part, or leaves it alone. *)
LEMMA EachPart ==
  [Next]_mcVars => /\ [AdmissionStep]_admissionVars
                   /\ [ReplayStep]_replayVars
                   /\ [RangeStep]_rangeVars
                   /\ [ProxyStep]_proxyVars
                   /\ [SseStep]_sseVars
                   /\ [WebSocketStep]_wsVars
                   /\ [BreakerStep \/ BreakerTick]_<<now, breakerVars>>
                   /\ [PipelineStep]_appVars
                   /\ [BootStep]_bootVars
                   /\ [RouterStep]_routerVars
<1> SUFFICES ASSUME [Next]_mcVars
             PROVE  /\ [AdmissionStep]_admissionVars
                    /\ [ReplayStep]_replayVars
                    /\ [RangeStep]_rangeVars
                    /\ [ProxyStep]_proxyVars
                    /\ [SseStep]_sseVars
                    /\ [WebSocketStep]_wsVars
                    /\ [BreakerStep \/ BreakerTick]_<<now, breakerVars>>
                    /\ [PipelineStep]_appVars
                    /\ [BootStep]_bootVars
                    /\ [RouterStep]_routerVars
  OBVIOUS
<1>1. CASE OnlyBreaker(BreakerStep) \/ OnlyBreaker(BreakerTick)
  BY <1>1 DEF OnlyBreaker, helperVars
<1>2. CASE OnlyPipeline(PipelineStep) BY <1>2 DEF OnlyPipeline, helperVars, breakerAll
<1>3. CASE OnlyWebSocket(WebSocketStep) BY <1>3 DEF OnlyWebSocket, helperVars, breakerAll
<1>4. CASE OnlySse(SseStep) BY <1>4 DEF OnlySse, helperVars, breakerAll
<1>5. CASE OnlyAdmission(AdmissionStep) BY <1>5 DEF OnlyAdmission, helperVars, breakerAll
<1>6. CASE OnlyBoot(BootStep) BY <1>6 DEF OnlyBoot, OnlyHelper, breakerAll
<1>7. CASE OnlyRouter(asked = Nothing /\ RouterStep) BY <1>7 DEF OnlyRouter, OnlyHelper, breakerAll
<1>8. CASE OnlyProxy(ProxyStep) BY <1>8 DEF OnlyProxy, OnlyHelper, breakerAll
<1>9. CASE OnlyRange(RangeStep) BY <1>9 DEF OnlyRange, OnlyHelper, breakerAll
<1>10. CASE OnlyReplay(ReplayStep) BY <1>10 DEF OnlyReplay, OnlyHelper, breakerAll
<1>11. CASE UNCHANGED mcVars BY <1>11 DEF mcVars, helperVars, breakerAll
<1> QED BY <1>1, <1>2, <1>3, <1>4, <1>5, <1>6, <1>7, <1>8, <1>9, <1>10, <1>11 DEF Next

-----------------------------------------------------------------------------
(* A connection awaiting admission: what arrived is held, or heard, or the  *)
(* connection was refused.                                                  *)

Arrivals == [n : Nat, kind : Kinds]

AdmissionInv ==
  /\ verdict \in {"pending", "admitted", "denied"}
  /\ buffering \in BOOLEAN /\ (buffering => verdict = "pending" /\ store = "async")
  /\ arrived \in Seq(Arrivals)
  /\ held = IF buffering THEN arrived ELSE <<>>
  /\ heard = IF verdict = "admitted" THEN arrived ELSE <<>>
  /\ verdict = "pending" /\ ~buffering => arrived = <<>>

LEMMA AdmissionKept == AdmissionInv /\ [AdmissionStep]_admissionVars => AdmissionInv'
<1> SUFFICES ASSUME AdmissionInv, [AdmissionStep]_admissionVars PROVE AdmissionInv'
  OBVIOUS
<1>1. CASE Accept
  <2>1. verdict = "pending" /\ ~buffering /\ UNCHANGED <<store, held, arrived, heard>>
    BY <1>1 DEF Accept
  <2>2. arrived = <<>> /\ held = <<>> /\ heard = <<>> BY <2>1 DEF AdmissionInv
  <2>3. \/ verdict' \in {"admitted", "denied"} /\ buffering' = FALSE
        \/ store = "async" /\ buffering' = TRUE /\ verdict' = "pending"
    BY <1>1, <2>1 DEF Accept, AdmissionInv
  <2>4. <<>> \in Seq(Arrivals) OBVIOUS
  <2> QED BY <2>1, <2>2, <2>3, <2>4 DEF AdmissionInv
<1>2. ASSUME NEW kind \in Kinds, Arrive(kind) PROVE AdmissionInv'
  <2> DEFINE e == [n |-> Len(arrived) + 1, kind |-> kind]
  <2>1. e \in Arrivals BY DEF Arrivals, AdmissionInv
  <2>2. /\ arrived' = Append(arrived, e) /\ UNCHANGED <<store, verdict, buffering>>
        /\ verdict # "pending" \/ buffering
    BY <1>2 DEF Arrive
  <2>3. Append(arrived, e) \in Seq(Arrivals) BY <2>1 DEF AdmissionInv
  <2>4. IF buffering THEN held' = Append(held, e) /\ heard' = heard
        ELSE heard' = (IF Listening THEN Append(heard, e) ELSE heard) /\ held' = held
    BY <1>2 DEF Arrive, Passes
  <2> HIDE DEF e
  <2> QED BY <2>2, <2>3, <2>4 DEF AdmissionInv, Listening
<1>3. CASE Verdict
  <2>1. PICK allowed \in BOOLEAN, stored \in BOOLEAN : Settled(allowed, stored)
    BY <1>3 DEF Verdict
  <2>2. buffering /\ arrived' = arrived /\ store' = store BY <1>3 DEF Verdict
  <2>3. held = arrived /\ heard = <<>> /\ <<>> \o arrived = arrived BY <2>2 DEF AdmissionInv
  <2> QED BY <2>1, <2>2, <2>3 DEF Settled, AdmissionInv
<1>4. CASE UNCHANGED admissionVars BY <1>4 DEF admissionVars, AdmissionInv
<1> QED BY <1>1, <1>2, <1>3, <1>4 DEF AdmissionStep

LEMMA AdmissionStarts == Init => AdmissionInv
<1> SUFFICES ASSUME Init PROVE AdmissionInv
  OBVIOUS
<1>1. /\ verdict = "pending" /\ buffering = FALSE /\ held = <<>> /\ arrived = <<>> /\ heard = <<>>
  BY DEF Init, AdmissionInit
<1>2. <<>> \in Seq(Arrivals) OBVIOUS
<1> QED BY <1>1, <1>2 DEF AdmissionInv

(* However long the store takes and whatever the socket does meanwhile, an  *)
(* admitted connection hears every event in order and a refused one none    *)
(* (tcpRateLimit, settle).                                                  *)
THEOREM AdmissionTheorem == Spec => []AdmissionCorrect
<1>1. AdmissionInv /\ [Next]_mcVars => AdmissionInv' BY EachPart, AdmissionKept
<1>2. AdmissionInv => AdmissionCorrect
  <2> SUFFICES ASSUME AdmissionInv PROVE AdmissionCorrect
    OBVIOUS
  <2>1. ASSUME NEW e \in Range(arrived) PROVE e.kind \in Kinds
    <3>1. PICK i \in DOMAIN arrived : e = arrived[i] BY <2>1 DEF Range
    <3>2. e \in Arrivals BY <3>1 DEF AdmissionInv
    <3> QED BY <3>2 DEF Arrivals
  <2> QED BY <2>1 DEF AdmissionCorrect, AdmissionTypeOK, AdmittedHearsAll, AdmissionInv
<1> QED BY <1>1, <1>2, AdmissionStarts, PTL DEF Spec
-----------------------------------------------------------------------------
(* The replay window: the ring holds the last WindowSize nonces delivered,  *)
(* each at its place counted back from the head, and seen is their set.     *)

(* How many deliveries ago the slot i of the ring was written. *)
Age(i) == IF i < ringHead THEN ringHead - i ELSE ringHead - i + WindowSize

(* The nonce delivered a deliveries ago. *)
Past(a) == IF a <= Len(taken) THEN taken[Len(taken) + 1 - a] ELSE Empty

ReplayTypes ==
  /\ sealedUpTo \in 0..MaxSealed /\ ringHead \in 0..WindowSize - 1
  /\ taken \in Seq(1..MaxSealed) /\ refused \subseteq 1..sealedUpTo
  /\ ring \in [0..WindowSize - 1 -> 0..MaxSealed]

RingIsPast == \A i \in 0..WindowSize - 1 : ring[i] = Past(Age(i))

SeenIsRecent ==
  \A v : v \in seen <=> \E a \in 1..WindowSize : a <= Len(taken) /\ taken[Len(taken) + 1 - a] = v

ReplayInv == ReplayTypes /\ RingIsPast /\ SeenIsRecent /\ ReplaysAreOld /\ OnlyRepeatsRefused

LEMMA HeadTurns ==
  ASSUME NEW h \in 0..WindowSize - 1
  PROVE  (h + 1) % WindowSize = IF h + 1 = WindowSize THEN 0 ELSE h + 1
<1>1. WindowSize \in Nat \ {0} BY ReplayAssumption
<1>2. CASE h + 1 = WindowSize
  <2>1. WindowSize % WindowSize = 0 BY <1>1
  <2> QED BY <1>2, <2>1
<1>3. CASE h + 1 < WindowSize
  <2>1. \A w \in Nat \ {0} : \A k \in 0..w - 1 : k % w = k OBVIOUS
  <2> QED BY <1>1, <1>3, <2>1
<1> QED BY <1>1, <1>2, <1>3

LEMMA ReplayTaken ==
  ASSUME ReplayInv, NEW v \in 1..sealedUpTo, v \notin seen, Remembered(v),
         taken' = Append(taken, v), UNCHANGED <<sealedUpTo, refused>>
  PROVE  ReplayInv'
<1> DEFINE n == Len(taken)
           W == WindowSize
           t == Append(taken, v)
<1>0. ReplayTypes /\ RingIsPast /\ SeenIsRecent /\ ReplaysAreOld /\ OnlyRepeatsRefused
  BY DEF ReplayInv
<1>1. /\ W \in Nat \ {0} /\ n \in Nat /\ v \in 1..MaxSealed /\ MaxSealed \in Nat
      /\ ringHead \in 0..W - 1 /\ taken \in Seq(1..MaxSealed)
  BY <1>0, ReplayAssumption DEF ReplayTypes
<1>2. t \in Seq(1..MaxSealed) /\ Len(t) = n + 1 /\ t[n + 1] = v
      /\ \A k \in 1..n : t[k] = taken[k]
  BY <1>1
<1>3. taken' = t OBVIOUS
<1>4. ringHead' = IF ringHead + 1 = W THEN 0 ELSE ringHead + 1
  BY <1>1, HeadTurns DEF Remembered
<1>5. /\ ring' = [ring EXCEPT ![ringHead] = v]
      /\ seen' = (seen \ {ring[ringHead]}) \cup {v}
  BY DEF Remembered
<1>6. ReplayTypes'
  BY <1>0, <1>1, <1>2, <1>3, <1>4, <1>5 DEF ReplayTypes
<1> HIDE DEF n, W, t
<1>7. RingIsPast'
  <2> SUFFICES ASSUME NEW i \in 0..WindowSize - 1 PROVE ring'[i] = Past(Age(i))'
    BY DEF RingIsPast
  <2>1. CASE i = ringHead
    <3>1. Age(i)' = 1 BY <2>1, <1>1, <1>4 DEF Age, W
    <3>2. Past(Age(i))' = v BY <3>1, <1>1, <1>2, <1>3 DEF Past
    <3> QED BY <3>2, <2>1, <1>0, <1>1, <1>5 DEF ReplayTypes, W
  <2>2. CASE i # ringHead
    <3>1. Age(i)' = Age(i) + 1 /\ Age(i) \in 1..W - 1 BY <2>2, <1>1, <1>4 DEF Age, W
    <3>2. Past(Age(i))' = Past(Age(i))
      <4> DEFINE a == Age(i)
      <4> HIDE DEF a
      <4>0. Past(Age(i))' = IF Age(i)' <= Len(t) THEN t[Len(t) + 1 - Age(i)'] ELSE Empty
        BY <1>3 DEF Past
      <4>a. a \in 1..W - 1 /\ Age(i)' = a + 1 BY <3>1 DEF a
      <4>b. Len(t) + 1 - (a + 1) = n + 1 - a /\ Len(t) = n + 1 BY <4>a, <1>1, <1>2
      <4>1. Past(Age(i))' = IF a + 1 <= n + 1 THEN t[n + 1 - a] ELSE Empty
        BY <4>0, <4>a, <4>b
      <4>2. Past(a) = IF a <= n THEN taken[n + 1 - a] ELSE Empty BY DEF Past, n
      <4>3. a \in 1..W - 1 BY <3>1 DEF a
      <4>4. a <= n => t[n + 1 - a] = taken[n + 1 - a] BY <4>3, <1>1, <1>2
      <4> QED BY <4>1, <4>2, <4>3, <4>4, <1>1 DEF a
    <3>3. ring'[i] = ring[i] BY <2>2, <1>0, <1>5 DEF ReplayTypes
    <3> QED BY <3>2, <3>3, <1>0 DEF RingIsPast
  <2> QED BY <2>1, <2>2
<1>8. Age(ringHead) = W /\ ring[ringHead] = IF W <= n THEN taken[n + 1 - W] ELSE Empty
  BY <1>0, <1>1 DEF RingIsPast, Age, Past, n, W
<1>9. ASSUME NEW x
      PROVE x \in seen' <=> \E a \in 1..W : a <= n + 1 /\ t[n + 2 - a] = x
  <2>1. x \in seen <=> \E a \in 1..W : a <= n /\ taken[n + 1 - a] = x
    BY <1>0 DEF SeenIsRecent, n, W
  <2>2. CASE x = v
    <3>1. 1 \in 1..W /\ 1 <= n + 1 /\ t[n + 2 - 1] = x BY <2>2, <1>1, <1>2
    <3> QED BY <3>1, <2>2, <1>5
  <2>3. CASE x # v
    <3>1. ASSUME x \in seen' PROVE \E a \in 1..W : a <= n + 1 /\ t[n + 2 - a] = x
      <4>1. x \in seen /\ x # ring[ringHead] BY <3>1, <2>3, <1>5
      <4>2. PICK a \in 1..W : a <= n /\ taken[n + 1 - a] = x BY <4>1, <2>1
      <4>3. a # W BY <4>1, <4>2, <1>8, <1>1
      <4>4. a + 1 \in 1..W /\ a + 1 <= n + 1 /\ n + 2 - (a + 1) = n + 1 - a /\ n + 1 - a \in 1..n
        BY <4>2, <4>3, <1>1
      <4>5. t[n + 2 - (a + 1)] = x BY <4>2, <4>4, <1>2
      <4> QED BY <4>4, <4>5
    <3>2. ASSUME NEW a \in 1..W, a <= n + 1, t[n + 2 - a] = x PROVE x \in seen'
      <4>1. a # 1 BY <3>2, <2>3, <1>1, <1>2
      <4>2. a - 1 \in 1..W - 1 /\ a - 1 <= n /\ n + 1 - (a - 1) = n + 2 - a /\ n + 2 - a \in 1..n
        BY <3>2, <4>1, <1>1
      <4>3. taken[n + 1 - (a - 1)] = x BY <3>2, <4>2, <1>2
      <4>c. a - 1 \in 1..W BY <4>2, <1>1
      <4>4. x \in seen BY <4>c, <4>2, <4>3, <2>1
      <4>5. ASSUME x = ring[ringHead] PROVE FALSE
        <5>1. CASE W <= n
          <6>1. n + 1 - W \in 1..n /\ taken[n + 1 - W] = x BY <5>1, <4>5, <1>8, <1>1
          <6>2. n + 2 - a \in 1..n /\ taken[n + 2 - a] = x BY <4>2, <4>3
          <6>3. n + 1 - W < n + 2 - a BY <4>2, <1>1
          <6>4. (n + 2 - a) - (n + 1 - W) > W
            BY <6>1, <6>2, <6>3, <1>0, <1>1, SMTT(60) DEF ReplaysAreOld, n, W
          <6> QED BY <6>4, <4>2, <1>1
        <5>2. CASE ~(W <= n)
          <6>1. x = 0 BY <5>2, <4>5, <1>8 DEF Empty
          <6>2. x \in 1..MaxSealed BY <4>2, <4>3, <1>1 DEF n
          <6> QED BY <6>1, <6>2, <1>1
        <5> QED BY <5>1, <5>2
      <4> QED BY <4>4, <4>5, <1>5
    <3> QED BY <3>1, <3>2
  <2> QED BY <2>2, <2>3
<1>10. SeenIsRecent'
  <2>1. Len(t) = n + 1 /\ \A a \in 1..W : Len(t) + 1 - a = n + 2 - a BY <1>1, <1>2
  <2>2. ASSUME NEW x
        PROVE x \in seen' <=> \E a \in 1..W : a <= Len(t) /\ t[Len(t) + 1 - a] = x
    BY <1>9, <2>1
  <2> QED BY <2>2, <1>3 DEF SeenIsRecent, W
<1>11. ReplaysAreOld'
  <2> SUFFICES ASSUME NEW i \in 1..n + 1, NEW j \in 1..n + 1, i < j, t[i] = t[j]
               PROVE  j - i > WindowSize
    <3>1. DOMAIN t = 1..n + 1 BY <1>2, <1>1
    <3> QED BY <3>1, <1>3 DEF ReplaysAreOld
  <2>1. CASE j <= n
    <3>1. i \in 1..n /\ j \in 1..n BY <2>1, <1>1
    <3>2. DOMAIN taken = 1..n BY <1>1 DEF n
    <3>3. taken[i] = taken[j] BY <3>1, <1>2
    <3> QED BY <3>1, <3>2, <3>3, <1>0 DEF ReplaysAreOld
  <2>2. CASE j = n + 1
    <3>1. i \in 1..n /\ taken[i] = v BY <2>2, <1>1, <1>2
    <3> DEFINE a == n + 1 - i
    <3>2. a \in 1..n /\ n + 1 - a = i BY <3>1, <1>1
    <3>3. ~(a \in 1..W) BY <3>1, <3>2, <1>0 DEF SeenIsRecent, n, W
    <3> QED BY <3>2, <3>3, <2>2, <1>1 DEF W
  <2> QED BY <2>1, <2>2, <1>1
<1>12. OnlyRepeatsRefused'
  <2>1. DOMAIN taken = 1..n /\ DOMAIN t = 1..n + 1 BY <1>1, <1>2 DEF n
  <2>2. ASSUME NEW x \in Range(taken) PROVE x \in Range(t)
    <3>1. PICK k \in 1..n : x = taken[k] BY <2>1, <2>2 DEF Range
    <3>2. k \in 1..n + 1 /\ t[k] = x BY <3>1, <1>1, <1>2
    <3> QED BY <3>2, <2>1 DEF Range
  <2> QED BY <2>2, <1>0, <1>3 DEF OnlyRepeatsRefused
<1> QED BY <1>6, <1>7, <1>10, <1>11, <1>12 DEF ReplayInv

LEMMA ReplayKept == ReplayInv /\ [ReplayStep]_replayVars => ReplayInv'
<1> SUFFICES ASSUME ReplayInv, [ReplayStep]_replayVars PROVE ReplayInv'
  OBVIOUS
<1>0. ReplayTypes /\ RingIsPast /\ SeenIsRecent /\ ReplaysAreOld /\ OnlyRepeatsRefused
  BY DEF ReplayInv
<1>1. ASSUME UNCHANGED <<ring, ringHead, seen, taken>>,
             sealedUpTo' \in 0..MaxSealed, refused' \subseteq 1..sealedUpTo',
             refused' \subseteq Range(taken)
      PROVE  ReplayInv'
  <2>1. ReplayTypes' BY <1>0, <1>1 DEF ReplayTypes
  <2>2. \A i : Past(Age(i))' = Past(Age(i)) BY <1>1 DEF Past, Age
  <2>3. RingIsPast' BY <1>0, <1>1, <2>2 DEF RingIsPast
  <2>4. SeenIsRecent' BY <1>0, <1>1 DEF SeenIsRecent
  <2>5. ReplaysAreOld' BY <1>0, <1>1 DEF ReplaysAreOld
  <2>6. OnlyRepeatsRefused' BY <1>1 DEF OnlyRepeatsRefused
  <2> QED BY <2>1, <2>3, <2>4, <2>5, <2>6 DEF ReplayInv
<1>2. CASE Seal
  BY <1>0, <1>1, <1>2, ReplayAssumption DEF Seal, ReplayTypes, OnlyRepeatsRefused
<1>3. CASE DatagramArrives
  <2>1. PICK nonce \in 1..MaxSealed, genuine \in BOOLEAN :
          (genuine => nonce <= sealedUpTo) /\ Received(nonce, genuine)
    BY <1>3 DEF DatagramArrives
  <2>2. UNCHANGED sealedUpTo BY <1>3 DEF DatagramArrives
  <2>3. CASE genuine /\ nonce \notin seen
    <3>1. Remembered(nonce) /\ taken' = Append(taken, nonce) /\ UNCHANGED refused
      BY <2>1, <2>3 DEF Received
    <3>2. nonce \in 1..sealedUpTo BY <2>1, <2>3, <1>0 DEF ReplayTypes
    <3> QED BY <3>1, <3>2, <2>2, <2>3, ReplayTaken
  <2>4. CASE ~(genuine /\ nonce \notin seen)
    <3>1. UNCHANGED <<ring, ringHead, seen, taken>>
          /\ refused' = IF genuine THEN refused \cup {nonce} ELSE refused
      BY <2>1, <2>4 DEF Received, Unremembered
    <3>2. refused' \subseteq 1..sealedUpTo BY <3>1, <2>1, <1>0 DEF ReplayTypes
    <3>3. genuine => nonce \in Range(taken)
      <4> SUFFICES ASSUME genuine PROVE nonce \in Range(taken) OBVIOUS
      <4>1. PICK a \in 1..WindowSize : a <= Len(taken) /\ taken[Len(taken) + 1 - a] = nonce
        BY <2>4, <1>0 DEF SeenIsRecent
      <4>2. Len(taken) + 1 - a \in DOMAIN taken
        BY <4>1, <1>0, ReplayAssumption DEF ReplayTypes
      <4> QED BY <4>1, <4>2 DEF Range
    <3>4. refused' \subseteq Range(taken) BY <3>1, <3>3, <1>0 DEF OnlyRepeatsRefused
    <3> QED BY <1>0, <1>1, <2>2, <3>1, <3>2, <3>4 DEF ReplayTypes
  <2> QED BY <2>3, <2>4
<1>4. CASE UNCHANGED replayVars
  BY <1>0, <1>1, <1>4 DEF replayVars, ReplayTypes, OnlyRepeatsRefused
<1> QED BY <1>2, <1>3, <1>4 DEF ReplayStep

LEMMA ReplayStarts == Init => ReplayInv
<1> SUFFICES ASSUME Init PROVE ReplayInv
  OBVIOUS
<1>1. /\ sealedUpTo = 0 /\ ring = [i \in 0..WindowSize - 1 |-> Empty]
      /\ ringHead = 0 /\ seen = {} /\ taken = <<>> /\ refused = {}
  BY DEF Init, ReplayInit
<1>2. <<>> \in Seq(1..MaxSealed) /\ Len(<<>>) = 0 /\ DOMAIN <<>> = {} OBVIOUS
<1>3. ReplayTypes BY <1>1, <1>2, ReplayAssumption DEF ReplayTypes, Empty
<1>4. RingIsPast
  <2>1. ASSUME NEW i \in 0..WindowSize - 1 PROVE ring[i] = Past(Age(i))
    <3>1. Age(i) \in 1..WindowSize BY <1>1, ReplayAssumption DEF Age
    <3>2. Past(Age(i)) = Empty BY <1>1, <1>2, <3>1, ReplayAssumption DEF Past
    <3> QED BY <1>1, <3>2
  <2> QED BY <2>1 DEF RingIsPast
<1>5. SeenIsRecent BY <1>1, <1>2, ReplayAssumption DEF SeenIsRecent
<1>6. ReplaysAreOld BY <1>1, <1>2 DEF ReplaysAreOld
<1>7. OnlyRepeatsRefused BY <1>1 DEF OnlyRepeatsRefused
<1> QED BY <1>3, <1>4, <1>5, <1>6, <1>7 DEF ReplayInv

(* Whatever the network repeats, reorders or invents: a datagram is         *)
(* delivered again only after WindowSize others, and none is dropped that   *)
(* was not delivered (ReplayWindow, secure-datagram.ts).                    *)
THEOREM ReplayTheorem == Spec => []ReplayCorrect
<1>1. ReplayInv /\ [Next]_mcVars => ReplayInv' BY EachPart, ReplayKept
<1>2. ReplayInv => ReplayCorrect
  <2> SUFFICES ASSUME ReplayInv PROVE ReplayCorrect
    OBVIOUS
  <2>1. ASSUME NEW v \in seen PROVE v \in 1..MaxSealed
    <3>1. PICK a \in 1..WindowSize : a <= Len(taken) /\ taken[Len(taken) + 1 - a] = v
      BY DEF ReplayInv, SeenIsRecent
    <3>2. Len(taken) + 1 - a \in 1..Len(taken)
      BY <3>1, ReplayAssumption DEF ReplayInv, ReplayTypes
    <3>3. taken \in Seq(1..MaxSealed) BY DEF ReplayInv, ReplayTypes
    <3>a. \A k \in 1..Len(taken) : taken[k] \in 1..MaxSealed BY <3>3, ReplayAssumption
    <3>4. taken[Len(taken) + 1 - a] \in 1..MaxSealed BY <3>2, <3>a
    <3> QED BY <3>1, <3>4
  <2> QED BY <2>1 DEF ReplayInv, ReplayTypes, ReplayCorrect, ReplayTypeOK
<1> QED BY <1>1, <1>2, ReplayStarts, PTL DEF Spec

-----------------------------------------------------------------------------
(* A byte range: the header's arithmetic first, then what each stage of a   *)
(* response has in hand.                                                    *)

(* parseRange names the positions asked for, all of them and in order; it   *)
(* finds nothing to send just when there are none.                          *)
LEMMA ParseRangeNamesAsked ==
  ASSUME NEW h \in Headers, NEW n \in Nat
  PROVE  LET r == parseRange(h, n)
         IN IF r = Invalid THEN Asked(h, n) = {}
            ELSE /\ r.first \in 0..n - 1 /\ r.last \in r.first..n - 1
                 /\ Asked(h, n) = r.first..r.last
<1> DEFINE start == StartOf(h, n)
           end   == EndOf(h, n)
           bad   == (h.first = None /\ h.last = 0) \/ n = 0 \/ start > end \/ start >= n
<1>1. h.first \in Int /\ h.last \in Int /\ h.first >= -1 /\ h.last >= -1
  BY RangeAssumption DEF Headers, None
<1>2. parseRange(h, n) = IF bad THEN Invalid ELSE [first |-> start, last |-> end]
  BY DEF parseRange
<1>3. start \in Nat /\ end \in Int /\ end <= n - 1
  BY <1>1 DEF StartOf, EndOf, Higher, Lower, None
<1>4. ASSUME NEW p \in 0..n - 1
      PROVE  p \in Asked(h, n) <=> start <= p /\ p <= end
  BY <1>1 DEF Asked, StartOf, EndOf, Higher, Lower, None
<1>5. Asked(h, n) \subseteq 0..n - 1 BY DEF Asked
<1> HIDE DEF start, end
<1>6. CASE bad
  <2>1. ASSUME NEW p \in Asked(h, n) PROVE FALSE
    <3>1. p \in 0..n - 1 /\ start <= p /\ p <= end BY <2>1, <1>4, <1>5
    <3>2. h.first = None /\ h.last = 0 BY <3>1, <1>3, <1>6
    <3>3. start = n BY <3>2 DEF start, StartOf, Higher, None
    <3> QED BY <3>1, <3>3
  <2> QED BY <2>1, <1>2, <1>6
<1>7. CASE ~bad
  <2>1. start \in 0..n - 1 /\ end \in start..n - 1 BY <1>3, <1>7
  <2>2. parseRange(h, n) = [first |-> start, last |-> end] BY <1>2, <1>7
  <2>3. parseRange(h, n) # Invalid BY <2>1, <2>2 DEF Invalid
  <2>4. Asked(h, n) = start..end
    <3>1. \A p : p \in Asked(h, n) <=> p \in start..end BY <2>1, <1>3, <1>4, <1>5
    <3> QED BY <3>1
  <2> QED BY <2>1, <2>2, <2>3, <2>4
<1> QED BY <1>6, <1>7

(* What is in hand at each stage. *)
RangeInHand ==
  CASE progress = "closed"    -> handle = None /\ got = 0 /\ answer = NoAnswer
    [] progress = "opened"    -> handle = 0 /\ got = 0 /\ answer = NoAnswer
    [] progress = "reading"   -> /\ handle = 0 /\ answer = NoAnswer
                                 /\ Part # Invalid /\ got \in 0..PartLength
    [] progress = "streaming" -> handle = 0 /\ got = 0 /\ answer.status = 200 /\ answer.first = 0
    [] progress = "answered"  -> handle \in {None, 1} /\ RangeIsAsked

RangeInv == 
  /\ request \in Headers /\ from \in {"buffer", "file"}
  /\ length \in 0..MaxBytes /\ RangeTypeOK /\ RangeInHand

LEMMA RangeKept == RangeInv /\ [RangeStep]_rangeVars => RangeInv'
<1> SUFFICES ASSUME RangeInv, [RangeStep]_rangeVars PROVE RangeInv'
  OBVIOUS
<1>1. /\ request \in Headers /\ from \in {"buffer", "file"} /\ length \in 0..MaxBytes
      /\ progress \in {"closed", "opened", "reading", "streaming", "answered"}
      /\ size \in 0..MaxBytes /\ got \in 0..MaxBytes /\ answer.first \in 0..MaxBytes
      /\ MaxBytes \in Nat
  BY RangeAssumption DEF RangeInv, RangeTypeOK
<1>2. /\ progress = "closed" => handle = None /\ got = 0 /\ answer = NoAnswer
      /\ progress = "opened" => handle = 0 /\ got = 0 /\ answer = NoAnswer
      /\ progress = "reading" => /\ handle = 0 /\ answer = NoAnswer
                                 /\ Part # Invalid /\ got \in 0..PartLength
      /\ progress = "streaming" => /\ handle = 0 /\ got = 0 
                                   /\ answer.status = 200 /\ answer.first = 0
      /\ progress = "answered" => handle \in {None, 1} /\ RangeIsAsked
  BY DEF RangeInv, RangeInHand
<1>3. NoAnswer.status = 0 /\ NoAnswer.first = 0 /\ NoAnswer.status # 416 /\ NoAnswer.status # 206
  BY DEF NoAnswer
<1>4. CASE SendBuffer
  <2>1. /\ size' = length /\ progress' = "answered" /\ progress = "closed"
        /\ UNCHANGED <<request, from, length, handle>>
        /\ got' = answer'.last - answer'.first + 1
    BY <1>4 DEF SendBuffer
  <2> DEFINE r == parseRange(request, length)
  <2>2. \/ answer' = [status |-> 200, first |-> 0, last |-> length - 1]
        \/ answer' = [status |-> 416, first |-> 0, last |-> -1] /\ r = Invalid
        \/ answer' = [status |-> 206, first |-> r.first, last |-> r.last] /\ r # Invalid
    BY <1>4, <2>1 DEF SendBuffer, Whole, Bad, Wanted
  <2>3. IF r = Invalid THEN Asked(request, length) = {}
        ELSE /\ r.first \in 0..length - 1 /\ r.last \in r.first..length - 1
             /\ Asked(request, length) = r.first..r.last
    BY <1>1, ParseRangeNamesAsked
  <2>4. Asked(request, size)' = Asked(request, length) BY <2>1 DEF Asked
  <2> HIDE DEF r
  <2>5. RangeIsAsked' BY <2>1, <2>2, <2>3, <2>4, <1>1 DEF RangeIsAsked
  <2>6. got' \in 0..MaxBytes /\ answer'.first \in 0..MaxBytes BY <2>1, <2>2, <2>3, <1>1
  <2> QED BY <2>1, <2>5, <2>6, <1>1, <1>2 DEF RangeInv, RangeTypeOK, RangeInHand
<1>5. ASSUME progress' = "answered", handle' \in {None, 1}, answer' = NoAnswer,
             UNCHANGED <<request, from, length, size, got>>
      PROVE  RangeInv'
  BY <1>1, <1>3, <1>5 DEF RangeInv, RangeTypeOK, RangeInHand, RangeIsAsked
<1>6. CASE OpenFile
  <2>1. CASE progress' = "answered" /\ UNCHANGED handle
    BY <1>2, <1>5, <1>6, <2>1 DEF OpenFile
  <2>2. CASE progress' = "opened" /\ handle' = 0
    BY <1>1, <1>2, <1>6, <2>2 DEF OpenFile, RangeInv, RangeTypeOK, RangeInHand
  <2> QED BY <1>6, <2>1, <2>2 DEF OpenFile
<1>7. CASE StatFails BY <1>2, <1>5, <1>7 DEF StatFails, CloseFile
<1>8. CASE StatFile
  <2>1. /\ progress = "opened" /\ size' = length /\ UNCHANGED <<request, from, length, got>>
    BY <1>8 DEF StatFile
  <2> DEFINE r == parseRange(request, length)
  <2>2. IF r = Invalid THEN Asked(request, length) = {}
        ELSE /\ r.first \in 0..length - 1 /\ r.last \in r.first..length - 1
             /\ Asked(request, length) = r.first..r.last
    BY <1>1, ParseRangeNamesAsked
  <2>3. \/ progress' = "streaming" /\ UNCHANGED handle
              /\ answer' = [status |-> 200, first |-> 0, last |-> length - 1]
        \/ progress' = "answered" /\ handle' = handle + 1 /\ r = Invalid
              /\ answer' = [status |-> 416, first |-> 0, last |-> -1]
        \/ progress' = "reading" /\ r # Invalid /\ UNCHANGED <<answer, handle>>
    BY <1>8, <2>1 DEF StatFile, Whole, Bad, Wanted, CloseFile
  <2>4. Asked(request, size)' = Asked(request, length) BY <2>1 DEF Asked
  <2>5. Part' = r BY <2>1 DEF Part
  <2> HIDE DEF r
  <2>6. RangeIsAsked' BY <2>1, <2>2, <2>3, <2>4, <1>2, <1>3 DEF RangeIsAsked
  <2>7. RangeTypeOK' BY <2>1, <2>3, <1>1, <1>2 DEF RangeTypeOK
  <2>8. progress' = "reading" => Part' # Invalid /\ got' \in 0..PartLength'
    BY <2>1, <2>2, <2>3, <2>5, <1>1, <1>2 DEF PartLength
  <2>9. RangeInHand'
    <3>1. CASE progress' = "streaming" BY <3>1, <2>1, <2>3, <1>2 DEF RangeInHand
    <3>2. CASE progress' = "answered" BY <3>2, <2>1, <2>3, <2>6, <1>2 DEF RangeInHand
    <3>3. CASE progress' = "reading"
      BY <3>3, <2>1, <2>3, <2>8, <1>2 DEF RangeInHand
    <3> QED BY <2>3, <3>1, <3>2, <3>3
  <2> QED BY <2>1, <2>7, <2>9, <1>1 DEF RangeInv
<1>9. CASE progress = "reading" /\ (ReadSome \/ ReadFails \/ ReadEnds)
  <2>1. IF Part = Invalid THEN Asked(request, size) = {}
        ELSE /\ Part.first \in 0..size - 1 /\ Part.last \in Part.first..size - 1
             /\ Asked(request, size) = Part.first..Part.last
    BY <1>1, ParseRangeNamesAsked DEF Part
  <2>2. PartLength = Part.last - Part.first + 1 /\ PartLength \in 1..MaxBytes
    BY <2>1, <1>1, <1>2, <1>9 DEF PartLength
  <2>3. CASE ReadSome
    <3>1. PICK k \in 1..(length - Part.first - got) : k <= PartLength - got /\ got' = got + k
      BY <2>3 DEF ReadSome
    <3>2. UNCHANGED <<request, from, length, progress, handle, size, answer>>
      BY <2>3 DEF ReadSome
    <3>3. k \in Nat BY <3>1, <2>1, <1>1, <1>2, <1>9
    <3>4. got' \in 0..PartLength /\ got' \in 0..MaxBytes BY <3>1, <3>3, <2>2, <1>1, <1>2, <1>9
    <3>5. Part' = Part /\ PartLength' = PartLength BY <3>2 DEF Part, PartLength
    <3> QED BY <3>2, <3>4, <3>5, <1>1, <1>2, <1>9 DEF RangeInv, RangeTypeOK, RangeInHand
  <2>4. CASE ReadFails BY <1>2, <1>5, <2>4 DEF ReadFails, CloseFile
  <2>5. CASE ReadEnds
    <3>1. /\ progress' = "answered" /\ handle' = 1 
          /\ UNCHANGED <<request, from, length, size, got>>
          /\ got = PartLength \/ length <= Part.first + got
          /\ answer' = [status |-> 206, first |-> Part.first, last |-> Part.first + got - 1]
      BY <1>2, <1>9, <2>5 DEF ReadEnds, CloseFile, ReadPart
    <3>2. got \in 0..PartLength /\ Part # Invalid BY <1>2, <1>9
    <3>3. Asked(request, size)' = Asked(request, size) BY <3>1 DEF Asked
    <3>4. length = size => got = PartLength BY <3>1, <3>2, <2>1, <2>2, <1>1, SMTT(60)
    <3>5. /\ got' = answer'.last - answer'.first + 1
          /\ answer'.first..answer'.last \subseteq Asked(request, size)
          /\ answer'.first \in Asked(request, size)
          /\ got = PartLength => answer'.first..answer'.last = Asked(request, size)
      <4> DEFINE f == Part.first
                 l == Part.last
      <4>1. /\ f \in 0..size - 1 /\ l \in f..size - 1 /\ size \in Nat
            /\ Asked(request, size) = f..l /\ PartLength = l - f + 1
            /\ got \in 0..PartLength
        BY <3>2, <2>1, <2>2, <1>1
      <4>2. answer'.first = f /\ answer'.last = f + got - 1 /\ got' = got BY <3>1
      <4> HIDE DEF f, l
      <4> QED BY <4>1, <4>2
    <3>6. RangeIsAsked' BY <3>1, <3>3, <3>4, <3>5 DEF RangeIsAsked
    <3>7. RangeTypeOK' BY <3>1, <3>2, <2>1, <1>1 DEF RangeTypeOK
    <3> QED BY <3>1, <3>6, <3>7, <1>1 DEF RangeInv, RangeInHand
  <2> QED BY <1>9, <2>3, <2>4, <2>5
<1>10. CASE StreamOver
  BY <1>1, <1>2, <1>10 DEF StreamOver, CloseFile, RangeInv, RangeTypeOK, RangeInHand, RangeIsAsked
<1>11. CASE Truncate
  <2>1. /\ length' \in 0..length - 1 /\ UNCHANGED <<request, from, progress, handle, size, got, answer>>
        /\ progress \in {"opened", "reading"}
    BY <1>11 DEF Truncate
  <2>2. length' \in 0..MaxBytes BY <2>1, <1>1
  <2>3. Part' = Part /\ PartLength' = PartLength BY <2>1 DEF Part, PartLength
  <2> QED BY <2>1, <2>2, <2>3, <1>1, <1>2 DEF RangeInv, RangeTypeOK, RangeInHand
<1>12. CASE UNCHANGED rangeVars
  <2>1. UNCHANGED <<request, from, length, progress, handle, size, got, answer>>
    BY <1>12 DEF rangeVars
  <2>2. Part' = Part /\ PartLength' = PartLength BY <2>1 DEF Part, PartLength
  <2>3. Asked(request, size)' = Asked(request, size) BY <2>1 DEF Asked
  <2>4. RangeIsAsked => RangeIsAsked' BY <2>1, <2>3 DEF RangeIsAsked
  <2> QED BY <2>1, <2>2, <2>4, <1>1, <1>2, ZenonT(60) DEF RangeInv, RangeTypeOK, RangeInHand
<1> QED BY <1>4, <1>6, <1>7, <1>8, <1>9, <1>10, <1>11, <1>12
    DEF RangeStep, ReadSome, ReadFails, ReadEnds

(* Whatever the header asks for and however the file shrinks: a 206 holds   *)
(* what its Content-Range names, all of it asked for and the whole of it    *)
(* unless the file shrank, a 416 says there is nothing of it, and the file  *)
(* is closed once (sendRange, parseRange).                                  *)
THEOREM RangeTheorem == Spec => []RangeCorrect
<1>1. RangeInv /\ [Next]_mcVars => RangeInv' BY EachPart, RangeKept
<1>2. Init => RangeInv
  <2> SUFFICES ASSUME Init PROVE RangeInv
    OBVIOUS
  <2>1. RangeInit BY DEF Init
  <2> QED BY <2>1, RangeAssumption
      DEF RangeInit, RangeInv, RangeTypeOK, RangeInHand, NoAnswer
<1>3. RangeInv => RangeCorrect
  <2> SUFFICES ASSUME RangeInv PROVE RangeCorrect
    OBVIOUS
  <2>1. RangeIsAsked
    <3>1. progress = "answered" \/ answer = NoAnswer \/ answer.status = 200
      BY DEF RangeInv, RangeInHand, RangeTypeOK
    <3>2. progress = "answered" => RangeIsAsked BY DEF RangeInv, RangeInHand
    <3>3. answer = NoAnswer \/ answer.status = 200 => RangeIsAsked
      <4>1. NoAnswer.status = 0 BY DEF NoAnswer
      <4> QED BY <4>1 DEF RangeIsAsked
    <3> QED BY <3>1, <3>2, <3>3
  <2>2. HandleReleased
    <3>1. CASE progress = "answered"
      BY <3>1 DEF RangeInv, RangeInHand, HandleReleased, None
    <3>2. CASE progress # "answered"
      <4>1. handle = None \/ handle = 0
        BY <3>2 DEF RangeInv, RangeInHand, RangeTypeOK
      <4> QED BY <3>2, <4>1 DEF HandleReleased
    <3> QED BY <3>1, <3>2
  <2> QED BY <2>1, <2>2 DEF RangeInv, RangeCorrect
<1> QED BY <1>1, <1>2, <1>3, PTL DEF Spec

-----------------------------------------------------------------------------
(* The circuit breaker.  Its counters count calls of its window and era,    *)
(* never more than there were; its cooldown never ends before ResetMs from  *)
(* the last probe.                                                          *)

(* The calls of this era that ended in the breaker's window. *)
Counted(st) ==
  {c \in Calls : calls[c].st \in st /\ calls[c].era = era
                 /\ calls[c].done >= breaker.windowEnd - WindowMs}

BreakerInv ==
  /\ BreakerTypeOK /\ HalfOpenHasProbe
  /\ breaker.windowEnd <= now + WindowMs
  /\ breaker.total <= Cardinality(Counted({"served", "failed"}))
  /\ breaker.failures <= Cardinality(Counted({"failed"}))
  /\ lastProbe <= now
  /\ breaker.state = "closed" => lastProbe = NoTime
  /\ breaker.state = "open" /\ lastProbe # NoTime => breaker.openUntil >= lastProbe + ResetMs

Outcomes == {"idle", "running", "shed", "served", "failed", "settled"}
ACall == [st : Outcomes, probe : BOOLEAN, since : Nat \cup {NoTime},
          done : Nat \cup {NoTime}, era : Nat]
ABreaker == [state : {"closed", "open", "half-open"}, failures : Nat, total : Nat,
             windowEnd : Nat, openUntil : Nat, probing : BOOLEAN]

LEMMA CallsFinite ==
  ASSUME NEW S, S \subseteq Calls
  PROVE  IsFiniteSet(S) /\ Cardinality(S) \in Nat
<1>1. IsFiniteSet(Calls) BY FS_Interval, BreakerAssumption DEF Calls
<1> QED BY <1>1, FS_Subset, FS_CardinalityType

(* Counting one more call. *)
LEMMA OneMore ==
  ASSUME NEW S, NEW T, T \subseteq Calls, S \subseteq T, NEW c \in T, c \notin S
  PROVE  Cardinality(S) + 1 <= Cardinality(T)
<1>1. S \cup {c} \subseteq T OBVIOUS
<1>2. IsFiniteSet(S) /\ IsFiniteSet(T) /\ Cardinality(S) \in Nat BY CallsFinite
<1>3. Cardinality(S \cup {c}) = Cardinality(S) + 1 BY <1>2, FS_AddElement
<1> QED BY <1>1, <1>2, <1>3, FS_Subset

LEMMA NoFewer ==
  ASSUME NEW S, NEW T, T \subseteq Calls, S \subseteq T
  PROVE  Cardinality(S) <= Cardinality(T)
BY CallsFinite, FS_Subset

LEMMA MoreTimes ==
  ASSUME NEW a \in Nat, NEW b \in Nat, NEW k \in Nat, a <= b
  PROVE  k * a <= k * b /\ a * k <= b * k
<1>1. k * (b - a) >= 0 OBVIOUS
<1>2. k * (b - a) = k * b - k * a OBVIOUS
<1> QED BY <1>1, <1>2

(* The fields a roll, an open and a close leave behind. *)
LEMMA BreakerFields ==
  ASSUME NEW b \in ABreaker, now \in Nat
  PROVE  /\ Roll(b) \in ABreaker /\ Roll(b).state = b.state /\ Roll(b).openUntil = b.openUntil
         /\ Roll(b).probing = b.probing
         /\ IF now >= b.windowEnd
            THEN Roll(b).failures = 0 /\ Roll(b).total = 0 /\ Roll(b).windowEnd = now + WindowMs
            ELSE Roll(b) = b
         /\ Open(b) \in ABreaker /\ Open(b).state = "open" /\ Open(b).openUntil = now + ResetMs
         /\ Open(b).failures = b.failures /\ Open(b).total = b.total
         /\ Open(b).windowEnd = b.windowEnd
         /\ Close(b) \in ABreaker /\ Close(b).state = "closed" /\ Close(b).total = 0
         /\ Close(b).failures = 0 /\ Close(b).windowEnd = now + WindowMs
         /\ Admit(b) \in ABreaker /\ (b.state = "closed" => Admit(b) = b)
         /\ (b.state # "closed" => Admit(b).state = "half-open" /\ Admit(b).probing)
         /\ Admit(b).failures = b.failures /\ Admit(b).total = b.total
         /\ Admit(b).windowEnd = b.windowEnd
<1>0. WindowMs \in Nat /\ ResetMs \in Nat BY BreakerAssumption
<1>1. /\ Roll(b) \in ABreaker /\ Roll(b).state = b.state /\ Roll(b).openUntil = b.openUntil
      /\ Roll(b).probing = b.probing
      /\ IF now >= b.windowEnd
         THEN Roll(b).failures = 0 /\ Roll(b).total = 0 /\ Roll(b).windowEnd = now + WindowMs
         ELSE Roll(b) = b
  <2> DEFINE b1 == [b EXCEPT !.failures = 0]
             b2 == [b1 EXCEPT !.total = 0]
             b3 == [b2 EXCEPT !.windowEnd = now + WindowMs]
  <2>1. Roll(b) = IF now >= b.windowEnd THEN b3 ELSE b BY DEF Roll
  <2>2. /\ b1 \in ABreaker /\ b1.state = b.state /\ b1.openUntil = b.openUntil
        /\ b1.probing = b.probing /\ b1.failures = 0
    BY DEF ABreaker
  <2> HIDE DEF b1
  <2>3. /\ b2 \in ABreaker /\ b2.state = b.state /\ b2.openUntil = b.openUntil
        /\ b2.probing = b.probing /\ b2.failures = 0 /\ b2.total = 0
    BY <2>2 DEF ABreaker
  <2> HIDE DEF b2
  <2>4. /\ b3 \in ABreaker /\ b3.state = b.state /\ b3.openUntil = b.openUntil
        /\ b3.probing = b.probing /\ b3.failures = 0 /\ b3.total = 0
        /\ b3.windowEnd = now + WindowMs
    BY <1>0, <2>3 DEF ABreaker
  <2> HIDE DEF b3
  <2> QED BY <2>1, <2>4
<1>2. /\ Open(b) \in ABreaker /\ Open(b).state = "open" /\ Open(b).openUntil = now + ResetMs
      /\ Open(b).failures = b.failures /\ Open(b).total = b.total
      /\ Open(b).windowEnd = b.windowEnd
  <2> DEFINE b1 == [b EXCEPT !.state = "open"]
             b2 == [b1 EXCEPT !.openUntil = now + ResetMs]
             b3 == [b2 EXCEPT !.probing = FALSE]
  <2>1. Open(b) = b3 BY DEF Open
  <2>2. /\ b1 \in ABreaker /\ b1.state = "open" /\ b1.failures = b.failures
        /\ b1.total = b.total /\ b1.windowEnd = b.windowEnd
    BY DEF ABreaker
  <2> HIDE DEF b1
  <2>3. /\ b2 \in ABreaker /\ b2.state = "open" /\ b2.failures = b.failures
        /\ b2.total = b.total /\ b2.windowEnd = b.windowEnd /\ b2.openUntil = now + ResetMs
    BY <1>0, <2>2 DEF ABreaker
  <2> HIDE DEF b2
  <2>4. /\ b3 \in ABreaker /\ b3.state = "open" /\ b3.failures = b.failures
        /\ b3.total = b.total /\ b3.windowEnd = b.windowEnd /\ b3.openUntil = now + ResetMs
    BY <2>3 DEF ABreaker
  <2> QED BY <2>1, <2>4
<1>3. /\ Close(b) \in ABreaker /\ Close(b).state = "closed" /\ Close(b).total = 0
      /\ Close(b).failures = 0 /\ Close(b).windowEnd = now + WindowMs
  <2> DEFINE b1 == [b EXCEPT !.state = "closed"]
             b2 == [b1 EXCEPT !.failures = 0]
             b3 == [b2 EXCEPT !.total = 0]
             b4 == [b3 EXCEPT !.probing = FALSE]
             b5 == [b4 EXCEPT !.windowEnd = now + WindowMs]
  <2>1. Close(b) = b5 BY DEF Close
  <2>2. b1 \in ABreaker /\ b1.state = "closed" BY DEF ABreaker
  <2> HIDE DEF b1
  <2>3. b2 \in ABreaker /\ b2.state = "closed" /\ b2.failures = 0 BY <2>2 DEF ABreaker
  <2> HIDE DEF b2
  <2>4. b3 \in ABreaker /\ b3.state = "closed" /\ b3.failures = 0 /\ b3.total = 0
    BY <2>3 DEF ABreaker
  <2> HIDE DEF b3
  <2>5. b4 \in ABreaker /\ b4.state = "closed" /\ b4.failures = 0 /\ b4.total = 0
    BY <2>4 DEF ABreaker
  <2> HIDE DEF b4
  <2>6. /\ b5 \in ABreaker /\ b5.state = "closed" /\ b5.failures = 0 /\ b5.total = 0
        /\ b5.windowEnd = now + WindowMs
    BY <1>0, <2>5 DEF ABreaker
  <2> QED BY <2>1, <2>6
<1>4. /\ Admit(b) \in ABreaker /\ (b.state = "closed" => Admit(b) = b)
      /\ (b.state # "closed" => Admit(b).state = "half-open" /\ Admit(b).probing)
      /\ Admit(b).failures = b.failures /\ Admit(b).total = b.total
      /\ Admit(b).windowEnd = b.windowEnd
  <2> DEFINE b1 == [b EXCEPT !.state = "half-open"]
             b2 == [b1 EXCEPT !.probing = TRUE]
  <2>1. Admit(b) = IF b.state = "closed" THEN b ELSE b2 BY DEF Admit
  <2>2. /\ b1 \in ABreaker /\ b1.state = "half-open" /\ b1.failures = b.failures
        /\ b1.total = b.total /\ b1.windowEnd = b.windowEnd
    BY DEF ABreaker
  <2> HIDE DEF b1
  <2>3. /\ b2 \in ABreaker /\ b2.state = "half-open" /\ b2.probing = TRUE
        /\ b2.failures = b.failures /\ b2.total = b.total /\ b2.windowEnd = b.windowEnd
    BY <2>2 DEF ABreaker
  <2> HIDE DEF b2
  <2> QED BY <2>1, <2>3
<1> QED BY <1>1, <1>2, <1>3, <1>4

(* A call that starts, or is turned away, leaves the counted ones alone. *)
LEMMA CountedKept ==
  ASSUME NEW c \in Calls, NEW e, calls \in [Calls -> ACall],
         calls' = [calls EXCEPT ![c] = e],
         calls[c].st = "idle", e.st \in {"running", "shed"},
         era' = era, breaker'.windowEnd = breaker.windowEnd
  PROVE  /\ Counted({"served", "failed"})' = Counted({"served", "failed"})
         /\ Counted({"failed"})' = Counted({"failed"})
<1>1. \A d \in Calls : d # c => calls'[d] = calls[d] OBVIOUS
<1>2. calls'[c] = e OBVIOUS
<1> QED BY <1>1, <1>2 DEF Counted

(* A call that ends in the window is counted. *)
LEMMA CountedGrows ==
  ASSUME BreakerTypeOK, NEW c \in Calls, NEW st \in {"served", "failed"}, NEW w \in Nat,
         calls[c].st = "running", UNCHANGED <<now, era>>,
         calls' = [calls EXCEPT ![c] = [Idle EXCEPT !.st = st, !.done = now, !.era = era]],
         breaker'.windowEnd = w, w <= now + WindowMs,
         NEW F, st \in F, F \subseteq {"served", "failed"}
  PROVE  /\ 1 <= Cardinality(Counted(F)')
         /\ w = breaker.windowEnd => Cardinality(Counted(F)) + 1 <= Cardinality(Counted(F)')
         /\ Cardinality(Counted(F)') \in Nat
<1> DEFINE e == [Idle EXCEPT !.st = st, !.done = now, !.era = era]
<1>1. e.st = st /\ e.done = now /\ e.era = era BY DEF Idle
<1>2. calls'[c] = e /\ \A d \in Calls : d # c => calls'[d] = calls[d]
  BY DEF BreakerTypeOK
<1>3. now \in Nat /\ WindowMs \in Nat BY BreakerAssumption DEF BreakerTypeOK
<1> HIDE DEF e
<1>4. Counted(F)' \subseteq Calls /\ Counted(F) \subseteq Calls BY DEF Counted
<1>5. c \in Counted(F)' BY <1>1, <1>2, <1>3 DEF Counted
<1>6. c \notin Counted(F) BY DEF Counted
<1>7. w = breaker.windowEnd => Counted(F) \subseteq Counted(F)'
  <2> SUFFICES ASSUME w = breaker.windowEnd, NEW d \in Counted(F) PROVE d \in Counted(F)'
    OBVIOUS
  <2>1. d # c /\ d \in Calls BY <1>6 DEF Counted
  <2> QED BY <1>2, <2>1 DEF Counted
<1>8. Cardinality({}) + 1 <= Cardinality(Counted(F)') BY <1>4, <1>5, OneMore
<1>9. Cardinality({}) = 0 BY FS_EmptySet
<1> QED BY <1>4, <1>5, <1>6, <1>7, <1>8, <1>9, OneMore, CallsFinite

(* An outcome that reaches a closed or open breaker is counted, and opens    *)
(* it only with enough of them.                                             *)
LEMMA OutcomeCounted ==
  ASSUME BreakerInv, NEW c \in Calls, NEW st \in {"served", "failed"},
         Settle(c, st, IF st = "served" THEN Success(breaker) ELSE Failure(breaker)),
         breaker.state # "half-open"
  PROVE  /\ BreakerInv'
         /\ breaker.state = "closed" /\ breaker'.state = "open" =>
              /\ st = "failed" /\ (now < breaker'.windowEnd \/ WindowMs = 0)
              /\ breaker'.total >= MinRequests
              /\ breaker'.failures * ThresholdDen >= ThresholdNum * breaker'.total
<1> DEFINE r == Roll(breaker)
           e == [Idle EXCEPT !.st = st, !.done = now, !.era = era]
           one == [r EXCEPT !.total = @ + 1]
           both == [one EXCEPT !.failures = @ + 1]
           E == {"served", "failed"}
           X == {"failed"}
<1>0. /\ breaker \in ABreaker /\ now \in Nat /\ calls \in [Calls -> ACall]
      /\ lastProbe \in Nat \cup {NoTime} /\ era \in Nat /\ WindowMs \in Nat /\ ResetMs \in Nat
  BY BreakerAssumption DEF BreakerInv, BreakerTypeOK, ABreaker, ACall, Outcomes
<1>1. /\ breaker.windowEnd <= now + WindowMs
      /\ breaker.total <= Cardinality(Counted(E))
      /\ breaker.failures <= Cardinality(Counted(X))
      /\ lastProbe <= now
      /\ breaker.state = "closed" => lastProbe = NoTime
      /\ breaker.state = "open" /\ lastProbe # NoTime => breaker.openUntil >= lastProbe + ResetMs
  BY DEF BreakerInv
<1>2. /\ calls[c].st = "running" /\ UNCHANGED now
      /\ calls' = [calls EXCEPT ![c] = e]
      /\ era' = era /\ lastProbe' = lastProbe
      /\ breaker' = IF st = "served" THEN Success(breaker) ELSE Failure(breaker)
  BY DEF Settle
<1>3. /\ r \in ABreaker /\ r.state = breaker.state /\ r.openUntil = breaker.openUntil
      /\ r.probing = breaker.probing
      /\ IF now >= breaker.windowEnd
         THEN r.failures = 0 /\ r.total = 0 /\ r.windowEnd = now + WindowMs
         ELSE r = breaker
  BY <1>0, BreakerFields
<1>4. breaker' = IF st = "served" THEN one ELSE Trip(both)
  BY <1>2 DEF Success, Failure
<1> HIDE DEF r, e
<1>a. /\ one \in ABreaker /\ one.state = r.state /\ one.openUntil = r.openUntil
      /\ one.total = r.total + 1 /\ one.failures = r.failures /\ one.windowEnd = r.windowEnd
  BY <1>3 DEF ABreaker
<1> HIDE DEF one
<1>5. /\ both \in ABreaker /\ both.state = r.state /\ both.openUntil = r.openUntil
      /\ both.total = r.total + 1 /\ both.failures = r.failures + 1
      /\ both.windowEnd = r.windowEnd
  BY <1>a DEF ABreaker
<1> HIDE DEF both
<1>6. /\ Open(both) \in ABreaker /\ Open(both).state = "open"
      /\ Open(both).openUntil = now + ResetMs
      /\ Open(both).failures = both.failures /\ Open(both).total = both.total
      /\ Open(both).windowEnd = both.windowEnd
  BY <1>0, <1>5, BreakerFields
<1>7. \/ st = "served" /\ breaker' = one
      \/ st = "failed" /\ breaker' = both
      \/ /\ st = "failed" /\ breaker' = Open(both)
         /\ both.total >= MinRequests /\ both.failures * ThresholdDen >= ThresholdNum * both.total
  BY <1>4 DEF Trip
<1>8. /\ breaker' \in ABreaker /\ breaker'.windowEnd = r.windowEnd
      /\ breaker'.total = r.total + 1
      /\ breaker'.failures = IF st = "failed" THEN r.failures + 1 ELSE r.failures
      /\ \/ breaker'.state = breaker.state /\ breaker'.openUntil = breaker.openUntil
         \/ /\ breaker'.state = "open" /\ breaker'.openUntil = now + ResetMs /\ st = "failed"
            /\ breaker'.total >= MinRequests
            /\ breaker'.failures * ThresholdDen >= ThresholdNum * breaker'.total
  BY <1>3, <1>a, <1>5, <1>6, <1>7
<1>9. r.windowEnd \in Nat /\ r.windowEnd <= now + WindowMs /\ (now < r.windowEnd \/ WindowMs = 0)
  BY <1>0, <1>1, <1>3 DEF ABreaker
<1>10. BreakerTypeOK BY DEF BreakerInv
<1>11. calls' = [calls EXCEPT ![c] = [Idle EXCEPT !.st = st, !.done = now, !.era = era]]
  BY <1>2 DEF e
<1>12. /\ 1 <= Cardinality(Counted(E)')
       /\ r.windowEnd = breaker.windowEnd => Cardinality(Counted(E)) + 1 <= Cardinality(Counted(E)')
       /\ Cardinality(Counted(E)') \in Nat
  BY <1>2, <1>8, <1>9, <1>10, <1>11, CountedGrows
<1>13. st = "failed" =>
       /\ 1 <= Cardinality(Counted(X)')
       /\ r.windowEnd = breaker.windowEnd => Cardinality(Counted(X)) + 1 <= Cardinality(Counted(X)')
       /\ Cardinality(Counted(X)') \in Nat
  BY <1>2, <1>8, <1>9, <1>10, <1>11, CountedGrows
<1>14. st = "served" /\ r.windowEnd = breaker.windowEnd => Counted(X) \subseteq Counted(X)'
  <2> SUFFICES ASSUME st = "served", r.windowEnd = breaker.windowEnd, NEW d \in Counted(X)
               PROVE  d \in Counted(X)'
    OBVIOUS
  <2>1. d # c /\ d \in Calls BY <1>2 DEF Counted
  <2>2. calls'[d] = calls[d] BY <1>0, <1>2, <2>1
  <2> QED BY <1>2, <1>8, <2>1, <2>2 DEF Counted
<1>15. Counted(X)' \subseteq Calls /\ Counted(X) \subseteq Calls /\ Counted(E) \subseteq Calls
  BY DEF Counted
<1>16. /\ Cardinality(Counted(X)') \in Nat /\ Cardinality(Counted(X)) \in Nat
       /\ Cardinality(Counted(E)) \in Nat
       /\ st = "served" /\ r.windowEnd = breaker.windowEnd
            => Cardinality(Counted(X)) <= Cardinality(Counted(X)')
  BY <1>14, <1>15, CallsFinite, NoFewer
<1>17. breaker'.total <= Cardinality(Counted(E)')
  <2>1. CASE now >= breaker.windowEnd BY <2>1, <1>3, <1>8, <1>12
  <2>2. CASE ~(now >= breaker.windowEnd)
    BY <2>2, <1>0, <1>1, <1>3, <1>8, <1>12, <1>16 DEF ABreaker
  <2> QED BY <2>1, <2>2
<1>18. breaker'.failures <= Cardinality(Counted(X)')
  <2>1. CASE now >= breaker.windowEnd BY <2>1, <1>3, <1>8, <1>13, <1>16
  <2>2. CASE ~(now >= breaker.windowEnd)
    BY <2>2, <1>0, <1>1, <1>3, <1>8, <1>13, <1>16 DEF ABreaker
  <2> QED BY <2>1, <2>2
<1>19. calls' \in [Calls -> ACall]
  <2>1. e \in ACall BY <1>0 DEF e, ACall, Idle, Outcomes, NoTime
  <2> QED BY <2>1, <1>0, <1>2
<1>20. BreakerTypeOK'
  BY <1>0, <1>2, <1>8, <1>19 DEF BreakerTypeOK, ABreaker, ACall, Outcomes
<1>21. breaker'.state # "half-open" BY <1>8
<1>22. /\ lastProbe' <= now' /\ breaker'.windowEnd <= now' + WindowMs
       /\ breaker'.state = "closed" => lastProbe' = NoTime
       /\ breaker'.state = "open" /\ lastProbe' # NoTime => breaker'.openUntil >= lastProbe' + ResetMs
  <2>1. breaker'.state = "closed" => breaker.state = "closed" BY <1>8
  <2>a. \/ breaker'.state = breaker.state /\ breaker'.openUntil = breaker.openUntil
        \/ breaker'.openUntil = now + ResetMs
    BY <1>8
  <2>2. breaker'.state = "open" =>
          \/ breaker'.openUntil = now + ResetMs
          \/ breaker.state = "open" /\ breaker'.openUntil = breaker.openUntil
    BY ONLY <2>a
  <2>3. lastProbe # NoTime => now + ResetMs >= lastProbe + ResetMs BY <1>0, <1>1
  <2> QED BY <2>1, <2>2, <2>3, <1>1, <1>2, <1>8, <1>9
<1>23. BreakerInv' BY <1>17, <1>18, <1>20, <1>21, <1>22 DEF BreakerInv, HalfOpenHasProbe
<1>24. breaker.state = "closed" /\ breaker'.state = "open" =>
         /\ st = "failed" /\ (now < breaker'.windowEnd \/ WindowMs = 0)
         /\ breaker'.total >= MinRequests
         /\ breaker'.failures * ThresholdDen >= ThresholdNum * breaker'.total
  BY <1>8, <1>9
<1> QED BY <1>23, <1>24

(* An outcome that reaches a half-open breaker decides it. *)
LEMMA OutcomeDecides ==
  ASSUME BreakerInv, NEW c \in Calls, NEW st, NEW after,
         Settle(c, st, after), breaker.state = "half-open",
         after = Open(breaker) \/ after = Close(breaker)
  PROVE  BreakerInv'
<1>0. /\ breaker \in ABreaker /\ now \in Nat /\ calls \in [Calls -> ACall]
      /\ lastProbe \in Nat \cup {NoTime} /\ era \in Nat /\ WindowMs \in Nat /\ ResetMs \in Nat
  BY BreakerAssumption DEF BreakerInv, BreakerTypeOK, ABreaker, ACall, Outcomes
<1>1. /\ breaker.windowEnd <= now + WindowMs
      /\ breaker.total <= Cardinality(Counted({"served", "failed"}))
      /\ breaker.failures <= Cardinality(Counted({"failed"}))
      /\ lastProbe <= now
  BY DEF BreakerInv
<1> DEFINE e == [Idle EXCEPT !.st = "settled"]
<1>2. /\ calls[c].st = "running" /\ UNCHANGED now /\ breaker' = after
      /\ calls' = [calls EXCEPT ![c] = e]
      /\ era' = IF after.state = "closed" THEN era + 1 ELSE era
      /\ lastProbe' = IF after.state = "closed" THEN NoTime ELSE lastProbe
  BY DEF Settle
<1>3. e \in ACall /\ e.st = "settled" BY DEF e, ACall, Idle, Outcomes, NoTime
<1> HIDE DEF e
<1>4. /\ Open(breaker) \in ABreaker /\ Open(breaker).state = "open"
      /\ Open(breaker).openUntil = now + ResetMs
      /\ Open(breaker).failures = breaker.failures /\ Open(breaker).total = breaker.total
      /\ Open(breaker).windowEnd = breaker.windowEnd
      /\ Close(breaker) \in ABreaker /\ Close(breaker).state = "closed"
      /\ Close(breaker).total = 0 /\ Close(breaker).failures = 0
      /\ Close(breaker).windowEnd = now + WindowMs
  BY <1>0, BreakerFields
<1>5. calls' \in [Calls -> ACall] BY <1>0, <1>2, <1>3
<1>6. BreakerTypeOK'
  <2>1. /\ breaker' \in ABreaker /\ now' \in Nat /\ era' \in Nat
        /\ lastProbe' \in Nat \cup {NoTime}
    BY <1>0, <1>2, <1>4
  <2> QED BY <1>5, <2>1 DEF BreakerTypeOK, ABreaker, ACall, Outcomes
<1>7. ASSUME NEW F, F \subseteq {"served", "failed"}
      PROVE  Cardinality(Counted(F)') \in Nat /\ Cardinality(Counted(F)) \in Nat
  <2>1. Counted(F)' \subseteq Calls /\ Counted(F) \subseteq Calls BY DEF Counted
  <2> QED BY <2>1, CallsFinite
<1>8. CASE after = Open(breaker)
  <2>1. ASSUME NEW F, F \subseteq {"served", "failed"}
        PROVE  Counted(F)' = Counted(F)
    <3>1. \A d \in Calls : d # c => calls'[d] = calls[d] BY <1>0, <1>2
    <3>2. calls'[c].st = "settled" BY <1>0, <1>2, <1>3
    <3>3. breaker'.windowEnd = breaker.windowEnd /\ era' = era BY <1>8, <1>2, <1>4
    <3> QED BY <1>2, <2>1, <3>1, <3>2, <3>3 DEF Counted
  <2>2. /\ Counted({"served", "failed"})' = Counted({"served", "failed"})
        /\ Counted({"failed"})' = Counted({"failed"})
    BY <2>1
  <2>3. /\ breaker'.state = "open" /\ breaker'.openUntil = now + ResetMs
        /\ breaker'.failures = breaker.failures /\ breaker'.total = breaker.total
        /\ breaker'.windowEnd = breaker.windowEnd /\ lastProbe' = lastProbe
    BY <1>8, <1>2, <1>4
  <2>4. lastProbe # NoTime => now + ResetMs >= lastProbe + ResetMs BY <1>0, <1>1
  <2> QED BY <1>1, <1>2, <1>6, <2>2, <2>3, <2>4 DEF BreakerInv, HalfOpenHasProbe
<1>9. CASE after = Close(breaker)
  <2>1. /\ breaker'.state = "closed" /\ breaker'.failures = 0 /\ breaker'.total = 0
        /\ breaker'.windowEnd = now + WindowMs /\ lastProbe' = NoTime
    BY <1>9, <1>2, <1>4
  <2>2. /\ 0 <= Cardinality(Counted({"served", "failed"})')
        /\ 0 <= Cardinality(Counted({"failed"})')
    BY <1>7
  <2>3. NoTime <= now BY <1>0 DEF NoTime
  <2>4. now' = now BY <1>2
  <2>5. now + WindowMs <= now + WindowMs BY <1>0
  <2> QED BY <1>6, <2>1, <2>2, <2>3, <2>4, <2>5 DEF BreakerInv, HalfOpenHasProbe
<1> QED BY <1>8, <1>9

(* One step of the breaker or of the clock: the invariant, and what the two  *)
(* action properties ask of it.                                             *)
SparesAction ==
  \A c \in Calls :
    calls[c].st = "idle" /\ calls'[c].st = "running" /\ calls'[c].probe
      => lastProbe = NoTime \/ now - lastProbe >= ResetMs

TripAction ==
  breaker.state = "closed" /\ breaker'.state = "open" =>
    /\ Cardinality(Recent({"served", "failed"})') >= MinRequests
    /\ Cardinality(Recent({"failed"})') * ThresholdDen >= ThresholdNum * MinRequests

LEMMA BreakerCalls ==
  ASSUME BreakerInv, NEW c \in Calls, Call(c)
  PROVE  BreakerInv' /\ SparesAction /\ TripAction
<1>0. /\ breaker \in ABreaker /\ now \in Nat /\ calls \in [Calls -> ACall]
      /\ lastProbe \in Nat \cup {NoTime} /\ era \in Nat /\ WindowMs \in Nat /\ ResetMs \in Nat
  BY BreakerAssumption DEF BreakerInv, BreakerTypeOK, ABreaker, ACall, Outcomes
<1>1. /\ breaker.windowEnd <= now + WindowMs
      /\ breaker.total <= Cardinality(Counted({"served", "failed"}))
      /\ breaker.failures <= Cardinality(Counted({"failed"}))
      /\ lastProbe <= now
      /\ breaker.state = "closed" => lastProbe = NoTime
      /\ breaker.state = "open" /\ lastProbe # NoTime => breaker.openUntil >= lastProbe + ResetMs
      /\ breaker.state = "half-open" => breaker.probing
  BY DEF BreakerInv, HalfOpenHasProbe
<1> DEFINE p == breaker.state # "closed"
           i1 == [Idle EXCEPT !.st = "running"]
           i2 == [i1 EXCEPT !.probe = p]
           e == [i2 EXCEPT !.since = now]
<1>2. /\ calls[c].st = "idle" /\ UNCHANGED <<now, era>>
      /\ breaker' = Admit(breaker) /\ Allowed(breaker)
      /\ calls' = [calls EXCEPT ![c] = e]
      /\ lastProbe' = IF p THEN now ELSE lastProbe
  BY DEF Call, Arrives
<1>3. p \in BOOLEAN OBVIOUS
<1> HIDE DEF p
<1>4. i1 \in ACall /\ i1.st = "running" BY DEF ACall, Idle, Outcomes, NoTime
<1> HIDE DEF i1
<1>5. i2 \in ACall /\ i2.st = "running" /\ i2.probe = p BY <1>3, <1>4 DEF ACall
<1> HIDE DEF i2
<1>6. e \in ACall /\ e.st = "running" /\ e.probe = p /\ e.since = now BY <1>0, <1>5 DEF ACall
<1> HIDE DEF e
<1>7. /\ Admit(breaker) \in ABreaker /\ (breaker.state = "closed" => Admit(breaker) = breaker)
      /\ (breaker.state # "closed" => Admit(breaker).state = "half-open" /\ Admit(breaker).probing)
      /\ Admit(breaker).failures = breaker.failures /\ Admit(breaker).total = breaker.total
      /\ Admit(breaker).windowEnd = breaker.windowEnd
  BY <1>0, BreakerFields
<1>8. /\ Counted({"served", "failed"})' = Counted({"served", "failed"})
      /\ Counted({"failed"})' = Counted({"failed"})
  BY <1>0, <1>2, <1>6, <1>7, CountedKept
<1>9. calls' \in [Calls -> ACall] /\ calls'[c] = e /\ \A d \in Calls : d # c => calls'[d] = calls[d]
  BY <1>0, <1>2, <1>6
<1>10. BreakerTypeOK'
  <2>1. /\ breaker' \in ABreaker /\ now' \in Nat /\ era' \in Nat
        /\ lastProbe' \in Nat \cup {NoTime}
    BY <1>0, <1>2, <1>7
  <2> QED BY <1>9, <2>1 DEF BreakerTypeOK, ABreaker, ACall, Outcomes
<1>11. HalfOpenHasProbe'
  <2> SUFFICES ASSUME breaker'.state = "half-open"
               PROVE  /\ breaker'.probing
                      /\ calls'[c].st = "running" /\ calls'[c].probe /\ calls'[c].since = lastProbe'
    BY DEF HalfOpenHasProbe
  <2>1. p BY <1>2, <1>7 DEF p
  <2>2. breaker'.probing BY <2>1, <1>2, <1>7 DEF p
  <2> QED BY <2>1, <2>2, <1>2, <1>6, <1>9
<1>12. /\ breaker'.windowEnd <= now' + WindowMs /\ lastProbe' <= now'
       /\ breaker'.state = "closed" => lastProbe' = NoTime
       /\ breaker'.state # "open" 
  <2>1. CASE p BY <2>1, <1>0, <1>1, <1>2, <1>7 DEF p
  <2>2. CASE ~p BY <2>2, <1>0, <1>1, <1>2, <1>7 DEF p
  <2> QED BY <2>1, <2>2
<1>13. BreakerInv' BY <1>1, <1>2, <1>7, <1>8, <1>10, <1>11, <1>12 DEF BreakerInv
<1>14. SparesAction
  <2> SUFFICES ASSUME NEW d \in Calls, calls[d].st = "idle", calls'[d].st = "running", calls'[d].probe
               PROVE  lastProbe = NoTime \/ now - lastProbe >= ResetMs
    BY DEF SparesAction
  <2>1. d = c BY <1>9
  <2>2. p BY <2>1, <1>6, <1>9
  <2>3. breaker.state = "open" /\ now >= breaker.openUntil
    BY <2>2, <1>1, <1>2 DEF Allowed, p
  <2> QED BY <2>3, <1>0, <1>1 DEF ABreaker, NoTime
<1>15. TripAction BY <1>12 DEF TripAction
<1> QED BY <1>13, <1>14, <1>15

LEMMA BreakerOutcomes ==
  ASSUME WindowMs > 0, BreakerInv, NEW c \in Calls, Succeeds(c) \/ Fails(c)
  PROVE  BreakerInv' /\ SparesAction /\ TripAction
<1>0. /\ breaker \in ABreaker /\ now \in Nat /\ calls \in [Calls -> ACall] /\ WindowMs \in Nat
      /\ ThresholdDen \in Nat /\ ThresholdNum \in Nat /\ MinRequests \in Nat
  BY BreakerAssumption DEF BreakerInv, BreakerTypeOK, ABreaker, ACall, Outcomes
<1>1. PICK st \in {"served", "failed"} :
        Settle(c, st, IF st = "served" THEN Success(breaker) ELSE Failure(breaker))
  BY DEF Succeeds, Fails
<1>2. SparesAction
  <2>1. calls[c].st = "running" /\ \A d \in Calls : d # c => calls'[d] = calls[d]
    BY <1>0, <1>1 DEF Settle
  <2> QED BY <2>1 DEF SparesAction
<1>3. CASE breaker.state = "half-open"
  <2>1. (IF st = "served" THEN Success(breaker) ELSE Failure(breaker))
          \in {Open(breaker), Close(breaker)}
    BY <1>3 DEF Success, Failure
  <2>2. BreakerInv' BY <1>1, <1>3, <2>1, OutcomeDecides
  <2> QED BY <1>2, <1>3, <2>2 DEF TripAction
<1>4. CASE breaker.state # "half-open"
  <2>1. /\ BreakerInv'
        /\ breaker.state = "closed" /\ breaker'.state = "open" =>
              /\ st = "failed" /\ (now < breaker'.windowEnd \/ WindowMs = 0)
              /\ breaker'.total >= MinRequests
              /\ breaker'.failures * ThresholdDen >= ThresholdNum * breaker'.total
    BY <1>1, <1>4, OutcomeCounted
  <2>2. now' = now BY <1>1 DEF Settle
  <2>3. TripAction
    <3> SUFFICES ASSUME breaker.state = "closed", breaker'.state = "open"
                 PROVE  /\ Cardinality(Recent({"served", "failed"})') >= MinRequests
                        /\ Cardinality(Recent({"failed"})') * ThresholdDen >= ThresholdNum * MinRequests
      BY DEF TripAction
    <3>1. now < breaker'.windowEnd BY <2>1, <1>0
    <3>2. ASSUME NEW F PROVE Counted(F)' \subseteq Recent(F)' /\ Recent(F)' \subseteq Calls
      <4>1. ASSUME NEW d \in Counted(F)' PROVE d \in Recent(F)'
        <5>1. /\ d \in Calls /\ calls'[d].st \in F /\ calls'[d].era = era'
              /\ calls'[d].done >= breaker'.windowEnd - WindowMs
          BY <4>1 DEF Counted
        <5>2. calls'[d].done \in Int /\ breaker'.windowEnd \in Int
          BY <5>1, <2>1 DEF BreakerInv, BreakerTypeOK, NoTime
        <5>3. now' - calls'[d].done < WindowMs BY <5>1, <5>2, <3>1, <2>2, <1>0
        <5> QED BY <5>1, <5>3 DEF Recent
      <4> QED BY <4>1 DEF Recent
    <3>3. ASSUME NEW F
          PROVE  /\ Cardinality(Counted(F)') <= Cardinality(Recent(F)')
                 /\ Cardinality(Counted(F)') \in Nat /\ Cardinality(Recent(F)') \in Nat
      <4>1. Counted(F)' \subseteq Calls BY <3>2
      <4> QED BY <3>2, <4>1, NoFewer, CallsFinite
    <3> DEFINE t == breaker'.total
               f == breaker'.failures
               ce == Cardinality(Recent({"served", "failed"})')
               cf == Cardinality(Recent({"failed"})')
    <3>4. /\ t \in Nat /\ f \in Nat /\ ce \in Nat /\ cf \in Nat
          /\ t <= Cardinality(Counted({"served", "failed"})')
          /\ f <= Cardinality(Counted({"failed"})')
      BY <2>1, <3>3 DEF BreakerInv, BreakerTypeOK
    <3>5. t <= ce /\ f <= cf BY <3>3, <3>4
    <3>6. t >= MinRequests /\ f * ThresholdDen >= ThresholdNum * t BY <2>1
    <3> HIDE DEF t, f, ce, cf
    <3>7. f * ThresholdDen <= cf * ThresholdDen BY <3>4, <3>5, <1>0, MoreTimes
    <3>8. ThresholdNum * MinRequests <= ThresholdNum * t BY <3>4, <3>6, <1>0, MoreTimes
    <3>9. cf * ThresholdDen \in Int /\ f * ThresholdDen \in Int /\ ThresholdNum * t \in Int
          /\ ThresholdNum * MinRequests \in Int
      BY <3>4, <1>0
    <3>10. cf * ThresholdDen >= ThresholdNum * MinRequests BY <3>6, <3>7, <3>8, <3>9
    <3>11. ce >= MinRequests BY <3>4, <3>5, <3>6, <1>0
    <3> QED BY <3>10, <3>11 DEF ce, cf
  <2> QED BY <1>2, <2>1, <2>3
<1> QED BY <1>3, <1>4

LEMMA BreakerKept ==
  ASSUME WindowMs > 0, BreakerInv, [BreakerStep \/ BreakerTick]_<<now, breakerVars>>
  PROVE  BreakerInv' /\ [SparesAction]_<<now, breakerVars>> /\ [TripAction]_<<now, breakerVars>>
<1>0. /\ breaker \in ABreaker /\ now \in Nat /\ calls \in [Calls -> ACall]
      /\ lastProbe \in Nat \cup {NoTime} /\ era \in Nat /\ WindowMs \in Nat /\ ResetMs \in Nat
  BY BreakerAssumption DEF BreakerInv, BreakerTypeOK, ABreaker, ACall, Outcomes
<1>1. ASSUME NEW c \in Calls, Call(c) PROVE BreakerInv' /\ SparesAction /\ TripAction
  BY <1>1, BreakerCalls
<1>2. ASSUME NEW c \in Calls, Shed(c) PROVE BreakerInv' /\ SparesAction /\ TripAction
  <2> DEFINE e == [calls[c] EXCEPT !.st = "shed"]
  <2>1. /\ calls[c].st = "idle" /\ UNCHANGED <<now, breaker, lastProbe, era>>
        /\ calls' = [calls EXCEPT ![c] = e]
    BY <1>0, <1>2 DEF Shed, Arrives
  <2>2. calls[c] \in ACall BY <1>0
  <2>3. e \in ACall /\ e.st = "shed" BY <2>2 DEF ACall, Outcomes
  <2> HIDE DEF e
  <2>4. /\ Counted({"served", "failed"})' = Counted({"served", "failed"})
        /\ Counted({"failed"})' = Counted({"failed"})
    BY <1>0, <2>1, <2>3, CountedKept
  <2>5. /\ calls' \in [Calls -> ACall] /\ calls'[c] = e
        /\ \A d \in Calls : d # c => calls'[d] = calls[d]
    BY <1>0, <2>1, <2>3
  <2>6. BreakerTypeOK' BY <1>0, <2>1, <2>5 DEF BreakerTypeOK, ABreaker, ACall, Outcomes
  <2>7. HalfOpenHasProbe'
    <3> SUFFICES ASSUME breaker'.state = "half-open"
                 PROVE  /\ breaker'.probing
                        /\ \E d \in Calls : /\ calls'[d].st = "running" /\ calls'[d].probe
                                            /\ calls'[d].since = lastProbe'
      BY DEF HalfOpenHasProbe
    <3>1. breaker.state = "half-open" BY <2>1
    <3>2. breaker.probing BY <3>1 DEF BreakerInv, HalfOpenHasProbe
    <3>3. PICK d \in Calls : calls[d].st = "running" /\ calls[d].probe /\ calls[d].since = lastProbe
      BY <3>1 DEF BreakerInv, HalfOpenHasProbe
    <3>4. d # c BY <3>3, <2>1
    <3> QED BY <3>2, <3>3, <3>4, <2>1, <2>5
  <2>8. BreakerInv' BY <2>1, <2>4, <2>6, <2>7 DEF BreakerInv
  <2> QED BY <2>1, <2>3, <2>5, <2>8 DEF SparesAction, TripAction
<1>3. ASSUME NEW c \in Calls, Succeeds(c) \/ Fails(c) PROVE BreakerInv' /\ SparesAction /\ TripAction
  BY <1>3, BreakerOutcomes
<1>4. CASE BreakerTick
  <2>1. now' = now + 1 /\ UNCHANGED <<breaker, calls, lastProbe, era>>
    BY <1>4 DEF BreakerTick, Tick, breakerVars
  <2>2. /\ Counted({"served", "failed"})' = Counted({"served", "failed"})
        /\ Counted({"failed"})' = Counted({"failed"})
    BY <2>1 DEF Counted
  <2>3. BreakerTypeOK' /\ HalfOpenHasProbe'
    BY <1>0, <2>1 DEF BreakerInv, BreakerTypeOK, HalfOpenHasProbe
  <2>4. breaker.windowEnd <= now + WindowMs /\ lastProbe <= now /\ breaker.windowEnd \in Nat
    BY <1>0 DEF BreakerInv, ABreaker
  <2>5. breaker'.windowEnd <= now' + WindowMs /\ lastProbe' <= now'
    BY <2>1, <2>4, <1>0 DEF NoTime
  <2>6. BreakerInv' BY <2>1, <2>2, <2>3, <2>5 DEF BreakerInv
  <2> QED BY <2>1, <2>6 DEF SparesAction, TripAction
<1>5. CASE UNCHANGED <<now, breakerVars>>
  <2>1. UNCHANGED <<now, breaker, calls, lastProbe, era>> BY <1>5 DEF breakerVars
  <2>2. /\ Counted({"served", "failed"})' = Counted({"served", "failed"})
        /\ Counted({"failed"})' = Counted({"failed"})
    BY <2>1 DEF Counted
  <2>3. BreakerTypeOK' /\ HalfOpenHasProbe'
    BY <2>1 DEF BreakerInv, BreakerTypeOK, HalfOpenHasProbe
  <2>4. BreakerInv' BY <2>1, <2>2, <2>3 DEF BreakerInv
  <2> QED BY <1>5, <2>4
<1>6. CASE BreakerStep
  <2>1. PICK c \in Calls : Call(c) \/ Shed(c) \/ Succeeds(c) \/ Fails(c)
    BY <1>6 DEF BreakerStep, TimesOut
  <2> QED BY <2>1, <1>1, <1>2, <1>3
<1> QED BY <1>4, <1>5, <1>6

(* A breaker with a window opens on evidence of that window, keeps its       *)
(* probes ResetMs apart, and never stands half-open without a probe that is  *)
(* still out.  Any older call's outcome may move it before the probe does   *)
(* (breaker.ts 69-81).                                                      *)
THEOREM BreakerTheorem ==
  ASSUME WindowMs > 0
  PROVE  Spec => [](BreakerTypeOK /\ HalfOpenHasProbe) /\ ProbesSpaced /\ TripJustified
<1>1. BreakerInv /\ [Next]_mcVars =>
        BreakerInv' /\ [SparesAction]_<<now, breakerVars>> /\ [TripAction]_<<now, breakerVars>>
  BY EachPart, BreakerKept
<1>2. Init => BreakerInv
  <2> SUFFICES ASSUME Init PROVE BreakerInv
    OBVIOUS
  <2>1. /\ now = 0 /\ calls = [c \in Calls |-> Idle] /\ lastProbe = NoTime /\ era = 0
        /\ breaker = [state |-> "closed", failures |-> 0, total |-> 0,
                      windowEnd |-> WindowMs, openUntil |-> 0, probing |-> FALSE]
    BY DEF Init, ClockInit, BreakerInit
  <2>2. BreakerTypeOK BY <2>1, BreakerAssumption DEF BreakerTypeOK, Idle, NoTime
  <2>3. /\ breaker.state = "closed" /\ breaker.failures = 0 /\ breaker.total = 0
        /\ breaker.windowEnd = WindowMs
    BY <2>1
  <2>4. ASSUME NEW F PROVE Cardinality(Counted(F)) \in Nat
    <3>1. Counted(F) \subseteq Calls BY DEF Counted
    <3> QED BY <3>1, CallsFinite
  <2>5. /\ 0 <= Cardinality(Counted({"served", "failed"}))
        /\ 0 <= Cardinality(Counted({"failed"}))
    BY <2>4
  <2>6. WindowMs <= 0 + WindowMs /\ NoTime <= 0 BY BreakerAssumption DEF NoTime
  <2> QED BY <2>1, <2>2, <2>3, <2>5, <2>6 DEF BreakerInv, HalfOpenHasProbe
<1>3. BreakerInv => BreakerTypeOK /\ HalfOpenHasProbe BY DEF BreakerInv
<1> QED BY <1>1, <1>2, <1>3, PTL DEF Spec, ProbesSpaced, TripJustified, SparesAction, TripAction

-----------------------------------------------------------------------------
(* A proxied call: its timer runs only while the call does. *)
THEOREM ProxyTheorem == Spec => [](ProxyTypeOK /\ NoTimerLeft)
<1> DEFINE Inv == ProxyTypeOK /\ NoTimerLeft
<1>1. Init => Inv BY ProxyAssumption DEF Init, ProxyInit, ProxyTypeOK, NoTimerLeft
<1>2. Inv /\ [ProxyStep]_proxyVars => Inv'
  <2> SUFFICES ASSUME Inv, [ProxyStep]_proxyVars PROVE Inv'
    OBVIOUS
  <2>1. /\ call \in {"ready", "fetching", "streaming", "ended"}
        /\ deadline \in {"off", "set", "fired"} /\ chunks \in 0..MaxChunks
        /\ deadline = "set" => call \in {"fetching", "streaming"}
        /\ MaxChunks \in Nat
    BY ProxyAssumption DEF ProxyTypeOK, NoTimerLeft
  <2>2. CASE OffOrigin BY <2>1, <2>2 DEF OffOrigin, ProxyTypeOK, NoTimerLeft
  <2>3. CASE Fetches BY <2>1, <2>3 DEF Fetches, ProxyTypeOK, NoTimerLeft
  <2>4. CASE FetchFails
    BY <2>1, <2>4 DEF FetchFails, FetchRejected, Cleared, ProxyTypeOK, NoTimerLeft
  <2>5. CASE UpstreamAnswers
    BY <2>1, <2>5 DEF UpstreamAnswers, PassesOn, Cleared, ProxyTypeOK, NoTimerLeft
  <2>6. CASE ChunkComes
    <3>1. /\ call = "streaming" /\ chunks < MaxChunks
          /\ \/ chunks' = chunks + 1 /\ UNCHANGED <<call, deadline>>
             \/ call' = "ended" /\ deadline' = Cleared /\ UNCHANGED chunks
      BY <2>6 DEF ChunkComes, GeneratorEnds
    <3>2. chunks' \in 0..MaxChunks BY <2>1, <3>1
    <3> QED BY <2>1, <3>1, <3>2 DEF Cleared, ProxyTypeOK, NoTimerLeft
  <2>7. CASE BodyEnds
    BY <2>1, <2>7 DEF BodyEnds, GeneratorEnds, Cleared, ProxyTypeOK, NoTimerLeft
  <2>8. CASE DeadlineFires BY <2>1, <2>8 DEF DeadlineFires, ProxyTypeOK, NoTimerLeft
  <2>9. CASE ClientGone BY <2>1, <2>9 DEF ClientGone, ProxyTypeOK, NoTimerLeft
  <2>10. CASE UNCHANGED proxyVars BY <2>1, <2>10 DEF proxyVars, ProxyTypeOK, NoTimerLeft
  <2> QED BY <2>2, <2>3, <2>4, <2>5, <2>6, <2>7, <2>8, <2>9, <2>10 DEF ProxyStep
<1>3. Inv /\ [Next]_mcVars => Inv' BY <1>2, EachPart
<1> QED BY <1>1, <1>3, PTL DEF Spec

-----------------------------------------------------------------------------
(* An event stream.  What was written, what is on its way to the generator  *)
(* and what is queued are one line of events, in the order they were sent;  *)
(* with the dropped ones they are all the channel took.                     *)

Line(w, p, q, n) ==
  /\ \A i \in DOMAIN w : w[i] \in 1..n
  /\ \A i, j \in DOMAIN w : i < j => w[i] < w[j]
  /\ \A k \in DOMAIN q : q[k] \in 0..n
  /\ \A k, l \in DOMAIN q : k < l /\ q[k] # Beat /\ q[l] # Beat => q[k] < q[l]
  /\ \A i \in DOMAIN w, k \in DOMAIN q : q[k] # Beat => w[i] < q[k]
  /\ p > Beat => /\ p \in 1..n
                 /\ \A i \in DOMAIN w : w[i] < p
                 /\ \A k \in DOMAIN q : q[k] # Beat => p < q[k]

OnItsWay(p) == IF p > Beat THEN {p} ELSE {}
Queued(q) == Events({q[k] : k \in DOMAIN q})

Pulls == {NoPull, Waiting, Done} \cup 0..MaxEvents

SseTypes ==
  /\ queue \in Seq(0..MaxEvents) /\ Len(queue) <= MaxQueue
  /\ pull \in Pulls
  /\ written \in Seq(1..MaxEvents)
  /\ produced \in 0..MaxEvents
  /\ accepted \subseteq 1..MaxEvents /\ dropped \subseteq 1..MaxEvents
  /\ shut \in BOOLEAN

SseInv ==
  /\ SseTypes
  /\ pull # NoPull <=> generator = "awaiting"
  /\ NoLostWakeup
  /\ pull = Done => queue = <<>> /\ shut
  /\ Line(written, pull, queue, produced)
  /\ generator = "ended" /\ producer # "threw" => shut
  /\ generator = "ended" /\ producer # "threw" /\ peer => queue = <<>>
  /\ peer \/ generator # "ended" =>
       accepted = Range(written) \cup dropped \cup OnItsWay(pull) \cup Queued(queue)

LEMMA LineAppends ==
  ASSUME NEW n \in Nat, NEW m \in Nat, NEW w \in Seq(Int), NEW p \in Int, NEW q \in Seq(Int),
         Line(w, p, q, n), NEW v \in Int, v \in 0..m, n <= m, v = 0 \/ v > n,
         NEW a, a = Append(q, v)
  PROVE  Line(w, p, a, m)
<1>1. /\ DOMAIN q = 1..Len(q) /\ DOMAIN a = 1..Len(q) + 1 /\ Len(q) \in Nat
      /\ a[Len(q) + 1] = v /\ \A k \in 1..Len(q) : a[k] = q[k]
  OBVIOUS
<1>2. Line(w, p, a, m)
  <2>1. ASSUME NEW k \in DOMAIN a
        PROVE  \/ k = Len(q) + 1 /\ a[k] = v
               \/ k \in DOMAIN q /\ k < Len(q) + 1 /\ a[k] = q[k]
    BY <1>1, <2>1
  <2>2. n <= m /\ (v = 0 \/ v > n) /\ v \in 0..m BY DEF Beat
  <2>3. \A k \in DOMAIN q : q[k] \in 0..n BY DEF Line
  <2>4. \A i \in DOMAIN w : w[i] \in 1..n BY DEF Line
  <2>5. \A k \in DOMAIN a : a[k] \in 0..m BY <2>1, <2>2, <2>3
  <2>6. \A i \in DOMAIN w : w[i] \in 1..m BY <2>2, <2>4
  <2>7. ASSUME NEW k \in DOMAIN a, NEW l \in DOMAIN a, k < l, a[k] # Beat, a[l] # Beat
        PROVE  a[k] < a[l]
    <3>1. k \in DOMAIN q /\ a[k] = q[k] /\ a[k] \in 0..n BY <1>1, <2>1, <2>3, <2>7
    <3>2. CASE l = Len(q) + 1 /\ a[l] = v BY <3>1, <3>2, <2>2, <2>7 DEF Beat
    <3>3. CASE l \in DOMAIN q /\ a[l] = q[l] BY <3>1, <3>3, <2>7 DEF Line
    <3> QED BY <3>2, <3>3, <2>1
  <2>8. ASSUME NEW i \in DOMAIN w, NEW k \in DOMAIN a, a[k] # Beat
        PROVE  w[i] < a[k]
    <3>1. CASE k = Len(q) + 1 /\ a[k] = v BY <3>1, <2>2, <2>4, <2>8 DEF Beat
    <3>2. CASE k \in DOMAIN q /\ a[k] = q[k] BY <3>2, <2>8 DEF Line
    <3> QED BY <3>1, <3>2, <2>1
  <2>9. ASSUME p > Beat
        PROVE  /\ p \in 1..m
               /\ \A i \in DOMAIN w : w[i] < p
               /\ \A k \in DOMAIN a : a[k] # Beat => p < a[k]
    <3>1. /\ p \in 1..n /\ \A i \in DOMAIN w : w[i] < p
          /\ \A k \in DOMAIN q : q[k] # Beat => p < q[k]
      BY <2>9 DEF Line
    <3>2. ASSUME NEW k \in DOMAIN a, a[k] # Beat PROVE p < a[k]
      <4>1. CASE k = Len(q) + 1 /\ a[k] = v BY <4>1, <3>1, <3>2, <2>2 DEF Beat
      <4>2. CASE k \in DOMAIN q /\ a[k] = q[k] BY <4>2, <3>1, <3>2
      <4> QED BY <4>1, <4>2, <2>1
    <3> QED BY <3>1, <3>2, <2>2
  <2>10. \A i, j \in DOMAIN w : i < j => w[i] < w[j] BY DEF Line
  <2> QED BY <2>5, <2>6, <2>7, <2>8, <2>9, <2>10 DEF Line
<1> QED BY <1>2

LEMMA QueuedAppends ==
  ASSUME NEW q \in Seq(Int), NEW v \in Int
  PROVE  Queued(Append(q, v)) = Queued(q) \cup Events({v})
<1> DEFINE a == Append(q, v)
<1>1. /\ DOMAIN q = 1..Len(q) /\ DOMAIN a = 1..Len(q) + 1 /\ Len(q) \in Nat
      /\ a[Len(q) + 1] = v /\ \A k \in 1..Len(q) : a[k] = q[k]
  OBVIOUS
<1> HIDE DEF a
<1>3. {a[k] : k \in DOMAIN a} = {q[k] : k \in DOMAIN q} \cup {v}
  <2>1. ASSUME NEW x \in {a[k] : k \in DOMAIN a} PROVE x \in {q[k] : k \in DOMAIN q} \cup {v}
    <3>1. PICK k \in 1..Len(q) + 1 : x = a[k] BY <1>1
    <3>2. k = Len(q) + 1 \/ k \in 1..Len(q) BY <1>1
    <3> QED BY <1>1, <3>1, <3>2
  <2>2. ASSUME NEW x \in {q[k] : k \in DOMAIN q} PROVE x \in {a[k] : k \in DOMAIN a}
    <3>1. PICK k \in 1..Len(q) : x = q[k] BY <1>1
    <3>2. k \in DOMAIN a /\ x = a[k] BY <1>1, <3>1
    <3> QED BY <3>2
  <2>3. v \in {a[k] : k \in DOMAIN a}
    <3>1. Len(q) + 1 \in DOMAIN a BY <1>1
    <3> QED BY <1>1, <3>1
  <2> QED BY <2>1, <2>2, <2>3
<1> QED BY <1>3 DEF a, Queued, Events

LEMMA LineBegins ==
  ASSUME NEW n \in Nat, NEW w \in Seq(Int), NEW p \in Int, NEW q \in Seq(Int),
         Line(w, p, q, n), q # <<>>
  PROVE  /\ Head(q) \in 0..n
         /\ Line(w, p, Tail(q), n)
         /\ p <= Beat => Line(w, Head(q), Tail(q), n)
         /\ Queued(q) = Queued(Tail(q)) \cup Events({Head(q)})
         /\ Events({Head(q)}) = OnItsWay(Head(q))
<1> DEFINE t == Tail(q)
           h == Head(q)
<1>1. /\ DOMAIN q = 1..Len(q) /\ DOMAIN t = 1..Len(q) - 1 /\ Len(q) \in Nat /\ Len(q) >= 1
      /\ h = q[1] /\ \A k \in 1..Len(q) - 1 : t[k] = q[k + 1]
  OBVIOUS
<1> HIDE DEF t, h
<1>2. h \in 0..n
  <2>1. 1 \in DOMAIN q BY <1>1
  <2> QED BY <1>1, <2>1 DEF Line
<1>3. \A k \in 1..Len(q) - 1 : k + 1 \in 1..Len(q) /\ 1 < k + 1 BY <1>1
<1>4. /\ \A k \in DOMAIN t : t[k] \in 0..n
      /\ \A k, l \in DOMAIN t : k < l /\ t[k] # Beat /\ t[l] # Beat => t[k] < t[l]
      /\ \A i \in DOMAIN w, k \in DOMAIN t : t[k] # Beat => w[i] < t[k]
      /\ h # Beat => \A k \in DOMAIN t : t[k] # Beat => h < t[k]
      /\ h # Beat => \A i \in DOMAIN w : w[i] < h
      /\ p > Beat => \A k \in DOMAIN t : t[k] # Beat => p < t[k]
  <2>0. \A k \in 1..Len(q) : q[k] \in Int OBVIOUS
  <2>1. \A k \in DOMAIN t : /\ k + 1 \in DOMAIN q /\ 1 < k + 1 /\ t[k] = q[k + 1]
                            /\ t[k] \in Int
    BY <1>1, <1>3, <2>0
  <2>2. 1 \in DOMAIN q /\ q[1] = h BY <1>1
  <2>3. \A k \in DOMAIN t : t[k] \in 0..n BY <2>1 DEF Line
  <2>4. ASSUME NEW k \in DOMAIN t, NEW l \in DOMAIN t, k < l, t[k] # Beat, t[l] # Beat
        PROVE  t[k] < t[l]
    <3>1. k + 1 < l + 1 BY <2>4, <1>1
    <3> QED BY <3>1, <2>1, <2>4 DEF Line
  <2>5. \A i \in DOMAIN w, k \in DOMAIN t : t[k] # Beat => w[i] < t[k] BY <2>1 DEF Line
  <2>6. h # Beat => \A k \in DOMAIN t : t[k] # Beat => h < t[k] BY <2>1, <2>2 DEF Line
  <2>7. h # Beat => \A i \in DOMAIN w : w[i] < h BY <2>2 DEF Line
  <2>8. p > Beat => \A k \in DOMAIN t : t[k] # Beat => p < t[k] BY <2>1 DEF Line
  <2> QED BY <2>3, <2>4, <2>5, <2>6, <2>7, <2>8
<1>5. Line(w, p, t, n) BY <1>4 DEF Line
<1>6. p <= Beat => Line(w, h, t, n) BY <1>2, <1>4 DEF Line, Beat
<1>7. {q[k] : k \in DOMAIN q} = {t[k] : k \in DOMAIN t} \cup {h}
  <2>1. ASSUME NEW x \in {q[k] : k \in DOMAIN q} PROVE x \in {t[k] : k \in DOMAIN t} \cup {h}
    <3>1. PICK k \in 1..Len(q) : x = q[k] BY <1>1
    <3>2. CASE k = 1 BY <1>1, <3>1, <3>2
    <3>3. CASE k # 1
      <4>1. k - 1 \in 1..Len(q) - 1 /\ (k - 1) + 1 = k BY <1>1, <3>3
      <4>2. x = t[k - 1] BY <1>1, <3>1, <4>1
      <4> QED BY <1>1, <4>1, <4>2
    <3> QED BY <3>2, <3>3
  <2>2. ASSUME NEW x \in {t[k] : k \in DOMAIN t} PROVE x \in {q[k] : k \in DOMAIN q}
    <3>1. PICK k \in 1..Len(q) - 1 : x = t[k] BY <1>1
    <3>2. k + 1 \in DOMAIN q /\ x = q[k + 1] BY <1>1, <1>3, <3>1
    <3> QED BY <3>2
  <2>3. h \in {q[k] : k \in DOMAIN q}
    <3>1. 1 \in DOMAIN q BY <1>1
    <3> QED BY <1>1, <3>1
  <2> QED BY <2>1, <2>2, <2>3
<1>8. Events({h}) = OnItsWay(h) BY <1>2 DEF Events, OnItsWay, Beat
<1>9. Queued(q) = Queued(t) \cup Events({h}) BY <1>7 DEF Queued, Events
<1> QED BY <1>2, <1>5, <1>6, <1>8, <1>9 DEF t, h

LEMMA LineWritten ==
  ASSUME NEW n \in Nat, NEW w \in Seq(Int), NEW p \in Int, NEW q \in Seq(Int),
         Line(w, p, q, n), p > Beat, NEW r \in Int, r <= Beat
  PROVE  Line(Append(w, p), r, q, n) /\ Range(Append(w, p)) = Range(w) \cup OnItsWay(p)
<1> DEFINE a == Append(w, p)
<1>1. /\ DOMAIN w = 1..Len(w) /\ DOMAIN a = 1..Len(w) + 1 /\ Len(w) \in Nat
      /\ a[Len(w) + 1] = p /\ \A k \in 1..Len(w) : a[k] = w[k]
  OBVIOUS
<1> HIDE DEF a
<1>2. ASSUME NEW i \in DOMAIN a
      PROVE  \/ i = Len(w) + 1 /\ a[i] = p
             \/ i \in DOMAIN w /\ i < Len(w) + 1 /\ a[i] = w[i]
  BY <1>1, <1>2
<1>a. /\ p \in 1..n /\ \A i \in DOMAIN w : w[i] < p
      /\ \A k \in DOMAIN q : q[k] # Beat => p < q[k]
  BY DEF Line
<1>3. ASSUME NEW i \in DOMAIN a, NEW j \in DOMAIN a, i < j PROVE a[i] < a[j]
  <2>1. i \in DOMAIN w /\ a[i] = w[i] BY <1>1, <1>2, <1>3
  <2>2. CASE j = Len(w) + 1 /\ a[j] = p BY <2>1, <2>2, <1>a
  <2>3. CASE j \in DOMAIN w /\ a[j] = w[j] BY <2>1, <2>3, <1>3 DEF Line
  <2> QED BY <2>2, <2>3, <1>2
<1>4. Line(a, r, q, n)
  <2>1. \A i \in DOMAIN a : a[i] \in 1..n BY <1>2, <1>a DEF Line
  <2>2. \A i \in DOMAIN a, k \in DOMAIN q : q[k] # Beat => a[i] < q[k]
    BY <1>2, <1>a DEF Line
  <2>3. /\ \A k \in DOMAIN q : q[k] \in 0..n
        /\ \A k, l \in DOMAIN q : k < l /\ q[k] # Beat /\ q[l] # Beat => q[k] < q[l]
    BY DEF Line
  <2>4. ~(r > Beat) BY DEF Beat
  <2> QED BY <2>1, <2>2, <2>3, <2>4, <1>3 DEF Line
<1>5. Range(a) = Range(w) \cup {p}
  <2>1. ASSUME NEW x \in Range(w) PROVE x \in Range(a)
    <3>1. PICK k \in DOMAIN w : x = w[k] BY <2>1 DEF Range
    <3>2. k \in DOMAIN a /\ x = a[k] BY <1>1, <3>1
    <3> QED BY <3>2 DEF Range
  <2>2. p \in Range(a)
    <3>1. Len(w) + 1 \in DOMAIN a BY <1>1
    <3> QED BY <1>1, <3>1 DEF Range
  <2>3. ASSUME NEW x \in Range(a) PROVE x \in Range(w) \cup {p}
    <3>1. PICK k \in DOMAIN a : x = a[k] BY <2>3 DEF Range
    <3> QED BY <1>2, <3>1 DEF Range
  <2> QED BY <2>1, <2>2, <2>3
<1> QED BY <1>4, <1>5 DEF a, OnItsWay

LEMMA LineResumes ==
  ASSUME NEW n, NEW w, NEW p, NEW q, NEW r \in Int, Line(w, p, q, n), r <= Beat
  PROVE  Line(w, r, q, n) /\ OnItsWay(r) = {}
BY DEF Line, OnItsWay, Beat

LEMMA SeqWidens ==
  ASSUME NEW S, NEW T, S \subseteq T, NEW s \in Seq(S)
  PROVE  s \in Seq(T)
<1>1. Len(s) \in Nat /\ s = [i \in 1..Len(s) |-> s[i]] OBVIOUS
<1>2. \A i \in 1..Len(s) : s[i] \in T OBVIOUS
<1> DEFINE n == Len(s)
<1>3. s \in [1..n -> T] BY <1>1, <1>2
<1> HIDE DEF n
<1> QED BY <1>1, <1>3 DEF n

LEMMA SseNumbers ==
  ASSUME SseTypes
  PROVE  /\ queue \in Seq(Int) /\ written \in Seq(Int) /\ pull \in Int
         /\ produced \in Nat /\ MaxEvents \in Nat /\ MaxQueue \in Nat \ {0}
         /\ Len(queue) \in Nat /\ (queue = <<>> <=> Len(queue) = 0)
<1>1. MaxEvents \in Nat /\ MaxQueue \in Nat \ {0} BY SseAssumption
<1>2. 0..MaxEvents \subseteq Int /\ 1..MaxEvents \subseteq Int BY <1>1
<1>a. queue \in Seq(0..MaxEvents) /\ written \in Seq(1..MaxEvents) BY DEF SseTypes
<1>3. queue \in Seq(Int) BY <1>a, <1>2, SeqWidens
<1>4. written \in Seq(Int) BY <1>a, <1>2, SeqWidens
<1> QED BY <1>1, <1>3, <1>4 DEF SseTypes, Pulls, NoPull, Waiting, Done

(* Pushing the next event, or a beat, on an open channel. *)
LEMMA PushKeeps ==
  ASSUME SseInv, NEW v \in 0..MaxEvents, Push(v), ~shut, generator # "ended" \/ producer = "threw",
         produced' \in 0..MaxEvents,
         (v = Beat /\ produced' = produced) \/ (v = produced + 1 /\ produced' = produced + 1),
         UNCHANGED <<shut, generator, producer, peer, written>>
  PROVE  SseInv'
<1>1. /\ SseTypes /\ (pull # NoPull <=> generator = "awaiting")
      /\ (pull = Waiting => queue = <<>> /\ ~shut)
      /\ Line(written, pull, queue, produced)
      /\ peer \/ generator # "ended" =>
           accepted = Range(written) \cup dropped \cup OnItsWay(pull) \cup Queued(queue)
  BY DEF SseInv, NoLostWakeup
<1>2. /\ queue \in Seq(Int) /\ written \in Seq(Int) /\ pull \in Int
      /\ produced \in Nat /\ MaxEvents \in Nat /\ MaxQueue \in Nat \ {0}
      /\ Len(queue) \in Nat /\ (queue = <<>> <=> Len(queue) = 0)
  BY <1>1, SseNumbers
<1>3. Events({v}) = OnItsWay(v) /\ Events({v}) \subseteq 1..MaxEvents
  BY <1>2 DEF Events, OnItsWay, Beat
<1>4. accepted' = accepted \cup Events({v}) BY DEF Push
<1>5. CASE pull = Waiting
  <2>1. pull' = v /\ UNCHANGED <<queue, dropped>> /\ queue = <<>> BY <1>1, <1>5 DEF Push
  <2>2. Line(written, v, <<>>, produced')
    <3>1. \A i \in DOMAIN written : written[i] \in 1..produced /\ written[i] < produced + 1
      BY <1>1, <1>2 DEF Line
    <3>2. DOMAIN <<>> = {} OBVIOUS
    <3>3. \A i, j \in DOMAIN written : i < j => written[i] < written[j] BY <1>1 DEF Line
    <3>4. /\ \A i \in DOMAIN written : written[i] \in 1..produced'
          /\ v > Beat => v \in 1..produced' /\ \A i \in DOMAIN written : written[i] < v
      BY <3>1, <1>2 DEF Beat
    <3> QED BY <3>2, <3>3, <3>4 DEF Line
  <2>3. OnItsWay(pull) = {} BY <1>5 DEF OnItsWay, Waiting, Beat
  <2>4. v # NoPull /\ v # Waiting /\ v # Done BY <1>2 DEF NoPull, Waiting, Done
  <2>5. SseTypes' BY <1>1, <1>3, <1>4, <2>1 DEF SseTypes, Pulls
  <2>6. generator = "awaiting" BY <1>1, <1>5 DEF NoPull, Waiting
  <2>7. accepted' = Range(written') \cup dropped' \cup OnItsWay(pull') \cup Queued(queue')
    BY <1>1, <1>3, <1>4, <2>1, <2>3, <2>6
  <2> QED BY <2>1, <2>2, <2>4, <2>5, <2>6, <2>7 DEF SseInv, NoLostWakeup
<1>6. CASE pull # Waiting
  <2> DEFINE full == Len(queue) >= MaxQueue
             rest == IF full THEN Tail(queue) ELSE queue
             lost == IF full THEN Events({Head(queue)}) ELSE {}
  <2>1. pull' = pull /\ queue' = Append(rest, v) /\ dropped' = dropped \cup lost
    BY <1>6 DEF Push
  <2>2. /\ rest \in Seq(0..MaxEvents) /\ Len(rest) < MaxQueue
        /\ lost \subseteq 1..MaxEvents
        /\ Line(written, pull, rest, produced) /\ Queued(queue) = Queued(rest) \cup lost
    <3>1. CASE full
      <4>1. queue # <<>> BY <3>1, <1>2
      <4>2. /\ Head(queue) \in 0..produced
            /\ Line(written, pull, Tail(queue), produced)
            /\ Queued(queue) = Queued(Tail(queue)) \cup Events({Head(queue)})
        BY <4>1, <1>1, <1>2, LineBegins
      <4>3. Tail(queue) \in Seq(0..MaxEvents) /\ Len(Tail(queue)) = Len(queue) - 1
        BY <4>1, <1>1 DEF SseTypes
      <4>4. Events({Head(queue)}) \subseteq 1..MaxEvents
        BY <4>2, <1>1, <1>2 DEF Events, Beat, SseTypes
      <4>5. rest = Tail(queue) /\ lost = Events({Head(queue)}) BY <3>1
      <4>6. Len(queue) - 1 < MaxQueue BY <1>1, <1>2 DEF SseTypes
      <4> HIDE DEF rest, lost
      <4> QED BY <4>2, <4>3, <4>4, <4>5, <4>6
    <3>2. CASE ~full BY <3>2, <1>1, <1>2 DEF SseTypes
    <3> QED BY <3>1, <3>2
  <2> HIDE DEF full, rest, lost
  <2>3. 0..MaxEvents \subseteq Int BY <1>2
  <2>4. rest \in Seq(Int) BY <2>2, <2>3, SeqWidens
  <2>5. v \in Int /\ produced' \in Nat BY <1>2
  <2>a. (v = Beat /\ produced' = produced) \/ (v = produced + 1 /\ produced' = produced + 1)
    OBVIOUS
  <2>6. /\ Line(written, pull, Append(rest, v), produced')
        /\ Queued(Append(rest, v)) = Queued(rest) \cup Events({v})
    <3> DEFINE m == produced'
               n == produced
               a == Append(rest, v)
    <3>1. v \in Int /\ m \in Nat /\ n \in Nat /\ v \in 0..m /\ n <= m /\ (v = 0 \/ v > n)
      BY <1>2, <2>a, <2>5 DEF Beat
    <3>2. Line(written, pull, rest, n) BY <2>2
    <3>3. a = Append(rest, v) OBVIOUS
    <3> HIDE DEF m, n, a
    <3>10. written \in Seq(Int) /\ pull \in Int BY <1>2
    <3>11. v \in Int BY <3>1
    <3>12. m \in Nat BY <3>1
    <3>13. n \in Nat BY <3>1
    <3>14. v \in 0..m /\ n <= m /\ (v = 0 \/ v > n) BY <3>1
    <3>4. Line(written, pull, a, m)
      BY ONLY <3>10, <2>4, <3>11, <3>12, <3>13, <3>14, <3>2, <3>3, LineAppends
    <3>5. Queued(a) = Queued(rest) \cup Events({v}) BY <2>4, <3>1, <3>3, QueuedAppends
    <3> QED BY <3>4, <3>5 DEF m, a
  <2>7. Append(rest, v) \in Seq(0..MaxEvents) /\ Len(Append(rest, v)) <= MaxQueue
    BY <2>2, <1>2
  <2>8. SseTypes' BY <1>1, <1>3, <1>4, <2>1, <2>2, <2>7 DEF SseTypes
  <2>9. peer \/ generator # "ended" =>
          accepted' = Range(written') \cup dropped' \cup OnItsWay(pull') \cup Queued(queue')
    BY <1>1, <1>4, <2>1, <2>2, <2>6
  <2>10. pull # Done
    BY DEF SseInv
  <2> QED BY <1>1, <1>6, <2>1, <2>6, <2>8, <2>9, <2>10 DEF SseInv, NoLostWakeup
<1> QED BY <1>5, <1>6

(* The generator's next pull, from its first or after a yield. *)
LEMMA PullKeeps ==
  ASSUME SseInv, pull = NoPull, Pulled, generator # "ended", generator' = "awaiting",
         UNCHANGED <<shut, peer, produced, accepted, dropped, written>>
  PROVE  SseInv'
<1>1. /\ SseTypes
      /\ Line(written, pull, queue, produced)
      /\ accepted = Range(written) \cup dropped \cup OnItsWay(pull) \cup Queued(queue)
  BY DEF SseInv, NoLostWakeup
<1>2. /\ queue \in Seq(Int) /\ written \in Seq(Int) /\ pull \in Int
      /\ produced \in Nat /\ MaxEvents \in Nat /\ MaxQueue \in Nat \ {0}
      /\ Len(queue) \in Nat /\ (queue = <<>> <=> Len(queue) = 0)
  BY <1>1, SseNumbers
<1>3. OnItsWay(pull) = {} /\ pull <= Beat BY DEF OnItsWay, NoPull, Beat
<1>4. CASE queue # <<>>
  <2>1. pull' = Head(queue) /\ queue' = Tail(queue) BY <1>4 DEF Pulled
  <2>2. /\ Head(queue) \in 0..produced
        /\ Line(written, Head(queue), Tail(queue), produced)
        /\ Queued(queue) = Queued(Tail(queue)) \cup OnItsWay(Head(queue))
    BY <1>1, <1>2, <1>3, <1>4, LineBegins
  <2>3. Tail(queue) \in Seq(0..MaxEvents) /\ Len(Tail(queue)) = Len(queue) - 1
    BY <1>1, <1>4 DEF SseTypes
  <2>4. Head(queue) \in 0..MaxEvents BY <2>2, <1>1, <1>2 DEF SseTypes
  <2>5. SseTypes' BY <1>1, <1>2, <2>1, <2>3, <2>4 DEF SseTypes, Pulls
  <2>6. Head(queue) # NoPull /\ Head(queue) # Waiting /\ Head(queue) # Done
    BY <2>4, <1>2 DEF NoPull, Waiting, Done
  <2>7. accepted' = Range(written') \cup dropped' \cup OnItsWay(pull') \cup Queued(queue')
    BY <1>1, <1>3, <2>1, <2>2
  <2> QED BY <2>1, <2>2, <2>5, <2>6, <2>7 DEF SseInv, NoLostWakeup
<1>5. CASE queue = <<>>
  <2>1. queue' = queue /\ (IF shut THEN pull' = Done ELSE pull' = Waiting)
    BY <1>5 DEF Pulled
  <2>2. pull' \in Int /\ pull' <= Beat /\ pull' # NoPull
    BY <2>1 DEF Waiting, Done, NoPull, Beat
  <2>3. Line(written, pull', queue, produced) /\ OnItsWay(pull') = {}
    BY <1>1, <2>2, LineResumes
  <2>4. SseTypes' BY <1>1, <2>1 DEF SseTypes, Pulls
  <2>5. accepted' = Range(written') \cup dropped' \cup OnItsWay(pull') \cup Queued(queue')
    BY <1>1, <1>3, <2>1, <2>3
  <2>6. Done # Waiting BY DEF Done, Waiting
  <2> QED BY <1>5, <2>1, <2>2, <2>3, <2>4, <2>5, <2>6 DEF SseInv, NoLostWakeup
<1> QED BY <1>4, <1>5

(* The channel is closed: whoever waits is told, what is queued stays. *)
LEMMA ShutKeeps ==
  ASSUME SseInv, ~shut, Shut, generator # "ended" \/ producer' = producer,
         UNCHANGED <<queue, generator, peer, produced, accepted, dropped, written>>
  PROVE  SseInv'
<1>1. /\ SseTypes /\ (pull # NoPull <=> generator = "awaiting")
      /\ (pull = Waiting => queue = <<>> /\ ~shut)
      /\ (pull = Done => queue = <<>> /\ shut)
      /\ Line(written, pull, queue, produced)
      /\ generator = "ended" /\ producer # "threw" => shut
      /\ peer \/ generator # "ended" =>
           accepted = Range(written) \cup dropped \cup OnItsWay(pull) \cup Queued(queue)
  BY DEF SseInv, NoLostWakeup
<1>2. /\ shut' = TRUE /\ (IF pull = Waiting THEN pull' = Done ELSE pull' = pull)
  BY DEF Shut
<1>3. pull' \in Int /\ (pull' # pull => pull' <= Beat /\ OnItsWay(pull) = {})
  BY <1>1, <1>2, SseNumbers DEF Done, Waiting, Beat, OnItsWay
<1>4. Line(written, pull', queue, produced) /\ OnItsWay(pull') = OnItsWay(pull)
  <2>1. CASE pull' = pull BY <2>1, <1>1
  <2>2. CASE pull' # pull BY <2>2, <1>1, <1>3, LineResumes
  <2> QED BY <2>1, <2>2
<1>5. SseTypes' BY <1>1, <1>2 DEF SseTypes, Pulls
<1>6. Done # NoPull /\ Waiting # NoPull /\ Done # Waiting BY DEF Done, NoPull, Waiting
<1>7. pull' # NoPull <=> pull # NoPull BY <1>2, <1>6
<1>8. pull' # Waiting BY <1>2, <1>6
<1>9. generator = "ended" => producer = "threw" /\ producer' = "threw" BY <1>1
<1>10. SseInv'
  <2>1. peer' \/ generator' # "ended" =>
          accepted' = Range(written') \cup dropped' \cup OnItsWay(pull') \cup Queued(queue')
    BY <1>1, <1>4
  <2>2. pull' = Done => queue' = <<>> /\ shut' BY <1>1, <1>2
  <2> QED BY <1>1, <1>2, <1>4, <1>5, <1>7, <1>8, <1>9, <2>1, <2>2 DEF SseInv, NoLostWakeup
<1> QED BY <1>10

LEMMA SseKept == SseInv /\ [SseStep]_sseVars => SseInv'
<1> SUFFICES ASSUME SseInv, [SseStep]_sseVars PROVE SseInv'
  OBVIOUS
<1>1. /\ SseTypes /\ (pull # NoPull <=> generator = "awaiting") /\ NoLostWakeup
      /\ (pull = Done => queue = <<>> /\ shut)
      /\ Line(written, pull, queue, produced)
      /\ generator = "ended" /\ producer # "threw" => shut
      /\ generator = "ended" /\ producer # "threw" /\ peer => queue = <<>>
      /\ peer \/ generator # "ended" =>
           accepted = Range(written) \cup dropped \cup OnItsWay(pull) \cup Queued(queue)
  BY DEF SseInv
<1>2. /\ queue \in Seq(Int) /\ written \in Seq(Int) /\ pull \in Int
      /\ produced \in Nat /\ MaxEvents \in Nat
  BY <1>1, SseNumbers
<1>3. CASE Start
  <2>1. /\ generator = "fresh" /\ generator' = "starting" /\ producer' = "running"
        /\ UNCHANGED <<queue, pull, shut, peer, produced, accepted, dropped, written>>
    BY <1>3 DEF Start
  <2>2. SseTypes' BY <1>1, <2>1 DEF SseTypes
  <2> QED BY <1>1, <2>1, <2>2 DEF SseInv, NoLostWakeup
<1>a. CASE FirstPull
  <2>1. /\ generator = "starting" /\ pull = NoPull /\ generator' = "awaiting" /\ Pulled
        /\ UNCHANGED <<shut, peer, produced, accepted, dropped, written>>
    BY <1>1, <1>a DEF FirstPull
  <2> QED BY <2>1, PullKeeps
<1>b. CASE ProducerThrows
  <2>1. /\ generator = "starting" /\ generator' = "ended" /\ producer' = "threw"
        /\ UNCHANGED <<queue, pull, shut, peer, produced, accepted, dropped, written>>
    BY <1>b DEF ProducerThrows
  <2>2. SseTypes' BY <1>1, <2>1 DEF SseTypes
  <2> QED BY <1>1, <2>1, <2>2 DEF SseInv, NoLostWakeup
<1>4. CASE Resume
  <2>1. /\ generator = "yielded" /\ pull = NoPull /\ generator' = "awaiting" /\ Pulled
        /\ UNCHANGED <<shut, peer, produced, accepted, dropped, written>>
    BY <1>1, <1>4 DEF Resume
  <2> QED BY <2>1, PullKeeps
<1>5. CASE Yield
  <2>1. /\ generator = "awaiting" /\ pull >= Beat
        /\ UNCHANGED <<queue, producer, peer, produced, accepted, dropped>>
    BY <1>5 DEF Yield
  <2>2. NoPull <= Beat /\ NoPull \in Int /\ NoPull # Waiting /\ NoPull # Done
    BY DEF NoPull, Beat, Waiting, Done
  <2>3. CASE peer
    <3>1. /\ generator' = "yielded" /\ pull' = NoPull /\ UNCHANGED shut
          /\ written' = IF pull = Beat THEN written ELSE Append(written, pull)
      BY <1>5, <2>3 DEF Yield
    <3>2. accepted = Range(written) \cup dropped \cup OnItsWay(pull) \cup Queued(queue)
      BY <1>1, <2>3
    <3>3. OnItsWay(NoPull) = {} BY DEF OnItsWay, NoPull, Beat
    <3>4. CASE pull = Beat
      <4>1. Line(written, NoPull, queue, produced) BY <1>1, <2>2, LineResumes
      <4>2. OnItsWay(pull) = {} BY <3>4 DEF OnItsWay, Beat
      <4>3. SseTypes' BY <1>1, <2>1, <3>1, <3>4 DEF SseTypes, Pulls
      <4> QED BY <2>1, <2>2, <3>1, <3>2, <3>3, <3>4, <4>1, <4>2, <4>3 DEF SseInv, NoLostWakeup
    <3>5. CASE pull # Beat
      <4>1. pull > Beat BY <2>1, <3>5, <1>2 DEF Beat
      <4>2. /\ Line(Append(written, pull), NoPull, queue, produced)
            /\ Range(Append(written, pull)) = Range(written) \cup OnItsWay(pull)
        BY <1>1, <1>2, <2>2, <4>1, LineWritten
      <4>3. pull \in 1..MaxEvents
        BY <4>1, <1>1, <1>2 DEF SseTypes, Pulls, Beat, NoPull, Waiting, Done
      <4>4. Append(written, pull) \in Seq(1..MaxEvents) BY <4>3, <1>1 DEF SseTypes
      <4>5. SseTypes' BY <1>1, <2>1, <3>1, <3>5, <4>4 DEF SseTypes, Pulls
      <4> QED BY <2>1, <2>2, <3>1, <3>2, <3>3, <3>5, <4>2, <4>5 DEF SseInv, NoLostWakeup
    <3> QED BY <3>4, <3>5
  <2>4. CASE ~peer
    <3>1. generator' = "ended" /\ shut' = TRUE /\ pull' = NoPull /\ UNCHANGED written
      BY <1>5, <2>4 DEF Yield, Finally
    <3>2. Line(written, NoPull, queue, produced) BY <1>1, <2>2, LineResumes
    <3>3. SseTypes' BY <1>1, <2>1, <3>1 DEF SseTypes, Pulls
    <3> QED BY <2>1, <2>2, <2>4, <3>1, <3>2, <3>3 DEF SseInv, NoLostWakeup
  <2> QED BY <2>3, <2>4
<1>6. CASE End
  <2>1. /\ generator = "awaiting" /\ pull = Done /\ queue = <<>>
        /\ generator' = "ended" /\ shut' = TRUE /\ pull' = NoPull
        /\ UNCHANGED <<queue, producer, peer, produced, accepted, dropped, written>>
    BY <1>1, <1>6 DEF End, Finally
  <2>2. NoPull <= Beat /\ NoPull \in Int /\ NoPull # Waiting /\ NoPull # Done
        /\ OnItsWay(Done) = {}
    BY DEF NoPull, Beat, Waiting, Done, OnItsWay
  <2>3. Line(written, NoPull, queue, produced) /\ OnItsWay(NoPull) = {}
    BY <1>1, <2>2, LineResumes
  <2>4. SseTypes' BY <1>1, <2>1 DEF SseTypes, Pulls
  <2>5. accepted = Range(written) \cup dropped \cup OnItsWay(NoPull) \cup Queued(queue)
    BY <1>1, <2>1, <2>2, <2>3
  <2> QED BY <2>1, <2>2, <2>3, <2>4, <2>5 DEF SseInv, NoLostWakeup
<1>7. CASE Produce
  <2>1. /\ producer = "running" /\ produced' = produced + 1 /\ produced < MaxEvents
        /\ UNCHANGED <<shut, generator, producer, peer, written>>
    BY <1>7 DEF Produce
  <2>2. produced + 1 \in 0..MaxEvents BY <2>1, <1>2
  <2>3. CASE shut
    <3>1. UNCHANGED <<queue, pull, accepted, dropped>> BY <1>7, <2>3 DEF Produce, PushIfOpen
    <3>2. Line(written, pull, queue, produced + 1)
      <4>1. 1..produced \subseteq 1..produced + 1 /\ 0..produced \subseteq 0..produced + 1
        BY <1>2
      <4> QED BY <4>1, <1>1 DEF Line
    <3>3. SseTypes' BY <1>1, <2>1, <2>2, <3>1 DEF SseTypes
    <3> QED BY <1>1, <2>1, <3>1, <3>2, <3>3 DEF SseInv, NoLostWakeup
  <2>4. CASE ~shut
    <3>1. Push(produced + 1) BY <1>7, <2>4 DEF Produce, PushIfOpen
    <3>2. generator # "ended" BY <1>1, <2>1, <2>4
    <3> QED BY <2>1, <2>2, <2>4, <3>1, <3>2, PushKeeps
  <2> QED BY <2>3, <2>4
<1>8. CASE ProducerReturns
  <2>1. /\ producer = "running" /\ producer' = "returned"
        /\ UNCHANGED <<queue, generator, peer, produced, accepted, dropped, written>>
    BY <1>8 DEF ProducerReturns
  <2>2. CASE shut
    <3>1. UNCHANGED <<shut, pull>> BY <1>8, <2>2 DEF ProducerReturns
    <3>2. SseTypes' BY <1>1, <2>1, <3>1 DEF SseTypes
    <3> QED BY <1>1, <2>1, <3>1, <3>2 DEF SseInv, NoLostWakeup
  <2>3. CASE ~shut
    <3>1. Shut BY <1>8, <2>3 DEF ProducerReturns
    <3>2. generator # "ended" BY <1>1, <2>1, <2>3
    <3> QED BY <2>1, <2>3, <3>1, <3>2, ShutKeeps
  <2> QED BY <2>2, <2>3
<1>9. CASE CloseStream BY <1>9, ShutKeeps DEF CloseStream
<1>10. CASE HeartbeatFires
  <2>1. /\ ~shut /\ Push(Beat)
        /\ UNCHANGED <<shut, generator, producer, peer, produced, written>>
    BY <1>10 DEF HeartbeatFires
  <2>2. Beat \in 0..MaxEvents /\ produced \in 0..MaxEvents BY <1>1, <1>2 DEF Beat, SseTypes
  <2>3. generator # "ended" \/ producer = "threw" BY <1>1, <2>1
  <2> QED BY <2>1, <2>2, <2>3, PushKeeps
<1>11. CASE ClientLeaves
  <2>1. /\ peer' = FALSE
        /\ UNCHANGED <<queue, pull, shut, generator, producer, produced, accepted, dropped, written>>
        /\ peer
    BY <1>11 DEF ClientLeaves
  <2>2. SseTypes' BY <1>1, <2>1 DEF SseTypes
  <2> QED BY <1>1, <2>1, <2>2 DEF SseInv, NoLostWakeup
<1>12. CASE UNCHANGED sseVars
  <2>1. UNCHANGED <<queue, pull, shut, generator, producer, peer, produced, accepted, dropped,
                    written>>
    BY <1>12 DEF sseVars
  <2>2. SseTypes' BY <1>1, <2>1 DEF SseTypes
  <2> QED BY <1>1, <2>1, <2>2 DEF SseInv, NoLostWakeup
<1> QED
  BY <1>3, <1>a, <1>b, <1>4, <1>5, <1>6, <1>7, <1>8, <1>9, <1>10, <1>11, <1>12 DEF SseStep

(* Producer, consumer, heartbeat and client interleave as they like: no      *)
(* consumer sleeps on a channel that has something for it, and a client      *)
(* that stays is written every event taken and not dropped, in order         *)
(* (channel.ts, sse.ts).                                                    *)
THEOREM SseTheorem == Spec => [](SseTypeOK /\ NoLostWakeup /\ EventsInOrder)
<1>1. SseInv /\ [Next]_mcVars => SseInv' BY EachPart, SseKept
<1>2. Init => SseInv
  <2> SUFFICES ASSUME Init PROVE SseInv
    OBVIOUS
  <2>1. /\ queue = <<>> /\ pull = NoPull /\ shut = FALSE /\ generator = "fresh"
        /\ produced = 0 /\ accepted = {} /\ dropped = {} /\ written = <<>>
    BY DEF Init, SseInit
  <2>2. /\ <<>> \in Seq(0..MaxEvents) /\ <<>> \in Seq(1..MaxEvents)
        /\ Len(<<>>) = 0 /\ DOMAIN <<>> = {}
    OBVIOUS
  <2>3. Range(<<>>) = {} /\ Queued(<<>>) = {} BY <2>2 DEF Range, Queued, Events
  <2>a. 0 \in 0..MaxEvents /\ 0 <= MaxQueue /\ FALSE \in BOOLEAN BY SseAssumption
  <2>4. SseTypes BY <2>1, <2>2, <2>a DEF SseTypes, Pulls
  <2>5. /\ Line(written, pull, queue, produced) /\ OnItsWay(pull) = {}
        /\ pull # Waiting /\ pull # Done
    BY <2>1, <2>2 DEF Line, OnItsWay, NoPull, Beat, Waiting, Done
  <2> QED BY <2>1, <2>3, <2>4, <2>5 DEF SseInv, NoLostWakeup
<1>3. SseInv => SseTypeOK /\ NoLostWakeup /\ EventsInOrder
  <2> SUFFICES ASSUME SseInv PROVE SseTypeOK /\ NoLostWakeup /\ EventsInOrder
    OBVIOUS
  <2>1. SseTypes /\ Line(written, pull, queue, produced) BY DEF SseInv
  <2>2. MaxEvents \in Nat BY SseAssumption
  <2>3. ASSUME NEW x \in Range(queue) PROVE x \in 0..MaxEvents
    <3>1. PICK k \in DOMAIN queue : x = queue[k] BY <2>3 DEF Range
    <3>2. x \in 0..produced BY <2>1, <3>1 DEF Line
    <3> QED BY <2>1, <2>2, <3>2 DEF SseTypes
  <2>4. ASSUME NEW x \in Range(written) PROVE x \in 0..MaxEvents
    <3>1. PICK k \in DOMAIN written : x = written[k] BY <2>4 DEF Range
    <3>2. x \in 1..produced BY <2>1, <3>1 DEF Line
    <3> QED BY <2>1, <2>2, <3>2 DEF SseTypes
  <2>5. SseTypeOK
    <3>1. (pull # NoPull) = (generator = "awaiting") BY DEF SseInv
    <3>2. accepted \subseteq 0..MaxEvents /\ dropped \subseteq 0..MaxEvents
      BY <2>1, <2>2 DEF SseTypes
    <3> QED BY <2>1, <2>3, <2>4, <3>1, <3>2 DEF SseTypeOK, SseTypes, Pulls
  <2>6. EventsInOrder
    <3>1. ASSUME generator = "ended", peer, producer # "threw"
          PROVE  Range(written) \cup dropped = accepted
      <4>1. queue = <<>> /\ pull = NoPull BY <3>1 DEF SseInv
      <4>2. DOMAIN <<>> = {} OBVIOUS
      <4>3. OnItsWay(pull) = {} /\ Queued(queue) = {}
        BY <4>1, <4>2 DEF OnItsWay, Queued, Events, NoPull, Beat
      <4> QED BY <3>1, <4>3 DEF SseInv
    <3>2. \A i, j \in DOMAIN written : i < j => written[i] < written[j] BY <2>1 DEF Line
    <3> QED BY <3>1, <3>2 DEF EventsInOrder
  <2> QED BY <2>5, <2>6 DEF SseInv
<1> QED BY <1>1, <1>2, <1>3, PTL DEF Spec

-----------------------------------------------------------------------------
(* A WebSocket.  The fragments in hand are the data frames since the one     *)
(* that began the message, in order; a message told is what they were when  *)
(* its last frame came.                                                     *)

Ops == {"text", "binary", "cont", "ping", "close", "reserved"}
AFrame == [op : Ops, fin : BOOLEAN, z : BOOLEAN, good : BOOLEAN, big : BOOLEAN,
           code : {NoCode, Normal, GoingAway}]
Pieces == [op : Ops, z : BOOLEAN, good : BOOLEAN, at : Nat]
Codes == {Normal, GoingAway, ProtocolError, Abnormal, BadData, TooBig}
Upgrading == {"request", "opening", "behind"}
Conn == [stage : Upgrading \cup {"open", "ping"}, frag : Seq(Pieces), code : Codes,
         closing : BOOLEAN, closed : BOOLEAN, backlog : BOOLEAN]
Told == [ev : {"open", "message", "ping", "drain", "close"}, what : Nat \cup [of : Seq(Nat), text : BOOLEAN]]

IsData(f) == f.op \in {"text", "binary", "cont"}

Gathered(ps, fs) ==
  /\ \A k \in 1..Len(ps) : ps[k].at \in 1..Len(fs)
  /\ \A j, k \in 1..Len(ps) : j < k => ps[j].at < ps[k].at
  /\ ps # <<>> => ps[1].op \in {"text", "binary"} /\ fs[ps[1].at].op = ps[1].op
  /\ \A k \in 2..Len(ps) : fs[ps[k].at].op = "cont"
  /\ ps # <<>> =>
       \A i \in ps[1].at..Len(fs) : IsData(fs[i]) <=> \E k \in 1..Len(ps) : ps[k].at = i

WholeIn(m, fs) ==
  /\ Len(m.of) \in Nat \ {0} /\ DOMAIN m.of = 1..Len(m.of)
  /\ \A k \in 1..Len(m.of) : m.of[k] \in 1..Len(fs)
  /\ \A j, k \in 1..Len(m.of) : j < k => m.of[j] < m.of[k]
  /\ fs[m.of[1]].op = (IF m.text THEN "text" ELSE "binary")
  /\ \A k \in 2..Len(m.of) : fs[m.of[k]].op = "cont"
  /\ fs[m.of[Len(m.of)]].fin
  /\ \A i \in m.of[1]..m.of[Len(m.of)] :
       IsData(fs[i]) <=> \E k \in 1..Len(m.of) : m.of[k] = i

(* A connection and the frames it was sent.  Once it closes, what was gathered is never *)
(* looked at again.                                                                     *)
Sound(w, fs) ==
  /\ w \in Conn /\ Len(w.frag) <= MaxMessage
  /\ w.closing \/ Gathered(w.frag, fs)
  /\ w.stage \in Upgrading => w.frag = <<>>
  /\ w.closed => w.closing /\ w.stage = "open"

WsInv ==
  /\ Sound(ws, frames)
  /\ frames \in Seq(AFrame)
  /\ told \in Seq(Told)
  /\ \A k \in 1..Len(told) : told[k].ev = "message" => WholeIn(told[k].what, frames)

LEMMA FrameFields == ASSUME NEW f \in Frames PROVE f \in AFrame
BY DEF Frames, DataFrames, ControlFrames, Frame, AFrame, Ops

(* The part a frame becomes: numbered, with the first frame's type. *)
Piece(ps, f, n) ==
  LET first == IF ps = <<>> THEN f ELSE Head(ps)
  IN [op |-> first.op, z |-> first.z, good |-> f.good, at |-> n]

LEMMA PieceFields ==
  ASSUME NEW ps \in Seq(Pieces), NEW f \in AFrame, NEW n \in Nat
  PROVE  /\ Piece(ps, f, n) \in Pieces /\ Piece(ps, f, n).at = n
         /\ Piece(ps, f, n).op = IF ps = <<>> THEN f.op ELSE ps[1].op
<1>1. CASE ps = <<>> BY <1>1 DEF AFrame, Pieces, Piece
<1>2. CASE ps # <<>>
  <2>1. Head(ps) \in Pieces /\ Head(ps) = ps[1] BY <1>2
  <2>2. Piece(ps, f, n) = [op |-> ps[1].op, z |-> ps[1].z, good |-> f.good, at |-> n]
    BY <1>2, <2>1 DEF Piece
  <2> QED BY <1>2, <2>1, <2>2 DEF AFrame, Pieces
<1> QED BY <1>1, <1>2

LEMMA GatheredMore ==
  ASSUME NEW ps \in Seq(Pieces), NEW fs \in Seq(AFrame), Gathered(ps, fs),
         NEW f \in AFrame, IsData(f), f.op = "cont" <=> ps # <<>>,
         NEW qs, qs = Append(ps, Piece(ps, f, Len(fs) + 1)),
         NEW gs, gs = Append(fs, f)
  PROVE  Gathered(qs, gs)
<1> DEFINE n == Len(fs)
           c == Len(ps)
           p == Piece(ps, f, n + 1)
<1>1. n \in Nat /\ c \in Nat /\ (ps = <<>> <=> c = 0) OBVIOUS
<1>2. p \in Pieces /\ p.at = n + 1 /\ p.op = IF ps = <<>> THEN f.op ELSE ps[1].op
  BY <1>1, PieceFields
<1> HIDE DEF p
<1>3. qs \in Seq(Pieces) /\ Len(qs) = c + 1 /\ qs[c + 1] = p /\ \A k \in 1..c : qs[k] = ps[k]
  BY <1>2 DEF p
<1>4. Len(gs) = n + 1 /\ gs[n + 1] = f /\ \A i \in 1..n : gs[i] = fs[i]
  OBVIOUS
<1> HIDE DEF n, c
<1>5. /\ \A k \in 1..c : ps[k].at \in 1..n
      /\ \A j, k \in 1..c : j < k => ps[j].at < ps[k].at
      /\ ps # <<>> => ps[1].op \in {"text", "binary"} /\ fs[ps[1].at].op = ps[1].op
      /\ \A k \in 2..c : fs[ps[k].at].op = "cont"
      /\ ps # <<>> =>
           \A i \in ps[1].at..n : IsData(fs[i]) <=> \E k \in 1..c : ps[k].at = i
  BY DEF Gathered, n, c
<1>6. \A k \in 1..c + 1 : (k = c + 1 /\ qs[k].at = n + 1) \/ (k \in 1..c /\ qs[k].at = ps[k].at)
  BY <1>1, <1>2, <1>3
<1>7. ASSUME NEW k \in 1..c + 1 PROVE qs[k].at \in 1..n + 1
  <2>0. n + 1 \in 1..n + 1 /\ \A x \in 1..n : x \in 1..n + 1 BY <1>1
  <2>1. CASE qs[k].at = n + 1 BY <2>0, <2>1
  <2>2. CASE k \in 1..c /\ qs[k].at = ps[k].at
    <3>1. ps[k].at \in 1..n BY <2>2, <1>5
    <3> QED BY <3>1, <2>0, <2>2
  <2> QED BY <2>1, <2>2, <1>6
<1>8. \A j, k \in 1..c + 1 : j < k => qs[j].at < qs[k].at
  <2> SUFFICES ASSUME NEW j \in 1..c + 1, NEW k \in 1..c + 1, j < k PROVE qs[j].at < qs[k].at
    OBVIOUS
  <2>a. j \in 1..c BY <1>1
  <2>b. qs[j] = ps[j] BY <2>a, <1>3
  <2>1. j \in 1..c /\ qs[j].at = ps[j].at /\ ps[j].at \in 1..n BY <2>a, <2>b, <1>5
  <2>2. CASE k = c + 1 /\ qs[k].at = n + 1
    <3>1. \A x \in 1..n : x < n + 1 BY <1>1
    <3> QED BY <2>1, <2>2, <3>1
  <2>3. CASE k \in 1..c /\ qs[k].at = ps[k].at BY <1>5, <2>1, <2>3
  <2> QED BY <1>6, <2>2, <2>3
<1>9. qs[1].op \in {"text", "binary"} /\ gs[qs[1].at].op = qs[1].op
  <2>1. CASE ps = <<>>
    <3>1. qs[1] = p /\ p.op = f.op /\ f.op # "cont" BY <1>1, <1>2, <1>3, <2>1
    <3>2. f.op \in {"text", "binary"} BY <3>1 DEF IsData
    <3> QED BY <3>1, <3>2, <1>2, <1>4
  <2>2. CASE ps # <<>>
    <3>1. 1 \in 1..c /\ qs[1] = ps[1] /\ ps[1].at \in 1..n BY <1>1, <1>3, <1>5, <2>2
    <3>2. gs[ps[1].at] = fs[ps[1].at] BY <3>1, <1>4
    <3> QED BY <3>1, <3>2, <1>5, <2>2
  <2> QED BY <2>1, <2>2
<1>10. \A k \in 2..c + 1 : gs[qs[k].at].op = "cont"
  <2> SUFFICES ASSUME NEW k \in 2..c + 1 PROVE gs[qs[k].at].op = "cont"
    OBVIOUS
  <2>1. CASE k = c + 1
    <3>1. c # 0 /\ qs[k].at = n + 1 BY <2>1, <1>1, <1>2, <1>3
    <3>2. f.op = "cont" BY <3>1, <1>1
    <3> QED BY <3>1, <3>2, <1>4
  <2>2. CASE k # c + 1
    <3>1. k \in 2..c /\ k \in 1..c BY <2>2, <1>1
    <3>2. qs[k].at = ps[k].at /\ ps[k].at \in 1..n BY <3>1, <1>3, <1>5
    <3>3. gs[qs[k].at] = fs[ps[k].at] BY <3>2, <1>4
    <3> QED BY <3>1, <3>3, <1>5
  <2> QED BY <2>1, <2>2
<1>11. \A i \in qs[1].at..n + 1 : IsData(gs[i]) <=> \E k \in 1..c + 1 : qs[k].at = i
  <2> SUFFICES ASSUME NEW i \in qs[1].at..n + 1
               PROVE  IsData(gs[i]) <=> \E k \in 1..c + 1 : qs[k].at = i
    OBVIOUS
  <2>0. 1 \in 1..c + 1 /\ c + 1 \in 1..c + 1 BY <1>1
  <2>1. qs[1].at \in 1..n + 1 BY <2>0, <1>7
  <2>2. CASE i = n + 1
    <3>1. qs[c + 1].at = i BY <2>2, <1>2, <1>3
    <3>2. gs[i] = f BY <2>2, <1>4
    <3> QED BY <3>1, <3>2, <2>0
  <2>3. CASE i # n + 1
    <3>1. i \in 1..n /\ i <= n BY <2>1, <2>3, <1>1
    <3>2. ps # <<>>
      <4>1. ps = <<>> => qs[1].at = n + 1 BY <1>1, <1>2, <1>3
      <4> QED BY <4>1, <3>1, <1>1
    <3>3. 1 \in 1..c /\ qs[1].at = ps[1].at BY <3>2, <1>1, <1>3
    <3>4. i \in ps[1].at..n BY <3>1, <3>3, <2>1
    <3>5. IsData(fs[i]) <=> \E k \in 1..c : ps[k].at = i BY <3>2, <3>4, <1>5
    <3>6. gs[i] = fs[i] BY <3>1, <1>4
    <3>7. (\E k \in 1..c : ps[k].at = i) <=> (\E k \in 1..c + 1 : qs[k].at = i)
      <4>1. ASSUME NEW k \in 1..c, ps[k].at = i PROVE \E l \in 1..c + 1 : qs[l].at = i
        <5>1. k \in 1..c + 1 /\ qs[k].at = i BY <4>1, <1>1, <1>3
        <5> QED BY <5>1
      <4>2. ASSUME NEW k \in 1..c + 1, qs[k].at = i PROVE \E l \in 1..c : ps[l].at = i
        <5>1. k \in 1..c /\ qs[k].at = ps[k].at
          <6>1. n + 1 # i BY <2>3
          <6> QED BY <4>2, <6>1, <1>6
        <5> QED BY <4>2, <5>1
      <4> QED BY <4>1, <4>2
    <3> QED BY <3>5, <3>6, <3>7
  <2> QED BY <2>2, <2>3
<1>12. qs # <<>> BY <1>1, <1>3
<1>13. Len(qs) = c + 1 /\ Len(gs) = n + 1 BY <1>3, <1>4
<1>14. Gathered(qs, gs)
  <2>1. \A k \in 1..Len(qs) : qs[k].at \in 1..Len(gs) BY <1>7, <1>13
  <2>2. \A j, k \in 1..Len(qs) : j < k => qs[j].at < qs[k].at BY <1>8, <1>13
  <2>3. \A k \in 2..Len(qs) : gs[qs[k].at].op = "cont" BY <1>10, <1>13
  <2>4. \A i \in qs[1].at..Len(gs) : IsData(gs[i]) <=> \E k \in 1..Len(qs) : qs[k].at = i
    BY <1>11, <1>13
  <2> QED BY <1>9, <2>1, <2>2, <2>3, <2>4 DEF Gathered
<1> QED BY <1>3, <1>12, <1>14 DEF c

LEMMA GatheredPast ==
  ASSUME NEW ps \in Seq(Pieces), NEW fs \in Seq(AFrame), Gathered(ps, fs),
         NEW f \in AFrame, ~IsData(f), NEW gs, gs = Append(fs, f)
  PROVE  Gathered(ps, gs)
<1> DEFINE n == Len(fs)
<1>1. /\ n \in Nat /\ Len(gs) = n + 1 /\ gs[n + 1] = f /\ \A i \in 1..n : gs[i] = fs[i]
      /\ Len(ps) \in Nat /\ (ps = <<>> <=> Len(ps) = 0)
  OBVIOUS
<1>2. /\ \A k \in 1..Len(ps) : ps[k].at \in 1..n
      /\ \A j, k \in 1..Len(ps) : j < k => ps[j].at < ps[k].at
      /\ ps # <<>> => ps[1].op \in {"text", "binary"} /\ fs[ps[1].at].op = ps[1].op
      /\ \A k \in 2..Len(ps) : fs[ps[k].at].op = "cont"
      /\ ps # <<>> =>
           \A i \in ps[1].at..n : IsData(fs[i]) <=> \E k \in 1..Len(ps) : ps[k].at = i
  BY DEF Gathered
<1> HIDE DEF n
<1>3. \A k \in 1..Len(ps) : gs[ps[k].at] = fs[ps[k].at] /\ ps[k].at \in 1..n + 1
  BY <1>1, <1>2
<1>4. ps # <<>> => 1 \in 1..Len(ps) BY <1>1
<1>5. \A k \in 2..Len(ps) : k \in 1..Len(ps) BY <1>1
<1>6. ASSUME ps # <<>>, NEW i \in ps[1].at..n + 1
      PROVE  IsData(gs[i]) <=> \E k \in 1..Len(ps) : ps[k].at = i
  <2>1. ps[1].at \in 1..n BY <1>2, <1>4, <1>6
  <2>2. CASE i = n + 1
    <3>1. \A k \in 1..Len(ps) : ps[k].at # i BY <2>2, <1>1, <1>2
    <3> QED BY <2>2, <3>1, <1>1
  <2>3. CASE i # n + 1
    <3>1. i \in ps[1].at..n /\ i \in 1..n BY <2>1, <2>3, <1>1, <1>6
    <3>2. gs[i] = fs[i] BY <3>1, <1>1
    <3> QED BY <3>1, <3>2, <1>2, <1>6
  <2> QED BY <2>2, <2>3
<1> QED BY <1>1, <1>2, <1>3, <1>4, <1>5, <1>6 DEF Gathered

LEMMA GatheredNone == ASSUME NEW fs PROVE Gathered(<<>>, fs)
<1>1. Len(<<>>) = 0 OBVIOUS
<1> QED BY <1>1 DEF Gathered

(* The message made of what was gathered. *)
LEMMA GatheredIsWhole ==
  ASSUME NEW ps \in Seq(Pieces), ps # <<>>, NEW fs, Len(fs) \in Nat, Gathered(ps, fs),
         ps[Len(ps)].at = Len(fs), fs[Len(fs)].fin,
         NEW m, m = [of |-> [i \in DOMAIN ps |-> ps[i].at], text |-> ps[1].op = "text"]
  PROVE  WholeIn(m, fs) /\ m \in [of : Seq(Nat), text : BOOLEAN]
<1> DEFINE c == Len(ps)
<1>1. c \in Nat /\ c >= 1 /\ DOMAIN ps = 1..c /\ \A k \in 1..c : ps[k].at \in Nat
  <2>1. \A k \in 1..c : ps[k] \in Pieces OBVIOUS
  <2>2. \A k \in 1..c : ps[k].at \in Nat BY <2>1 DEF Pieces
  <2> QED BY <2>2
<1>2. m.of = [i \in 1..c |-> ps[i].at] /\ m.text = (ps[1].op = "text") BY <1>1
<1> HIDE DEF c
<1>3. m.of \in [1..c -> Nat] BY <1>1, <1>2
<1>4. Len(m.of) = c /\ DOMAIN m.of = 1..c /\ m.of \in Seq(Nat)
  <2>1. m.of \in Seq(Nat) BY <1>1, <1>3
  <2>2. DOMAIN m.of = 1..c BY <1>3
  <2>3. Len(m.of) \in Nat /\ DOMAIN m.of = 1..Len(m.of) BY <2>1
  <2> QED BY <2>1, <2>2, <2>3, <1>1
<1>5. \A k \in 1..c : m.of[k] = ps[k].at BY <1>2
<1>6. 1 \in 1..c /\ c \in 1..c /\ \A k \in 2..c : k \in 1..c BY <1>1
<1>7. fs[ps[1].at].op = (IF m.text THEN "text" ELSE "binary")
  BY <1>2 DEF Gathered
<1>8. m.of[c] = Len(fs) /\ m.of[1] = ps[1].at BY <1>5, <1>6 DEF c
<1>9. /\ \A k \in 1..c : ps[k].at \in 1..Len(fs)
      /\ \A j, k \in 1..c : j < k => ps[j].at < ps[k].at
      /\ \A k \in 2..c : fs[ps[k].at].op = "cont"
      /\ \A i \in ps[1].at..Len(fs) : IsData(fs[i]) <=> \E k \in 1..c : ps[k].at = i
  BY DEF Gathered, c
<1>10. /\ \A k \in 1..c : m.of[k] \in 1..Len(fs)
       /\ \A j, k \in 1..c : j < k => m.of[j] < m.of[k]
       /\ \A k \in 2..c : fs[m.of[k]].op = "cont"
  BY <1>5, <1>6, <1>9
<1>11. ASSUME NEW i \in m.of[1]..m.of[c]
       PROVE  IsData(fs[i]) <=> \E k \in 1..c : m.of[k] = i
  <2>1. i \in ps[1].at..Len(fs) BY <1>8
  <2>2. IsData(fs[i]) <=> \E k \in 1..c : ps[k].at = i BY <1>9, <2>1
  <2> QED BY <1>5, <2>2
<1>12. fs[m.of[c]].fin /\ fs[m.of[1]].op = (IF m.text THEN "text" ELSE "binary")
  BY <1>7, <1>8
<1>13. c \in Nat \ {0} BY <1>1
<1>14. m \in [of : Seq(Nat), text : BOOLEAN] BY <1>2, <1>4
<1>15. WholeIn(m, fs) BY <1>4, <1>10, <1>11, <1>12, <1>13, ZenonT(60) DEF WholeIn
<1> QED BY <1>14, <1>15

LEMMA WholeStays ==
  ASSUME NEW m, NEW fs \in Seq(AFrame), WholeIn(m, fs), NEW f \in AFrame, NEW gs, gs = Append(fs, f)
  PROVE  WholeIn(m, gs)
<1> DEFINE n == Len(fs)
           c == Len(m.of)
<1>1. n \in Nat /\ Len(gs) = n + 1 /\ \A i \in 1..n : gs[i] = fs[i]
  OBVIOUS
<1>2. /\ c \in Nat \ {0} /\ DOMAIN m.of = 1..c
      /\ \A k \in 1..c : m.of[k] \in 1..n
      /\ \A j, k \in 1..c : j < k => m.of[j] < m.of[k]
      /\ fs[m.of[1]].op = (IF m.text THEN "text" ELSE "binary")
      /\ \A k \in 2..c : fs[m.of[k]].op = "cont"
      /\ fs[m.of[c]].fin
      /\ \A i \in m.of[1]..m.of[c] : IsData(fs[i]) <=> \E k \in 1..c : m.of[k] = i
  BY DEF WholeIn
<1> HIDE DEF n, c
<1>3. 1 \in 1..c /\ c \in 1..c /\ \A k \in 2..c : k \in 1..c BY <1>2
<1>4. \A k \in 1..c : gs[m.of[k]] = fs[m.of[k]] /\ m.of[k] \in 1..n + 1 BY <1>1, <1>2
<1>5. \A i \in m.of[1]..m.of[c] : gs[i] = fs[i]
  <2>1. m.of[1] \in 1..n /\ m.of[c] \in 1..n BY <1>2, <1>3
  <2>2. \A i \in m.of[1]..m.of[c] : i \in 1..n BY <2>1, <1>1
  <2> QED BY <2>2, <1>1
<1>6. Len(gs) = n + 1 BY <1>1
<1> QED BY <1>2, <1>3, <1>4, <1>5, <1>6 DEF WholeIn, c

(* Writing and closing leave the rest of a connection as it is, and a closing one alone. *)
Same(v, w) == /\ v \in Conn /\ v.frag = w.frag /\ v.stage = w.stage /\ v.closed = w.closed
              /\ w.closing => v = w

LEMMA WrittenFields ==
  ASSUME NEW w \in Conn, NEW v \in Written(w)
  PROVE  Same(v, w) /\ v.code = w.code
BY DEF Same, Written, Conn

LEMMA ClosedFields ==
  ASSUME NEW w \in Conn, NEW code \in Codes, NEW v \in ClosedWs(w, code)
  PROVE  Same(v, w) /\ v.closing
<1>1. CASE w.closing BY <1>1 DEF ClosedWs, Same
<1>2. CASE ~w.closing
  <2>1. PICK u \in Written(w) : v = [u EXCEPT !.code = code, !.closing = TRUE]
    BY <1>2 DEF ClosedWs
  <2> DEFINE t == [u EXCEPT !.code = code]
  <2>2. u \in Conn /\ u.frag = w.frag /\ u.stage = w.stage /\ u.closed = w.closed
    BY WrittenFields DEF Same
  <2>3. t \in Conn /\ t.frag = w.frag /\ t.stage = w.stage /\ t.closed = w.closed
    BY <2>2 DEF Conn
  <2>4. v = [t EXCEPT !.closing = TRUE] BY <2>1
  <2> HIDE DEF t
  <2> QED BY <1>2, <2>3, <2>4 DEF Conn, Same
<1> QED BY <1>1, <1>2

LEMMA ListenedFields ==
  ASSUME NEW w \in Conn, NEW v \in Listened(w)
  PROVE  Same(v, w)
<1>1. PICK u \in Written(w) : v = u \/ v \in ClosedWs(u, Normal) BY DEF Listened
<1>2. Same(u, w) BY WrittenFields
<1>3. u \in Conn /\ Normal \in Codes BY <1>2 DEF Same, Codes
<1>4. v = u \/ Same(v, u) BY <1>1, <1>3, ClosedFields
<1> QED BY <1>2, <1>4 DEF Same

LEMMA SoundStays ==
  ASSUME NEW w, NEW fs, Sound(w, fs), NEW v, Same(v, w)
  PROVE  Sound(v, fs)
BY DEF Sound, Same

(* The connection when the frame in hand is done with. *)
LEMMA DoneFields ==
  ASSUME ws \in Conn
  PROVE  /\ FrameDone \in Conn /\ FrameDone.stage = "open" /\ FrameDone.frag = ws.frag
         /\ FrameDone.closing = ws.closing /\ FrameDone.closed = ws.closed /\ FrameDone.code = ws.code
         /\ MessageDone \in Conn /\ MessageDone.stage = "open" /\ MessageDone.frag = <<>>
         /\ MessageDone.closing = ws.closing /\ MessageDone.closed = ws.closed
<1>1. <<>> \in Seq(Pieces) OBVIOUS
<1>2. /\ FrameDone \in Conn /\ FrameDone.stage = "open" /\ FrameDone.frag = ws.frag
      /\ FrameDone.closing = ws.closing /\ FrameDone.closed = ws.closed /\ FrameDone.code = ws.code
  BY DEF FrameDone, Conn
<1>3. MessageDone = [FrameDone EXCEPT !.frag = <<>>] BY DEF MessageDone
<1> QED BY <1>1, <1>2, <1>3 DEF Conn

(* A frame that is no data, behind the upgrade or on an open connection. *)
LEMMA DoneSound ==
  ASSUME ws \in Conn, Len(ws.frag) <= MaxMessage, ws.closed => ws.closing,
         NEW fs, ws.closing \/ Gathered(ws.frag, fs)
  PROVE  Sound(FrameDone, fs)
BY DoneFields DEF Sound, Upgrading

(* What every step has to show. *)
LEMMA WsKeptBy ==
  ASSUME WsInv, Sound(ws', frames'), frames' \in Seq(AFrame),
         \A m : WholeIn(m, frames) => WholeIn(m, frames'),
         \/ told' = told
         \/ \E e \in Told : /\ told' = Append(told, e)
                            /\ e.ev = "message" => WholeIn(e.what, frames')
  PROVE  WsInv'
<1>1. /\ told \in Seq(Told)
      /\ \A k \in 1..Len(told) : told[k].ev = "message" => WholeIn(told[k].what, frames)
  BY DEF WsInv
<1>2. CASE told' = told BY <1>1, <1>2 DEF WsInv
<1>3. CASE \E e \in Told : /\ told' = Append(told, e)
                           /\ e.ev = "message" => WholeIn(e.what, frames')
  <2>1. PICK e \in Told : /\ told' = Append(told, e)
                          /\ e.ev = "message" => WholeIn(e.what, frames')
    BY <1>3
  <2>2. /\ told' \in Seq(Told) /\ Len(told') = Len(told) + 1 /\ told'[Len(told) + 1] = e
        /\ \A k \in 1..Len(told) : told'[k] = told[k]
        /\ Len(told) \in Nat
    BY <1>1, <2>1
  <2>3. ASSUME NEW k \in 1..Len(told'), told'[k].ev = "message"
        PROVE  WholeIn(told'[k].what, frames')
    <3>1. CASE k = Len(told) + 1 BY <2>1, <2>2, <2>3, <3>1
    <3>2. CASE k # Len(told) + 1
      <4>1. k \in 1..Len(told) /\ told'[k] = told[k] BY <2>2, <3>2
      <4> QED BY <1>1, <2>3, <4>1
    <3> QED BY <3>1, <3>2
  <2> QED BY <2>2, <2>3 DEF WsInv
<1> QED BY <1>2, <1>3

LEMMA EventTold ==
  ASSUME told \in Seq(Told), NEW ev \in {"open", "message", "ping", "drain", "close"},
         NEW what \in Nat \cup [of : Seq(Nat), text : BOOLEAN],
         told' = told \o Event(ev, what)
  PROVE  \E e \in Told : told' = Append(told, e) /\ e.ev = ev /\ e.what = what
<1> DEFINE e == [ev |-> ev, what |-> what]
<1>1. e \in Told /\ e.ev = ev /\ e.what = what BY DEF Told
<1>2. Event(ev, what) = <<e>> BY DEF Event
<1> HIDE DEF e
<1>3. told \o <<e>> = Append(told, e) BY <1>1
<1> QED BY <1>1, <1>2, <1>3

(* A refusal: the connection closes. *)
LEMMA RefuseKeeps ==
  ASSUME WsInv, NEW code \in Codes, NEW w, w = FrameDone \/ w = MessageDone, Refuse(w, code),
         frames' \in Seq(AFrame), \A m : WholeIn(m, frames) => WholeIn(m, frames')
  PROVE  WsInv'
<1>1. ws' \in ClosedWs(w, code) /\ told' = told BY DEF Refuse
<1>2. w \in Conn /\ w.stage = "open" /\ Len(w.frag) <= MaxMessage
  <2>1. Len(<<>>) = 0 /\ 0 <= MaxMessage BY WebSocketAssumption
  <2>2. ws \in Conn /\ Len(ws.frag) <= MaxMessage BY DEF WsInv, Sound
  <2> QED BY <2>1, <2>2, DoneFields
<1>3. Same(ws', w) /\ ws'.closing BY <1>1, <1>2, ClosedFields
<1>4. Sound(ws', frames') BY <1>2, <1>3 DEF Same, Sound, Upgrading
<1> QED BY <1>1, <1>4, WsKeptBy

LEMMA ValidateCodes ==
  ASSUME NEW f \in AFrame
  PROVE  /\ Validate(f) # NoCode => Validate(f) \in Codes
         /\ Validate(f) = NoCode /\ IsData(f) => (f.op = "cont" <=> ws.frag # <<>>)
BY DEF Validate, Codes, GoingAway, IsData, NoCode, Normal, ProtocolError, Abnormal, BadData, TooBig

LEMMA ReceiveKeeps ==
  ASSUME WsInv, NEW f \in Frames, Receive(f)
  PROVE  WsInv'
<1>1. /\ ws \in Conn /\ Len(ws.frag) <= MaxMessage /\ frames \in Seq(AFrame)
      /\ told \in Seq(Told) /\ MaxMessage \in Nat
      /\ ws.frag \in Seq(Pieces) /\ (ws.closed => ws.closing)
  BY WebSocketAssumption DEF WsInv, Sound, Conn
<1>2. f \in AFrame BY FrameFields
<1>3. frames' = Append(frames, f) BY DEF Receive
<1>a. Gathered(ws.frag, frames)
  <2>1. CASE ws.stage = "behind"
    <3>1. ws.frag = <<>> BY <2>1 DEF WsInv, Sound, Upgrading
    <3> QED BY <3>1, GatheredNone
  <2>2. CASE ~ws.closing BY <2>2 DEF WsInv, Sound
  <2> QED BY <2>1, <2>2 DEF Receive, More
<1>4. /\ frames' \in Seq(AFrame) /\ Len(frames') = Len(frames) + 1 /\ Len(frames) \in Nat
      /\ frames'[Len(frames')] = f
  BY <1>1, <1>2, <1>3
<1>5. ASSUME NEW m, WholeIn(m, frames) PROVE WholeIn(m, frames')
  BY <1>1, <1>2, <1>3, <1>5, WholeStays
<1>6. TooBig \in Codes /\ BadData \in Codes /\ ProtocolError \in Codes /\ Normal \in Codes
  BY DEF Codes
<1>7. ASSUME NEW code \in Codes, NEW w, w = FrameDone \/ w = MessageDone, Refuse(w, code) PROVE WsInv'
  BY <1>4, <1>5, <1>7, RefuseKeeps
<1>8. CASE Validate(f) # NoCode
  <2>1. Refuse(FrameDone, Validate(f)) BY <1>8 DEF Receive
  <2> QED BY <2>1, <1>2, <1>7, <1>8, ValidateCodes
<1>9. CASE Validate(f) = NoCode /\ ReceiveData(f)
  <2>1. IsData(f) /\ (f.op = "cont" <=> ws.frag # <<>>)
    <3>1. IsData(f) BY <1>9 DEF ReceiveData, IsData
    <3> QED BY <3>1, <1>2, <1>9, ValidateCodes
  <2> DEFINE ps == Parts(f)
  <2>2. ps = Append(ws.frag, Piece(ws.frag, f, Len(frames) + 1)) BY DEF Parts, Piece
  <2> HIDE DEF ps
  <2>3. /\ Gathered(ps, frames') /\ ps \in Seq(Pieces) /\ ps # <<>>
        /\ Len(ps) = Len(ws.frag) + 1
    <3> DEFINE of == ws.frag
               p == Piece(of, f, Len(frames) + 1)
    <3>1. of \in Seq(Pieces) /\ Gathered(of, frames) /\ (f.op = "cont" <=> of # <<>>)
      BY <1>1, <1>a, <2>1
    <3>2. p \in Pieces BY <3>1, <1>2, <1>4, PieceFields
    <3>3. ps = Append(of, p) BY <2>2
    <3>4. ps = Append(of, Piece(of, f, Len(frames) + 1)) BY <2>2
    <3> HIDE DEF of
    <3>5. Gathered(ps, frames')
      BY <3>1, <3>4, <2>1, <1>1, <1>2, <1>3, GatheredMore
    <3> HIDE DEF p
    <3>6. ps \in Seq(Pieces) /\ ps # <<>> /\ Len(ps) = Len(of) + 1 BY <3>1, <3>2, <3>3
    <3> QED BY <3>5, <3>6 DEF of
  <2>4. ps[Len(ps)].at = Len(frames')
    <3>1. /\ Piece(ws.frag, f, Len(frames) + 1) \in Pieces
          /\ Piece(ws.frag, f, Len(frames) + 1).at = Len(frames) + 1
      BY <1>1, <1>2, <1>4, PieceFields
    <3>2. Len(ws.frag) \in Nat BY <1>1
    <3>3. ps[Len(ws.frag) + 1] = Piece(ws.frag, f, Len(frames) + 1) BY <1>1, <2>2, <3>1
    <3> QED BY <3>1, <3>3, <2>3, <1>4
  <2>5. CASE Len(ws.frag) >= MaxMessage BY <2>5, <1>6, <1>7, <1>9 DEF ReceiveData
  <2>6. CASE Len(ws.frag) < MaxMessage /\ f.fin
    <3>1. Complete(f) BY <2>6, <1>1, <1>9 DEF ReceiveData
    <3>2. (\E code \in Codes : Refuse(MessageDone, code)) \/ Deliver(ps)
      BY <3>1, <1>6 DEF Complete, ps
    <3>3. ASSUME Deliver(ps) PROVE WsInv'
      <4> DEFINE m == [of |-> [i \in DOMAIN ps |-> ps[i].at], text |-> ps[1].op = "text"]
      <4>1. ws' \in Listened(MessageDone) /\ told' = told \o Event("message", m)
        BY <3>3 DEF Deliver
      <4>2. Same(ws', MessageDone) BY <1>1, <4>1, DoneFields, ListenedFields
      <4>3. Sound(MessageDone, frames')
        <5>1. Len(<<>>) = 0 /\ 0 <= MaxMessage BY <1>1
        <5> QED BY <5>1, <1>1, DoneFields, GatheredNone DEF Sound, Upgrading
      <4>5. Sound(ws', frames') BY <4>2, <4>3, SoundStays
      <4>6. m = [of |-> [i \in DOMAIN ps |-> ps[i].at], text |-> ps[1].op = "text"] OBVIOUS
      <4> HIDE DEF m
      <4>7. frames'[Len(frames')].fin /\ Len(frames') \in Nat BY <2>6, <1>4
      <4>8. WholeIn(m, frames') /\ m \in [of : Seq(Nat), text : BOOLEAN]
        BY <2>3, <2>4, <4>6, <4>7, GatheredIsWhole
      <4>9. \E e \in Told : told' = Append(told, e) /\ e.ev = "message" /\ e.what = m
        BY <1>1, <4>1, <4>8, EventTold
      <4>10. \E e \in Told : /\ told' = Append(told, e)
                             /\ e.ev = "message" => WholeIn(e.what, frames')
        BY <4>8, <4>9
      <4> QED BY <1>4, <1>5, <4>5, <4>10, WsKeptBy
    <3> QED BY <3>2, <3>3, <1>7
  <2>7. CASE Len(ws.frag) < MaxMessage /\ ~f.fin
    <3>1. ws' = [FrameDone EXCEPT !.frag = ps] /\ told' = told
      BY <2>7, <1>1, <1>9 DEF ReceiveData, ps
    <3>2. /\ ws' \in Conn /\ ws'.frag = ps /\ ws'.stage = "open"
          /\ ws'.closed = ws.closed /\ ws'.closing = ws.closing
      BY <3>1, <2>3, <1>1, DoneFields DEF Conn
    <3>3. Len(ps) <= MaxMessage
      <4>1. Len(ws.frag) \in Nat BY <1>1
      <4> QED BY <4>1, <2>3, <2>7, <1>1
    <3>4. Sound(ws', frames') BY <1>1, <2>3, <3>2, <3>3 DEF Sound, Upgrading
    <3> QED BY <1>4, <1>5, <3>1, <3>4, WsKeptBy
  <2> QED
    <3>1. Len(ws.frag) \in Nat BY <1>1
    <3> QED BY <3>1, <1>1, <2>5, <2>6, <2>7
<1>10. ASSUME ~IsData(f) PROVE Gathered(ws.frag, frames') /\ Sound(FrameDone, frames')
  <2>1. Gathered(ws.frag, frames') BY <1>1, <1>a, <1>2, <1>3, <1>10, GatheredPast
  <2> QED BY <2>1, <1>1, DoneSound
<1>11. CASE ReceivePing(f)
  <2>1. PICK w \in Written(ws) : ws' = [w EXCEPT !.stage = "ping"]
    BY <1>11 DEF ReceivePing
  <2>2. told' = told /\ ~IsData(f) BY <1>11 DEF ReceivePing, IsData
  <2>3. Same(w, ws) BY <1>1, WrittenFields
  <2>4. ~ws.closed
    <3>1. ws.closed => ws.closing /\ ws.stage = "open" BY DEF WsInv, Sound
    <3> QED BY <3>1 DEF Receive, More
  <2>5. /\ ws' \in Conn /\ ws'.frag = ws.frag /\ ws'.stage = "ping" /\ ~ws'.closed
        /\ ws'.closing = w.closing
    BY <2>1, <2>3, <2>4 DEF Same, Conn
  <2>6. Sound(ws', frames') BY <1>1, <1>10, <2>2, <2>5 DEF Sound, Upgrading
  <2> QED BY <1>4, <1>5, <2>2, <2>6, WsKeptBy
<1>12. CASE ReceiveClose(f)
  <2>1. CASE f.code = NoCode BY <2>1, <1>6, <1>7, <1>12 DEF ReceiveClose
  <2>2. CASE f.code # NoCode /\ ~f.good BY <2>2, <1>6, <1>7, <1>12 DEF ReceiveClose
  <2>3. CASE f.code # NoCode /\ f.good
    <3>1. PICK w \in Written(FrameDone) : ws' = [w EXCEPT !.code = f.code, !.closing = TRUE]
      BY <2>3, <1>12 DEF ReceiveClose
    <3>2. told' = told BY <2>3, <1>12 DEF ReceiveClose
    <3>3. Same(w, FrameDone) BY <1>1, DoneFields, WrittenFields
    <3>4. f.code \in Codes BY <1>2, <2>3 DEF AFrame, Codes
    <3> DEFINE t == [w EXCEPT !.code = f.code]
    <3>5. t \in Conn /\ t.frag = ws.frag /\ t.stage = "open"
      BY <1>1, <3>3, <3>4, DoneFields DEF Same, Conn
    <3>6. ws' = [t EXCEPT !.closing = TRUE] BY <3>1
    <3> HIDE DEF t
    <3>7. ws' \in Conn /\ ws'.frag = ws.frag /\ ws'.stage = "open" /\ ws'.closing
      BY <3>5, <3>6 DEF Conn
    <3>8. Sound(ws', frames') BY <1>1, <3>7 DEF Sound, Upgrading
    <3> QED BY <1>4, <1>5, <3>2, <3>8, WsKeptBy
  <2> QED BY <2>1, <2>2, <2>3
<1> QED BY <1>8, <1>9, <1>11, <1>12 DEF Receive

(* What the two action properties ask of one step. *)
SilentAction ==
  /\ ws.closing => \/ told' = told
                   \/ told' = told \o Event("close", ws.code)
                   \/ ws.stage # "open"
  /\ ws.closed => told' = told
CodeAction == ws.closing /\ ws.stage # "behind" => ws'.code = ws.code

LEMMA WsKept ==
  ASSUME WsInv, [WebSocketStep]_wsVars
  PROVE  WsInv' /\ [SilentAction]_wsVars /\ [CodeAction]_wsVars
<1>1. /\ ws \in Conn /\ Len(ws.frag) <= MaxMessage /\ frames \in Seq(AFrame)
      /\ told \in Seq(Told) /\ MaxMessage \in Nat /\ Sound(ws, frames)
      /\ ws.closed => ws.closing /\ ws.stage = "open"
  BY WebSocketAssumption DEF WsInv, Sound
<1>2. ASSUME NEW f \in Frames, Receive(f) PROVE WsInv' /\ SilentAction /\ CodeAction
  <2>1. ws.stage = "behind" \/ ~ws.closing BY <1>2 DEF Receive, More
  <2> QED BY <2>1, <1>1, <1>2, ReceiveKeeps DEF SilentAction, CodeAction
<1>3. ASSUME frames' = frames, told' = told, Sound(ws', frames) PROVE WsInv'
  BY <1>1, <1>3, WsKeptBy
<1>4. ASSUME frames' = frames, Sound(ws', frames),
             NEW ev \in {"open", "ping", "drain", "close"}, NEW what \in Nat,
             told' = told \o Event(ev, what)
      PROVE  WsInv'
  <2> DEFINE e == [ev |-> ev, what |-> what]
  <2>1. e \in Told /\ e.ev # "message" BY DEF Told
  <2>2. Event(ev, what) = <<e>> BY DEF Event
  <2> HIDE DEF e
  <2>3. told' = Append(told, e) BY <1>1, <1>4, <2>1, <2>2
  <2> QED BY <1>1, <1>4, <2>1, <2>3, WsKeptBy
<1>5. CASE Handshake
  <2>1. PICK w \in Written(ws) : ws' = [w EXCEPT !.stage = "opening"]
    BY <1>5 DEF Handshake
  <2>2. ws.stage = "request" /\ UNCHANGED <<frames, told>> BY <1>5 DEF Handshake
  <2>3. Same(w, ws) /\ w.code = ws.code BY <1>1, WrittenFields
  <2>4. Sound(w, frames) BY <1>1, <2>3, SoundStays
  <2>5. ~w.closed /\ w.frag = <<>> BY <1>1, <2>2, <2>3 DEF Same, Sound, Upgrading
  <2>6. Sound(ws', frames) /\ ws'.code = ws.code
    BY <2>1, <2>3, <2>4, <2>5 DEF Sound, Upgrading, Conn
  <2> QED BY <1>3, <2>2, <2>6 DEF SilentAction, CodeAction
<1>6. CASE TellOpen
  <2>1. PICK w \in Listened(ws) : ws' = [w EXCEPT !.stage = "behind"]
    BY <1>6 DEF TellOpen
  <2>2. ws.stage = "opening" /\ frames' = frames /\ told' = told \o Event("open", 0)
    BY <1>6 DEF TellOpen
  <2>3. Same(w, ws) BY <1>1, ListenedFields
  <2>4. Sound(w, frames) BY <1>1, <2>3, SoundStays
  <2>5. ~w.closed /\ w.frag = <<>> /\ ~ws.closed
    BY <1>1, <2>2, <2>3 DEF Same, Sound, Upgrading
  <2>6. Sound(ws', frames) /\ ws'.code = w.code
    BY <2>1, <2>3, <2>4, <2>5 DEF Sound, Upgrading, Conn
  <2> QED BY <1>4, <2>2, <2>3, <2>5, <2>6 DEF Same, SilentAction, CodeAction
<1>7. CASE NothingBehind
  <2>1. ws.stage = "behind" /\ ws' = FrameDone /\ UNCHANGED <<frames, told>>
    BY <1>7 DEF NothingBehind, FrameDone
  <2>2. Sound(FrameDone, frames) BY <1>1, DoneSound DEF Sound
  <2> QED BY <1>3, <2>1, <2>2 DEF SilentAction, CodeAction
<1>8. CASE TellPing
  <2>1. /\ ws.stage = "ping" /\ ws' \in Listened(FrameDone) /\ frames' = frames
        /\ told' = told \o Event("ping", Len(frames))
    BY <1>8 DEF TellPing
  <2>2. Sound(FrameDone, frames) BY <1>1, DoneSound DEF Sound
  <2>3. Same(ws', FrameDone) BY <1>1, <2>1, DoneFields, ListenedFields
  <2>4. Sound(ws', frames) BY <2>2, <2>3, SoundStays
  <2>5. ws.closing => ws'.code = ws.code BY <1>1, <2>3, DoneFields DEF Same
  <2>6. Len(frames) \in Nat BY <1>1
  <2>7. WsInv' BY <1>4, <2>1, <2>4, <2>6
  <2> QED BY <1>1, <2>1, <2>5, <2>7 DEF SilentAction, CodeAction
<1>9. CASE SendFrame
  <2>1. ws' \in Written(ws) /\ UNCHANGED <<frames, told>> BY <1>9 DEF SendFrame
  <2>2. Same(ws', ws) /\ ws'.code = ws.code BY <1>1, <2>1, WrittenFields
  <2> QED BY <1>1, <2>1, <2>2, <1>3, SoundStays DEF SilentAction, CodeAction
<1>10. CASE CloseSocket
  <2>1. ws' \in ClosedWs(ws, Normal) /\ UNCHANGED <<frames, told>>
    BY <1>10 DEF CloseSocket
  <2>2. Same(ws', ws) BY <1>1, <2>1, ClosedFields DEF Codes
  <2> QED BY <1>1, <2>1, <2>2, <1>3, SoundStays DEF Same, SilentAction, CodeAction
<1>11. CASE Drain
  <2>1. /\ ~ws.closing /\ ws' = [ws EXCEPT !.backlog = FALSE] /\ frames' = frames
        /\ told' = told \o Event("drain", 0)
    BY <1>11 DEF Drain
  <2>2. Same(ws', ws) BY <1>1, <2>1 DEF Same, Conn
  <2> QED BY <1>1, <1>4, <2>1, <2>2, SoundStays DEF SilentAction, CodeAction
<1>12. CASE PeerGone
  <2>1. /\ ~ws.closing /\ ws' = [ws EXCEPT !.closing = TRUE] /\ UNCHANGED <<frames, told>>
    BY <1>12 DEF PeerGone
  <2>2. Same(ws', ws) BY <1>1, <2>1 DEF Same, Conn
  <2> QED BY <1>1, <1>3, <2>1, <2>2, SoundStays DEF SilentAction, CodeAction
<1>13. CASE SocketClosed
  <2>1. /\ ws.closing /\ ~ws.closed /\ ws' = [ws EXCEPT !.closed = TRUE, !.frag = <<>>]
        /\ frames' = frames /\ told' = told \o Event("close", ws.code) /\ ws.stage = "open"
    BY <1>13 DEF SocketClosed
  <2> DEFINE t == [ws EXCEPT !.closed = TRUE]
  <2>2. t \in Conn /\ t.code = ws.code /\ t.stage = "open" /\ t.closing
    BY <1>1, <2>1 DEF Conn
  <2>3. ws' = [t EXCEPT !.frag = <<>>] BY <2>1
  <2> HIDE DEF t
  <2>4. <<>> \in Seq(Pieces) /\ Len(<<>>) = 0 /\ 0 <= MaxMessage BY <1>1
  <2>5. /\ ws' \in Conn /\ ws'.frag = <<>> /\ ws'.code = ws.code
        /\ ws'.stage = "open" /\ ws'.closing
    BY <2>2, <2>3, <2>4 DEF Conn
  <2>6. Sound(ws', frames) BY <2>4, <2>5 DEF Sound, Upgrading
  <2>7. ws.code \in Nat
    BY <1>1 DEF Conn, Codes, Normal, GoingAway, ProtocolError, Abnormal, BadData, TooBig
  <2>8. WsInv' BY <1>4, <2>1, <2>6, <2>7
  <2> QED BY <2>1, <2>5, <2>8 DEF SilentAction, CodeAction
<1>14. CASE UNCHANGED wsVars
  <2>1. UNCHANGED <<ws, frames, told>> BY <1>14 DEF wsVars
  <2> QED BY <1>1, <1>3, <1>14, <2>1
<1> QED
  BY <1>2, <1>5, <1>6, <1>7, <1>8, <1>9, <1>10, <1>11, <1>12, <1>13, <1>14 DEF WebSocketStep

(* Whatever frames come, however the handler, the listeners, the application *)
(* and the socket interrupt them: every message told is one whole message   *)
(* of the client; a closing connection says nothing but its one close event *)
(* and what the native call that tore it down still had to tell (the open   *)
(* event, the frame behind the upgrade, a ping); and its code is settled    *)
(* once, but for a close frame behind an upgrade whose handler closed the   *)
(* socket (session.zig, loop.zig's upgrade).                                *)
THEOREM WebSocketTheorem == Spec => WebSocketCorrect
<1>1. WsInv /\ [Next]_mcVars => WsInv' /\ [SilentAction]_wsVars /\ [CodeAction]_wsVars
  BY EachPart, WsKept
<1>2. Init => WsInv
  <2> SUFFICES ASSUME Init PROVE WsInv
    OBVIOUS
  <2>1. /\ ws = [stage |-> "request", frag |-> <<>>, code |-> Abnormal, closing |-> FALSE,
                 closed |-> FALSE, backlog |-> FALSE]
        /\ frames = <<>> /\ told = <<>>
    BY DEF Init, WebSocketInit
  <2>2. /\ <<>> \in Seq(Pieces) /\ <<>> \in Seq(AFrame) /\ <<>> \in Seq(Told) /\ Len(<<>>) = 0
    OBVIOUS
  <2>3. ws \in Conn /\ ws.frag = <<>> /\ ~ws.closed
    BY <2>1, <2>2 DEF Conn, Codes, Upgrading
  <2>4. Gathered(ws.frag, frames) BY <2>3, GatheredNone
  <2>5. 0 <= MaxMessage BY WebSocketAssumption
  <2>6. Sound(ws, frames) BY <2>2, <2>3, <2>4, <2>5 DEF Sound
  <2> QED BY <2>1, <2>2, <2>6 DEF WsInv
<1>3. WsInv => WebSocketTypeOK /\ MessagesWhole
  <2> SUFFICES ASSUME WsInv PROVE WebSocketTypeOK /\ MessagesWhole
    OBVIOUS
  <2>1. WebSocketTypeOK
    <3>1. ws.code \in Codes /\ Len(ws.frag) <= MaxMessage BY DEF WsInv, Sound, Conn
    <3>2. \A i \in DOMAIN told : told[i] \in Told BY DEF WsInv
    <3> QED BY <3>1, <3>2 DEF WebSocketTypeOK, Codes, Told
  <2>2. ASSUME NEW e \in Range(told), e.ev = "message"
        PROVE  LET of == e.what.of
               IN /\ frames[of[1]].op = (IF e.what.text THEN "text" ELSE "binary")
                  /\ frames[Last(of)].fin
                  /\ {i \in of[1]..Last(of) : frames[i].op \in {"text", "binary", "cont"}} = Range(of)
                  /\ \A i \in 2..Len(of) : of[i - 1] < of[i] /\ frames[of[i]].op = "cont"
    <3>1. told \in Seq(Told) BY DEF WsInv
    <3>2. PICK k \in 1..Len(told) : e = told[k] BY <2>2, <3>1 DEF Range
    <3>3. WholeIn(e.what, frames) BY <2>2, <3>2 DEF WsInv
    <3> DEFINE of == e.what.of
               c == Len(of)
               n == Len(frames)
    <3>4. /\ c \in Nat \ {0} /\ DOMAIN of = 1..c
          /\ \A j \in 1..c : of[j] \in 1..n
          /\ \A i, j \in 1..c : i < j => of[i] < of[j]
          /\ frames[of[1]].op = (IF e.what.text THEN "text" ELSE "binary")
          /\ \A j \in 2..c : frames[of[j]].op = "cont"
          /\ frames[of[c]].fin
          /\ \A i \in of[1]..of[c] : IsData(frames[i]) <=> \E j \in 1..c : of[j] = i
          /\ n \in Nat
      <4>1. n \in Nat BY DEF WsInv
      <4>2. c \in Nat \ {0} /\ DOMAIN of = 1..c BY <3>3 DEF WholeIn
      <4>3. /\ \A j \in 1..c : of[j] \in 1..n
            /\ \A i, j \in 1..c : i < j => of[i] < of[j]
        BY <3>3, Zenon DEF WholeIn
      <4>4. /\ frames[of[1]].op = (IF e.what.text THEN "text" ELSE "binary")
            /\ frames[of[c]].fin
        BY <3>3, Zenon DEF WholeIn
      <4>5. \A j \in 2..c : frames[of[j]].op = "cont" BY <3>3, Zenon DEF WholeIn
      <4>6. \A i \in of[1]..of[c] : IsData(frames[i]) <=> \E j \in 1..c : of[j] = i
        BY <3>3, Zenon DEF WholeIn
      <4> QED BY <4>1, <4>2, <4>3, <4>4, <4>5, <4>6
    <3>5. Last(of) = of[c] BY DEF Last
    <3> HIDE DEF of, c, n
    <3>6. 1 \in 1..c /\ c \in 1..c BY <3>4
    <3>7. \A j \in 1..c : of[j] \in of[1]..of[c]
      <4> SUFFICES ASSUME NEW j \in 1..c PROVE of[j] \in of[1]..of[c]
        OBVIOUS
      <4>1. of[j] \in Int /\ of[1] \in Int /\ of[c] \in Int BY <3>4, <3>6
      <4>2. j = 1 \/ of[1] < of[j] BY <3>4, <3>6
      <4>3. j = c \/ of[j] < of[c] BY <3>4, <3>6
      <4> QED BY <4>1, <4>2, <4>3
    <3>8. {i \in of[1]..of[c] : frames[i].op \in {"text", "binary", "cont"}} = Range(of)
      <4>1. ASSUME NEW i \in of[1]..of[c], frames[i].op \in {"text", "binary", "cont"}
            PROVE  i \in Range(of)
        <5>1. PICK j \in 1..c : of[j] = i BY <4>1, <3>4 DEF IsData
        <5> QED BY <5>1, <3>4 DEF Range
      <4>2. ASSUME NEW i \in Range(of)
            PROVE  i \in of[1]..of[c] /\ frames[i].op \in {"text", "binary", "cont"}
        <5>1. PICK j \in 1..c : of[j] = i BY <4>2, <3>4 DEF Range
        <5> QED BY <5>1, <3>4, <3>7 DEF IsData
      <4> QED BY <4>1, <4>2
    <3>9. \A i \in 2..c : of[i - 1] < of[i] /\ frames[of[i]].op = "cont"
      <4> SUFFICES ASSUME NEW i \in 2..c PROVE of[i - 1] < of[i] /\ frames[of[i]].op = "cont"
        OBVIOUS
      <4>1. i - 1 \in 1..c /\ i \in 1..c /\ i - 1 < i BY <3>4
      <4> QED BY <4>1, <3>4
    <3>10. /\ frames[of[1]].op = (IF e.what.text THEN "text" ELSE "binary")
           /\ frames[Last(of)].fin
           /\ {i \in of[1]..Last(of) : frames[i].op \in {"text", "binary", "cont"}} = Range(of)
           /\ \A i \in 2..c : of[i - 1] < of[i] /\ frames[of[i]].op = "cont"
      BY <3>4, <3>5, <3>8, <3>9
    <3> QED BY <3>10 DEF of, c
  <2> QED BY <2>1, <2>2 DEF MessagesWhole
<1> QED BY <1>1, <1>2, <1>3, PTL
    DEF Spec, WebSocketCorrect, SilentOnceClosing, CodeSettled, SilentAction, CodeAction

-----------------------------------------------------------------------------
(* The route table: what resolve answers is a function of the table, and     *)
(* which route lookup picks depends only on those that fit the request.      *)

(* A set of numbers has a least one. *)
LEMMA LeastOf ==
  ASSUME NEW S, S \subseteq Nat, S # {}
  PROVE  Min(S) \in S /\ \A y \in S : Min(S) <= y
<1> DEFINE R == OpToRel(<, Nat)
<1>1. IsWellFoundedOn(R, Nat) BY NatLessThanWellFounded
<1>2. R = {p \in Nat \X Nat : p[1] < p[2]} BY DEF OpToRel
<1> HIDE DEF R
<1>3. PICK x \in S : \A y \in S : <<y, x>> \notin R BY <1>1, WFMin
<1>4. \A y \in S : x <= y
  <2> SUFFICES ASSUME NEW y \in S PROVE x <= y
    OBVIOUS
  <2>1. x \in Nat /\ y \in Nat OBVIOUS
  <2>2. ~ y < x BY <1>2, <1>3, <2>1
  <2> QED BY <2>1, <2>2
<1> QED BY <1>4 DEF Min

(* A bounded one has a greatest. *)
LEMMA GreatestOf ==
  ASSUME NEW n \in Nat, NEW S, S \subseteq 0..n, S # {}
  PROVE  Max(S) \in S /\ \A y \in S : y <= Max(S)
<1> DEFINE T == {n - x : x \in S}
<1>1. T \subseteq Nat /\ T # {}
  <2>1. \A x \in S : n - x \in Nat OBVIOUS
  <2> QED BY <2>1
<1>2. Min(T) \in T /\ \A y \in T : Min(T) <= y BY <1>1, LeastOf
<1>3. PICK x \in S : Min(T) = n - x BY <1>2
<1>4. \A y \in S : x >= y
  <2> SUFFICES ASSUME NEW y \in S PROVE x >= y
    OBVIOUS
  <2>1. n - x <= n - y BY <1>2, <1>3
  <2>2. x \in Int /\ y \in Int OBVIOUS
  <2> QED BY <2>1, <2>2
<1>5. Max(S) \in S /\ \A y \in S : Max(S) >= y BY <1>4 DEF Max
<1>6. S \subseteq Int OBVIOUS
<1> QED BY <1>5, <1>6

-----------------------------------------------------------------------------
(* What a request resolves to. *)

RouterInv ==
  /\ routed \in Seq(TableRoutes)
  /\ \/ asked = Nothing /\ resolution = Nothing
     \/ \E method \in RouteMethods \cup {"PUT"}, path \in AskedPaths :
          /\ asked = [kind |-> "asked", method |-> method, path |-> path]
          /\ resolution = resolve(routed, method, path)

LEMMA RouterKept == RouterInv /\ [RouterStep]_routerVars => RouterInv'
BY DEF RouterInv, RouterStep, Ask, routerVars

LEMMA RouterStarts == Init => RouterInv
<1> SUFFICES ASSUME Init PROVE RouterInv
  OBVIOUS
<1>1. asked = Nothing /\ resolution = Nothing /\ routed \in UNION {[1..n -> TableRoutes] : n \in 0..MaxTable}
  BY DEF Init, RouterInit
<1>2. PICK n \in 0..MaxTable : routed \in [1..n -> TableRoutes] BY <1>1
<1>3. n \in Nat BY RouterAssumption
<1> QED BY <1>1, <1>2, <1>3 DEF RouterInv

(* The route that lookup picks is one for that method and path. *)
LEMMA LookupFinds ==
  ASSUME NEW t \in Seq(TableRoutes), NEW m, NEW p
  PROVE  LET exact == OfMethod(t, Exact(t, p), m)
             dynamic == OfMethod(t, Matching(t, p), m)
         IN /\ exact # {} => /\ lookup(t, m, p) \in exact
                             /\ \A i \in exact : i <= lookup(t, m, p)
            /\ exact = {} /\ dynamic # {} =>
                 /\ lookup(t, m, p) \in dynamic
                 /\ \A i \in dynamic : lookup(t, m, p) <= i
            /\ exact = {} /\ dynamic = {} => lookup(t, m, p) = 0
<1> DEFINE exact == OfMethod(t, Exact(t, p), m)
           dynamic == OfMethod(t, Matching(t, p), m)
<1>1. exact \subseteq DOMAIN t /\ dynamic \subseteq DOMAIN t BY DEF OfMethod, Exact, Matching
<1>2. DOMAIN t = 1..Len(t) /\ Len(t) \in Nat OBVIOUS
<1>3. exact \subseteq 0..Len(t) /\ dynamic \subseteq Nat BY <1>1, <1>2
<1>4. lookup(t, m, p) = IF exact # {} THEN Max(exact) ELSE IF dynamic # {} THEN Min(dynamic) ELSE 0
  BY DEF lookup
<1> HIDE DEF exact, dynamic
<1>5. exact # {} => Max(exact) \in exact /\ \A i \in exact : i <= Max(exact) BY <1>2, <1>3, GreatestOf
<1>6. dynamic # {} => Min(dynamic) \in dynamic /\ \A i \in dynamic : Min(dynamic) <= i BY <1>3, LeastOf
<1> QED BY <1>4, <1>5, <1>6 DEF exact, dynamic

Fits(t, p) == Exact(t, p) \cup Matching(t, p)

LEMMA LookupServes ==
  ASSUME NEW t \in Seq(TableRoutes), NEW m, NEW p
  PROVE  /\ lookup(t, m, p) \in OfMethod(t, Fits(t, p), m) \cup {0}
         /\ lookup(t, m, p) = 0 <=> OfMethod(t, Fits(t, p), m) = {}
         /\ 0 \notin Fits(t, p)
<1> DEFINE exact == OfMethod(t, Exact(t, p), m)
           dynamic == OfMethod(t, Matching(t, p), m)
           all == OfMethod(t, Fits(t, p), m)
           found == lookup(t, m, p)
<1>1. all = exact \cup dynamic BY DEF OfMethod, Fits
<1>2. Fits(t, p) \subseteq DOMAIN t BY DEF Fits, Exact, Matching
<1>3. 0 \notin DOMAIN t OBVIOUS
<1>4. all \subseteq Fits(t, p) BY DEF OfMethod
<1>5. /\ exact # {} => found \in exact
      /\ exact = {} /\ dynamic # {} => found \in dynamic
      /\ exact = {} /\ dynamic = {} => found = 0
  BY LookupFinds
<1> HIDE DEF exact, dynamic, all, found
<1>6. 0 \notin all BY <1>2, <1>3, <1>4
<1> QED BY <1>1, <1>2, <1>3, <1>5, <1>6 DEF all, found

(* A table without its i-th route. *)
Up(i, j) == IF j < i THEN j ELSE j + 1

LEMMA Removed ==
  ASSUME NEW t \in Seq(TableRoutes), NEW i \in DOMAIN t
  PROVE  /\ RemoveAt(t, i) \in Seq(TableRoutes)
         /\ DOMAIN RemoveAt(t, i) = 1..(Len(t) - 1)
         /\ \A j \in 1..(Len(t) - 1) : RemoveAt(t, i)[j] = t[Up(i, j)]
<1>1. i \in 1..Len(t) /\ Len(t) \in Nat OBVIOUS
<1> DEFINE a == SubSeq(t, 1, i - 1)
           b == SubSeq(t, i + 1, Len(t))
<1>2. a \in Seq(TableRoutes) /\ Len(a) = i - 1 /\ \A j \in 1..(i - 1) : a[j] = t[j]
  BY <1>1
<1>3. b \in Seq(TableRoutes) /\ Len(b) = Len(t) - i /\ \A j \in 1..(Len(t) - i) : b[j] = t[i + j]
  BY <1>1
<1>4. RemoveAt(t, i) = a \o b BY DEF RemoveAt
<1> HIDE DEF a, b
<1>5. a \o b \in Seq(TableRoutes) /\ Len(a \o b) = Len(t) - 1 BY <1>1, <1>2, <1>3
<1>6. ASSUME NEW j \in 1..(Len(t) - 1) PROVE (a \o b)[j] = t[Up(i, j)]
  <2>1. CASE j < i BY <2>1, <1>1, <1>2, <1>3 DEF Up
  <2>2. CASE ~ j < i
    <3>1. j - (i - 1) \in 1..(Len(t) - i) BY <2>2, <1>1
    <3>2. (a \o b)[j] = b[j - (i - 1)] BY <2>2, <1>1, <1>2, <1>3
    <3>3. i + (j - (i - 1)) = j + 1 BY <1>1
    <3> QED BY <2>2, <3>1, <3>2, <3>3, <1>3 DEF Up
  <2> QED BY <2>1, <2>2
<1>7. DOMAIN (a \o b) = 1..(Len(t) - 1) BY <1>5
<1>8. /\ RemoveAt(t, i) \in Seq(TableRoutes)
      /\ DOMAIN RemoveAt(t, i) = 1..(Len(t) - 1)
      /\ \A j \in 1..(Len(t) - 1) : RemoveAt(t, i)[j] = t[Up(i, j)]
  BY <1>4, <1>5, <1>6, <1>7, Zenon
<1> QED BY <1>8

(* Which of the others are chosen, and their order, is as before. *)
LEMMA SameAfterRemoval ==
  ASSUME NEW t \in Seq(TableRoutes), NEW i \in DOMAIN t, NEW p, NEW m, t[i].method # m
  PROVE  LET u == RemoveAt(t, i)
         IN \A j \in DOMAIN u :
              /\ j \in OfMethod(u, Exact(u, p), m) <=> Up(i, j) \in OfMethod(t, Exact(t, p), m)
              /\ j \in OfMethod(u, Matching(u, p), m) <=> Up(i, j) \in OfMethod(t, Matching(t, p), m)
<1> DEFINE u == RemoveAt(t, i)
<1> SUFFICES ASSUME NEW j \in DOMAIN u
             PROVE  /\ j \in OfMethod(u, Exact(u, p), m) <=> Up(i, j) \in OfMethod(t, Exact(t, p), m)
                    /\ j \in OfMethod(u, Matching(u, p), m) <=> Up(i, j) \in OfMethod(t, Matching(t, p), m)
  OBVIOUS
<1>1. u[j] = t[Up(i, j)] /\ j \in 1..(Len(t) - 1) BY Removed
<1>2. Up(i, j) \in DOMAIN t BY <1>1 DEF Up
<1> QED BY <1>1, <1>2 DEF OfMethod, Exact, Matching

LEMMA Covered ==
  ASSUME NEW n \in Nat, NEW i \in 1..n, NEW k \in 1..n, k # i
  PROVE  \E j \in 1..(n - 1) : Up(i, j) = k
<1>1. CASE k < i BY <1>1 DEF Up
<1>2. CASE k > i
  <2>1. k - 1 \in 1..(n - 1) /\ Up(i, k - 1) = k BY <1>2 DEF Up
  <2> QED BY <2>1
<1> QED BY <1>1, <1>2

LEMMA LookupSame ==
  ASSUME NEW t \in Seq(TableRoutes), NEW i \in DOMAIN t, NEW m, NEW p, t[i].method # m
  PROVE  LET u == RemoveAt(t, i)
         IN /\ lookup(u, m, p) = 0 <=> lookup(t, m, p) = 0
            /\ lookup(t, m, p) # 0 => u[lookup(u, m, p)] = t[lookup(t, m, p)]
<1> DEFINE u == RemoveAt(t, i)
           E == OfMethod(t, Exact(t, p), m)
           D == OfMethod(t, Matching(t, p), m)
           F == OfMethod(u, Exact(u, p), m)
           G == OfMethod(u, Matching(u, p), m)
           x == lookup(t, m, p)
           y == lookup(u, m, p)
<1>1. /\ u \in Seq(TableRoutes) /\ DOMAIN u = 1..(Len(t) - 1) /\ Len(t) \in Nat /\ i \in 1..Len(t)
      /\ \A j \in 1..(Len(t) - 1) : u[j] = t[Up(i, j)]
  BY Removed
<1>2. /\ E \subseteq 1..Len(t) /\ D \subseteq 1..Len(t) /\ i \notin E /\ i \notin D
      /\ F \subseteq DOMAIN u /\ G \subseteq DOMAIN u
  BY DEF OfMethod, Exact, Matching
<1>3. \A j \in 1..(Len(t) - 1) : (j \in F <=> Up(i, j) \in E) /\ (j \in G <=> Up(i, j) \in D)
  BY <1>1, SameAfterRemoval
<1>4. /\ E # {} => x \in E /\ \A k \in E : k <= x
      /\ E = {} /\ D # {} => x \in D /\ \A k \in D : x <= k
      /\ E = {} /\ D = {} => x = 0
  BY LookupFinds
<1>5. /\ F # {} => y \in F /\ \A k \in F : k <= y
      /\ F = {} /\ G # {} => y \in G /\ \A k \in G : y <= k
      /\ F = {} /\ G = {} => y = 0
  BY <1>1, LookupFinds
<1> HIDE DEF u, E, D, F, G, x, y
<1> DEFINE n == Len(t)
<1>6. ASSUME NEW k \in 1..n, k # i PROVE \E j \in 1..(n - 1) : Up(i, j) = k
  BY <1>1, <1>6, Covered
<1>7. \A j, k \in 1..(n - 1) : Up(i, j) <= Up(i, k) => j <= k BY <1>1 DEF Up
<1>8. CASE E # {}
  <2>1. x \in E /\ x \in 1..n /\ x # i BY <1>2, <1>4, <1>8
  <2>2. PICK j \in 1..(n - 1) : Up(i, j) = x BY <2>1, <1>6
  <2>3. j \in F /\ y \in F /\ j <= y /\ y \in 1..(n - 1) BY <2>1, <2>2, <1>1, <1>2, <1>3, <1>5
  <2>4. Up(i, y) \in E /\ Up(i, y) <= Up(i, j) BY <2>2, <2>3, <1>3, <1>4, <1>8
  <2>5. y = j BY <2>3, <2>4, <1>7
  <2> QED BY <2>1, <2>2, <2>3, <2>5, <1>1 DEF u, x, y
<1>9. CASE E = {} /\ D # {}
  <2>1. x \in D /\ x \in 1..n /\ x # i BY <1>2, <1>4, <1>9
  <2>2. PICK j \in 1..(n - 1) : Up(i, j) = x BY <2>1, <1>6
  <2>3. F = {} BY <1>1, <1>2, <1>3, <1>9
  <2>4. j \in G /\ y \in G /\ y <= j /\ y \in 1..(n - 1)
    BY <2>1, <2>2, <2>3, <1>1, <1>2, <1>3, <1>5
  <2>5. Up(i, y) \in D /\ Up(i, j) <= Up(i, y) BY <2>2, <2>4, <1>3, <1>4, <1>9
  <2>6. y = j BY <2>4, <2>5, <1>7
  <2> QED BY <2>1, <2>2, <2>4, <2>6, <1>1 DEF u, x, y
<1>10. CASE E = {} /\ D = {}
  <2>1. F = {} /\ G = {} BY <1>1, <1>2, <1>3, <1>10
  <2> QED BY <2>1, <1>4, <1>5, <1>10 DEF u, x, y
<1> QED BY <1>8, <1>9, <1>10

(* A route whose pattern ends in a `*' is no exact one. *)
LEMMA CatchAllIsDynamic ==
  ASSUME NEW r \in TableRoutes, endsWithWildcard(Pattern(r))
  PROVE  isDynamic(r.path)
<1> DEFINE p == r.path
           n == Len(p)
           S == {n} \cup {k \in DOMAIN p : p[k] # ""}
<1>1. p \in Seq(STRING) /\ p # <<>> BY RouterAssumption DEF TableRoutes
<1>2. n \in Nat /\ n # 0 /\ DOMAIN p = 1..n BY <1>1
<1>3. S \subseteq 1..n /\ n \in S
  <2>1. n \in 1..n BY <1>2
  <2> HIDE DEF n
  <2> QED BY <1>2, <2>1
<1>4. Min(S) \in S
  <2>1. 1..n \subseteq Nat BY <1>2
  <2> HIDE DEF S
  <2> QED BY <1>3, <2>1, LeastOf
<1>5. Trimmed(p) = SubSeq(p, Min(S), n) BY DEF Trimmed
<1> HIDE DEF S
<1>6. Min(S) \in 1..n BY <1>3, <1>4
<1> DEFINE k == Min(S)
<1> HIDE DEF k
<1>7. k \in 1..n BY <1>6 DEF k
<1> DEFINE q == SubSeq(p, k, n)
<1>8. Len(q) = n - k + 1 /\ q[n - k + 1] = p[n] BY <1>1, <1>2, <1>7
<1>9. Last(Trimmed(p)) = p[n] BY <1>5, <1>8 DEF Last, k
<1>10. p[n] = "*" /\ n \in DOMAIN p BY <1>2, <1>9 DEF endsWithWildcard, Pattern
<1> QED BY <1>10 DEF isDynamic

(* The methods a miss may advertise do not depend on a catch-all. *)
LEMMA AllowedSame ==
  ASSUME NEW t \in Seq(TableRoutes), NEW i \in DOMAIN t, NEW p, endsWithWildcard(Pattern(t[i]))
  PROVE  AllowedFor(RemoveAt(t, i), p) = AllowedFor(t, p)
<1> DEFINE u == RemoveAt(t, i)
           A == Exact(t, p) \cup {j \in Matching(t, p) : ~ endsWithWildcard(Pattern(t[j]))}
           B == Exact(u, p) \cup {j \in Matching(u, p) : ~ endsWithWildcard(Pattern(u[j]))}
<1>1. /\ DOMAIN u = 1..(Len(t) - 1) /\ Len(t) \in Nat /\ i \in 1..Len(t)
      /\ \A j \in 1..(Len(t) - 1) : u[j] = t[Up(i, j)]
  BY Removed
<1>2. t[i] \in TableRoutes OBVIOUS
<1>3. isDynamic(t[i].path) BY <1>2, CatchAllIsDynamic
<1>4. i \notin A /\ A \subseteq 1..Len(t) /\ B \subseteq 1..(Len(t) - 1)
  BY <1>1, <1>3 DEF Exact, Matching
<1>5. ASSUME NEW j \in 1..(Len(t) - 1) PROVE j \in B <=> Up(i, j) \in A
  <2>1. Up(i, j) \in DOMAIN t BY <1>1 DEF Up
  <2>2. u[j] = t[Up(i, j)] BY <1>1
  <2> HIDE DEF u
  <2> QED BY <2>1, <2>2, <1>1 DEF Exact, Matching
<1>6. AllowedFor(t, p) = {t[k].method : k \in A} /\ AllowedFor(u, p) = {u[k].method : k \in B}
  BY DEF AllowedFor
<1> HIDE DEF A, B, u
<1>7. ASSUME NEW k \in A PROVE \E j \in B : u[j].method = t[k].method
  <2>1. k \in 1..Len(t) /\ k # i BY <1>4
  <2>2. PICK j \in 1..(Len(t) - 1) : Up(i, j) = k BY <2>1, <1>1, Covered
  <2> QED BY <2>2, <1>1, <1>5
<1>8. ASSUME NEW j \in B PROVE \E k \in A : u[j].method = t[k].method
  BY <1>1, <1>4, <1>5
<1>9. {t[k].method : k \in A} = {u[k].method : k \in B} BY <1>7, <1>8
<1> QED BY <1>6, <1>9 DEF u

LEMMA ResolveSame ==
  ASSUME NEW t \in Seq(TableRoutes), NEW i \in DOMAIN t, NEW m, NEW p,
         endsWithWildcard(Pattern(t[i])), t[i].method # m, m = "HEAD" => t[i].method # "GET"
  PROVE  resolve(RemoveAt(t, i), m, p) = resolve(t, m, p)
<1> DEFINE u == RemoveAt(t, i)
<1>1. AllowedFor(u, p) = AllowedFor(t, p) BY AllowedSame
<1>2. /\ lookup(u, m, p) = 0 <=> lookup(t, m, p) = 0
      /\ lookup(t, m, p) # 0 => u[lookup(u, m, p)] = t[lookup(t, m, p)]
  BY LookupSame
<1>3. m = "HEAD" =>
        /\ lookup(u, "GET", p) = 0 <=> lookup(t, "GET", p) = 0
        /\ lookup(t, "GET", p) # 0 => u[lookup(u, "GET", p)] = t[lookup(t, "GET", p)]
  BY LookupSame
<1> HIDE DEF u
<1>4. resolve(u, m, p) = resolve(t, m, p)
  <2>1. CASE lookup(t, m, p) # 0 BY <2>1, <1>2 DEF resolve
  <2>2. CASE lookup(t, m, p) = 0 /\ m = "HEAD" BY <2>2, <1>1, <1>2, <1>3 DEF resolve
  <2>3. CASE lookup(t, m, p) = 0 /\ m # "HEAD" BY <2>3, <1>1, <1>2 DEF resolve
  <2> QED BY <2>1, <2>2, <2>3
<1> QED BY <1>4 DEF u

LEMMA RouterAnswers == RouterInv => RouterCorrect
<1> SUFFICES ASSUME RouterInv PROVE RouterCorrect
  OBVIOUS
<1>1. CASE asked = Nothing /\ resolution = Nothing
  BY <1>1 DEF RouterCorrect, AllowIsTrue, CatchAllIsSilent, ExactIsReached, Nothing
<1>2. ASSUME NEW m, NEW p, asked = [kind |-> "asked", method |-> m, path |-> p],
             resolution = resolve(routed, m, p)
      PROVE  RouterCorrect
  <2> DEFINE own == lookup(routed, m, p)
             get == IF m = "HEAD" THEN lookup(routed, "GET", p) ELSE 0
             found == IF own # 0 THEN own ELSE get
             allow == AllowedFor(routed, p)
  <2>1. routed \in Seq(TableRoutes) BY DEF RouterInv
  <2>2. /\ found # 0 => resolution = [kind |-> "found", route |-> routed[found]]
        /\ found = 0 /\ allow = {} => resolution = [kind |-> "not_found"]
        /\ found = 0 /\ allow # {} => resolution = [kind |-> "method_not_allowed", allow |-> allow]
    BY <1>2 DEF resolve
  <2>3. ASSUME NEW method
        PROVE  method \in allow => OfMethod(routed, Fits(routed, p), method) # {}
    BY DEF AllowedFor, OfMethod, Fits
  <2>4. ASSUME NEW method
        PROVE  method \in allow => lookup(routed, method, p) # 0
    BY <2>1, <2>3, LookupServes
  <2>5. AllowIsTrue
    <3> SUFFICES ASSUME resolution.kind = "method_not_allowed"
                 PROVE  /\ m \notin resolution.allow
                        /\ m = "HEAD" => "GET" \notin resolution.allow
                        /\ \A method \in resolution.allow : resolve(routed, method, p).kind = "found"
      BY <1>2 DEF AllowIsTrue
    <3>1. found = 0 /\ resolution.allow = allow
      <4>1. CASE found # 0 BY <4>1, <2>2
      <4>2. CASE found = 0 /\ allow = {} BY <4>2, <2>2
      <4>3. CASE found = 0 /\ allow # {} BY <4>3, <2>2
      <4> QED BY <4>1, <4>2, <4>3
    <3>2. own = 0 /\ (m = "HEAD" => lookup(routed, "GET", p) = 0) BY <3>1
    <3>3. ASSUME NEW method \in allow PROVE resolve(routed, method, p).kind = "found"
      <4>1. lookup(routed, method, p) # 0 BY <2>4
      <4> QED BY <4>1 DEF resolve
    <3> QED BY <3>1, <3>2, <3>3, <2>4
  <2>6. CatchAllIsSilent
    <3> SUFFICES ASSUME NEW i \in DOMAIN routed, endsWithWildcard(Pattern(routed[i])),
                        routed[i].method # m, m = "HEAD" => routed[i].method # "GET"
                 PROVE  resolve(RemoveAt(routed, i), m, p) = resolution
      BY <1>2 DEF CatchAllIsSilent
    <3> QED BY <1>2, <2>1, ResolveSame
  <2>7. ExactIsReached
    <3> SUFFICES ASSUME NEW i \in DOMAIN routed, routed[i].method = m, routed[i].path = p,
                        ~ isDynamic(p)
                 PROVE  resolution = [kind |-> "found", route |-> routed[i]]
      BY <1>2 DEF ExactIsReached, Range
    <3>1. i \in OfMethod(routed, Exact(routed, p), m) BY DEF OfMethod, Exact
    <3>2. own \in OfMethod(routed, Exact(routed, p), m) BY <2>1, <3>1, LookupFinds
    <3>3. own \in DOMAIN routed /\ routed[own].method = m /\ routed[own].path = p
      BY <3>2 DEF OfMethod, Exact
    <3>4. routed[own] \in TableRoutes /\ routed[i] \in TableRoutes BY <2>1, <3>3
    <3>5. routed[own] = routed[i] BY <3>3, <3>4 DEF TableRoutes
    <3>6. own # 0 BY <2>1, <3>3
    <3> QED BY <2>2, <3>5, <3>6
  <2> QED BY <2>5, <2>6, <2>7 DEF RouterCorrect
<1> QED BY <1>1, <1>2 DEF RouterInv

-----------------------------------------------------------------------------
(* The loading of plugins, as a predicate of what was registered (pl, n),   *)
(* what was loaded (ld), the loops in progress (lp) and the plugin whose    *)
(* promise is awaited (aw): the innermost loop has passed it.               *)

Subtree(pl, p) ==
  {q \in 0..MaxPlugins :
     \A S \in SUBSET (0..MaxPlugins) : p \in S /\ (\A s \in S : Range(pl[s]) \subseteq S) => q \in S}

Tree(pl, n) ==
  /\ pl \in [0..MaxPlugins -> Seq(1..n)]
  /\ \A s, r \in 0..MaxPlugins : \A i \in DOMAIN pl[s], j \in DOMAIN pl[r] :
       pl[s][i] = pl[r][j] => s = r /\ i = j
  /\ \A p \in 1..n : \E s \in 0..MaxPlugins : p \in Range(pl[s])

DepthFirst(pl, ld) ==
  \A s \in 0..MaxPlugins : \A i, j \in DOMAIN pl[s] : i < j =>
    \A a, b \in DOMAIN ld :
      ld[a] \in Subtree(pl, pl[s][i]) /\ ld[b] \in Subtree(pl, pl[s][j]) => a < b

ParentsFirst(pl, ld) ==
  \A s \in 1..MaxPlugins, b \in DOMAIN ld :
    ld[b] \in Range(pl[s]) => \E a \in DOMAIN ld : a < b /\ ld[a] = s

Scopes(lp) == {lp[k].scope : k \in DOMAIN lp}

LoopStates == [scope : 0..MaxPlugins, next : Nat \ {0}]

(* Each loop but the innermost is at the plugin whose loop is next; what a  *)
(* loop has passed is loaded, and nothing else in its scope.                *)
Stack(pl, ld, lp) ==
  /\ lp \in Seq(LoopStates)
  /\ lp # <<>> => lp[1].scope = 0
  /\ \A k, l \in DOMAIN lp : lp[k].scope = lp[l].scope => k = l
  /\ Scopes(lp) \subseteq {0} \cup Range(ld)
  /\ \A k \in DOMAIN lp : lp[k].next <= Len(pl[lp[k].scope]) + 1
  /\ \A k \in DOMAIN lp : k # Len(lp) =>
       /\ lp[k].next > 1
       /\ lp[k + 1].scope = pl[lp[k].scope][lp[k].next - 1]
  /\ \A k \in DOMAIN lp : \A j \in DOMAIN pl[lp[k].scope] :
       pl[lp[k].scope][j] \in Range(ld) <=> j < lp[k].next

Shape(pl, n, ld, lp, aw) ==
  /\ Tree(pl, n)
  /\ ld \in Seq(1..n) /\ \A a, b \in DOMAIN ld : ld[a] = ld[b] => a = b
  /\ \A s \in 0..MaxPlugins : pl[s] # <<>> => s = 0 \/ s \in Range(ld)
  /\ Stack(pl, ld, lp)
  /\ \A s \in Range(ld) : s = aw \/ s \in Scopes(lp) \/ Range(pl[s]) \subseteq Range(ld)
  /\ aw # 0 =>
       /\ lp # <<>> /\ aw \notin Scopes(lp) /\ aw \in Range(ld) /\ pl[aw] = <<>>
       /\ lp[Len(lp)].next > 1
       /\ aw = pl[lp[Len(lp)].scope][lp[Len(lp)].next - 1]
  /\ DepthFirst(pl, ld) /\ ParentsFirst(pl, ld)

LEMMA InSequence ==
  ASSUME NEW S, NEW q \in Seq(S), NEW i \in DOMAIN q
  PROVE  q[i] \in S /\ i \in Nat
OBVIOUS

LEMMA Appended ==
  ASSUME NEW S, NEW u \in Seq(S), NEW v \in Seq(S)
  PROVE  /\ u \o v \in Seq(S) /\ DOMAIN (u \o v) = 1..(Len(u) + Len(v))
         /\ \A i \in DOMAIN u : i \in DOMAIN (u \o v) /\ (u \o v)[i] = u[i]
         /\ \A i \in DOMAIN (u \o v) : i \notin DOMAIN u =>
              i - Len(u) \in DOMAIN v /\ (u \o v)[i] = v[i - Len(u)]
         /\ Range(u \o v) = Range(u) \cup Range(v)
<1>1. u \o v \in Seq(S) /\ DOMAIN (u \o v) = 1..(Len(u) + Len(v)) OBVIOUS
<1>2. \A i \in DOMAIN u : i \in DOMAIN (u \o v) /\ (u \o v)[i] = u[i] OBVIOUS
<1>3. \A i \in DOMAIN (u \o v) : i \notin DOMAIN u =>
        i - Len(u) \in DOMAIN v /\ (u \o v)[i] = v[i - Len(u)]
  OBVIOUS
<1>4. ASSUME NEW i \in DOMAIN v PROVE v[i] \in Range(u \o v)
  <2>1. Len(u) + i \in DOMAIN (u \o v) /\ (u \o v)[Len(u) + i] = v[i] OBVIOUS
  <2> QED BY <2>1 DEF Range
<1> DEFINE w == u \o v
<1> HIDE DEF w
<1>5. Range(w) \subseteq Range(u) \cup Range(v) BY <1>2, <1>3 DEF w, Range
<1>6. Range(u) \cup Range(v) \subseteq Range(w) BY <1>2, <1>4 DEF w, Range
<1> QED BY <1>1, <1>2, <1>3, <1>5, <1>6 DEF w

LEMMA Alone ==
  ASSUME NEW pl, NEW p \in 0..MaxPlugins, pl[p] = <<>>
  PROVE  Subtree(pl, p) \subseteq {p}
<1>1. \A s \in {p} : Range(pl[s]) \subseteq {p} BY DEF Range
<1>2. {p} \in SUBSET (0..MaxPlugins) OBVIOUS
<1> QED BY <1>1, <1>2 DEF Subtree

(* A scope x gets m new plugins. *)
Grow(pl, x, n, m) == [pl EXCEPT ![x] = @ \o [i \in 1..m |-> n + i]]

(* What is loaded belongs where it did. *)
LEMMA SubtreesKept ==
  ASSUME NEW n \in Nat, NEW m \in Nat, n + m <= MaxPlugins, NEW pl, Tree(pl, n), NEW x \in 0..n,
         \A s \in 0..MaxPlugins : pl[s] # <<>> => s \in 0..n,
         NEW p \in 0..MaxPlugins, NEW q \in 0..n,
         q \in Subtree([pl EXCEPT ![x] = @ \o [i \in 1..m |-> n + i]], p)
  PROVE  q \in Subtree(pl, p)
<1> DEFINE new == [i \in 1..m |-> n + i]
           ql == [pl EXCEPT ![x] = @ \o new]
<1>0. MaxPlugins \in Nat BY BootAssumption
<1>1. pl \in [0..MaxPlugins -> Seq(1..n)] BY DEF Tree
<1>2. new \in Seq((n + 1)..(n + m)) /\ Len(new) = m OBVIOUS
<1> HIDE DEF new
<1> SUFFICES ASSUME NEW S \in SUBSET (0..MaxPlugins), p \in S, \A s \in S : Range(pl[s]) \subseteq S
             PROVE  q \in S
  BY <1>0 DEF Subtree
<1> DEFINE T == S \cup (n + 1)..(n + m)
<1>3. ASSUME NEW s \in T PROVE Range(ql[s]) \subseteq T
  <2>0. s \in 0..MaxPlugins BY <1>0
  <2>1. Range(pl[s]) \subseteq T
    <3>1. CASE s \in S BY <3>1
    <3>2. CASE s \notin S
      <4>1. s \in (n + 1)..(n + m) /\ s \notin 0..n BY <3>2
      <4>2. pl[s] = <<>> BY <4>1, <2>0
      <4> QED BY <4>2 DEF Range
    <3> QED BY <3>1, <3>2
  <2>2. CASE s # x
    <3>1. ql[s] = pl[s] BY <2>2, <1>1, <2>0
    <3> QED BY <3>1, <2>1
  <2>3. CASE s = x
    <3>1. ql[s] = pl[s] \o new /\ pl[s] \in Seq(1..n) BY <2>3, <1>1, <2>0
    <3>2. Range(pl[s] \o new) \subseteq Range(pl[s]) \cup Range(new)
      <4>1. pl[s] \in Seq(Int) /\ new \in Seq(Int) BY <3>1, <1>2
      <4> QED BY <4>1, Appended
    <3>3. Range(new) \subseteq (n + 1)..(n + m) BY <1>2 DEF Range
    <3> QED BY <3>1, <3>2, <3>3, <2>1
  <2> QED BY <2>2, <2>3
<1>4. T \in SUBSET (0..MaxPlugins) /\ p \in T BY <1>0
<1>5. q \in Subtree(ql, p) BY DEF new
<1> HIDE DEF ql
<1>6. q \in T BY <1>3, <1>4, <1>5 DEF Subtree
<1> QED BY <1>6

Grows(pl, n, ld, x, m, ql) ==
  /\ n \in Nat /\ m \in Nat /\ n + m <= MaxPlugins
  /\ Tree(pl, n) /\ ld \in Seq(1..n) /\ x \in {0} \cup Range(ld)
  /\ \A s \in 0..MaxPlugins : pl[s] # <<>> => s = 0 \/ s \in Range(ld)
  /\ ql = Grow(pl, x, n, m)

Grew(pl, n, ld, x, m, ql) ==
  /\ Tree(ql, n + m)
  /\ x \in 0..MaxPlugins
  /\ \A s \in 0..MaxPlugins : s # x => ql[s] = pl[s]
  /\ Range(ql[x]) = Range(pl[x]) \cup (n + 1)..(n + m)
  /\ \A s \in 0..MaxPlugins : ql[s] # <<>> => s = 0 \/ s \in Range(ld)
  /\ DepthFirst(pl, ld) => DepthFirst(ql, ld)
  /\ ParentsFirst(pl, ld) => ParentsFirst(ql, ld)

LEMMA Grown ==
  ASSUME NEW n, NEW m, NEW pl, NEW ld, NEW x, NEW ql, Grows(pl, n, ld, x, m, ql)
  PROVE  Grew(pl, n, ld, x, m, ql)
<1> SUFFICES ASSUME n \in Nat, m \in Nat, n + m <= MaxPlugins, Tree(pl, n),
                    ld \in Seq(1..n), x \in {0} \cup Range(ld),
                    \A s \in 0..MaxPlugins : pl[s] # <<>> => s = 0 \/ s \in Range(ld),
                    ql = Grow(pl, x, n, m)
             PROVE  /\ Tree(ql, n + m)
                    /\ x \in 0..MaxPlugins
                    /\ \A s \in 0..MaxPlugins : s # x => ql[s] = pl[s]
                    /\ Range(ql[x]) = Range(pl[x]) \cup (n + 1)..(n + m)
                    /\ \A s \in 0..MaxPlugins : ql[s] # <<>> => s = 0 \/ s \in Range(ld)
                    /\ DepthFirst(pl, ld) => DepthFirst(ql, ld)
                    /\ ParentsFirst(pl, ld) => ParentsFirst(ql, ld)
  BY DEF Grows, Grew
<1> DEFINE new == [i \in 1..m |-> n + i]
<1>0. MaxPlugins \in Nat BY BootAssumption
<1>1. pl \in [0..MaxPlugins -> Seq(1..n)] BY DEF Tree
<1>2. Range(ld) \subseteq 1..n /\ x \in 0..n /\ x \in 0..MaxPlugins
  <2>1. Range(ld) \subseteq 1..n BY DEF Range
  <2> QED BY <2>1, <1>0
<1>3. new \in Seq((n + 1)..(n + m)) /\ Len(new) = m /\ \A i \in 1..m : new[i] = n + i OBVIOUS
<1>4. Range(new) = (n + 1)..(n + m)
  <2>1. ASSUME NEW k \in (n + 1)..(n + m) PROVE k \in Range(new)
    <3>1. k - n \in 1..m /\ new[k - n] = k OBVIOUS
    <3> QED BY <3>1, <1>3 DEF Range
  <2>2. ASSUME NEW k \in Range(new) PROVE k \in (n + 1)..(n + m) BY <2>2, <1>3 DEF Range
  <2> QED BY <2>1, <2>2
<1>5. /\ \A s \in 0..MaxPlugins : s # x => ql[s] = pl[s]
      /\ ql[x] = pl[x] \o new /\ DOMAIN ql = 0..MaxPlugins
      /\ ql = [s \in 0..MaxPlugins |-> ql[s]]
  BY <1>1, <1>2 DEF Grow
<1>6. \A q \in 0..n, p \in 0..MaxPlugins : q \in Subtree(ql, p) => q \in Subtree(pl, p)
  <2>1. \A s \in 0..MaxPlugins : pl[s] # <<>> => s \in 0..n BY <1>2
  <2> QED BY <1>2, <2>1, SubtreesKept DEF Grow
<1> HIDE DEF new
<1> DEFINE old == pl[x]
<1>7. old \in Seq(1..n) /\ old \in Seq(1..(n + m)) /\ new \in Seq(1..(n + m))
  <2>1. pl[x] \in Seq(1..n) BY <1>1, <1>2
  <2>2. (n + 1)..(n + m) \subseteq 1..(n + m) /\ 1..n \subseteq 1..(n + m) OBVIOUS
  <2> QED BY <2>1, <2>2, <1>3
<1>a. ql[x] = old \o new BY <1>5
<1> HIDE DEF old
<1>8. /\ ql[x] \in Seq(1..(n + m)) /\ DOMAIN ql[x] = 1..(Len(old) + m)
      /\ \A i \in DOMAIN old : i \in DOMAIN ql[x] /\ ql[x][i] = old[i]
      /\ \A i \in DOMAIN ql[x] : i \notin DOMAIN old =>
           i - Len(old) \in DOMAIN new /\ ql[x][i] = new[i - Len(old)]
      /\ Range(ql[x]) = Range(old) \cup Range(new)
  <2> DEFINE w == old \o new
  <2>1. /\ w \in Seq(1..(n + m)) /\ DOMAIN w = 1..(Len(old) + Len(new))
        /\ \A i \in DOMAIN old : i \in DOMAIN w /\ w[i] = old[i]
        /\ \A i \in DOMAIN w : i \notin DOMAIN old =>
             i - Len(old) \in DOMAIN new /\ w[i] = new[i - Len(old)]
        /\ Range(w) = Range(old) \cup Range(new)
    BY <1>7, Appended
  <2>2. Len(new) = m /\ ql[x] = w BY <1>3, <1>a
  <2> HIDE DEF w
  <2> QED BY <2>1, <2>2
<1>9. /\ DOMAIN new = 1..m /\ DOMAIN old = 1..Len(old) /\ Len(old) \in Nat BY <1>3, <1>7
<1>10. \A s \in 0..MaxPlugins : ql[s] \in Seq(1..(n + m))
  <2> SUFFICES ASSUME NEW s \in 0..MaxPlugins PROVE ql[s] \in Seq(1..(n + m))
    OBVIOUS
  <2>1. CASE s = x BY <2>1, <1>8
  <2>2. CASE s # x
    <3>1. ql[s] = pl[s] /\ pl[s] \in Seq(1..n) BY <2>2, <1>1, <1>5
    <3>2. 1..n \subseteq 1..(n + m) OBVIOUS
    <3> QED BY <3>1, <3>2
  <2> QED BY <2>1, <2>2
<1>11. \A s \in 0..MaxPlugins : \A j \in DOMAIN ql[s] :
          \/ j \in DOMAIN pl[s] /\ ql[s][j] = pl[s][j] /\ ql[s][j] \in 1..n
          \/ s = x /\ j \notin DOMAIN pl[s] /\ ql[s][j] = n + (j - Len(old)) /\ j - Len(old) \in 1..m /\ j \in Nat
  <2> SUFFICES ASSUME NEW s \in 0..MaxPlugins, NEW j \in DOMAIN ql[s]
               PROVE  \/ j \in DOMAIN pl[s] /\ ql[s][j] = pl[s][j] /\ ql[s][j] \in 1..n
                      \/ s = x /\ j \notin DOMAIN pl[s] /\ ql[s][j] = n + (j - Len(old)) /\ j - Len(old) \in 1..m /\ j \in Nat
    OBVIOUS
  <2>1. pl[s] \in Seq(1..n) BY <1>1
  <2>2. \A i \in DOMAIN pl[s] : pl[s][i] \in 1..n BY <2>1
  <2>3. CASE s # x BY <2>2, <2>3, <1>5
  <2>4. CASE s = x /\ j \in DOMAIN old BY <2>2, <2>4, <1>8 DEF old
  <2>5. CASE s = x /\ j \notin DOMAIN old
    <3>1. j \in DOMAIN ql[x] BY <2>5
    <3>2. j - Len(old) \in DOMAIN new /\ ql[x][j] = new[j - Len(old)] BY <3>1, <2>5, <1>8
    <3>3. j \in Nat BY <3>1, <1>8, <1>9
    <3> QED BY <2>5, <3>2, <3>3, <1>3, <1>9 DEF old
  <2> QED BY <2>3, <2>4, <2>5
<1>b. \A s \in 0..MaxPlugins : \A j \in DOMAIN ql[s] :
        ql[s][j] \in 1..n => j \in DOMAIN pl[s] /\ ql[s][j] = pl[s][j]
  <2>1. \A k \in 1..m : n + k \notin 1..n OBVIOUS
  <2> QED BY <2>1, <1>11
<1>c. \A s \in 0..MaxPlugins : \A j \in DOMAIN ql[s] :
        ql[s][j] \notin 1..n =>
          s = x /\ ql[s][j] = n + (j - Len(old)) /\ j - Len(old) \in 1..m /\ j \in Nat
  BY <1>11
<1>12. Tree(ql, n + m)
  <2>1. ql \in [0..MaxPlugins -> Seq(1..(n + m))] BY <1>5, <1>10
  <2>2. ASSUME NEW s \in 0..MaxPlugins, NEW r \in 0..MaxPlugins, NEW i \in DOMAIN ql[s],
               NEW j \in DOMAIN ql[r], ql[s][i] = ql[r][j]
        PROVE  s = r /\ i = j
    <3>1. CASE ql[s][i] \in 1..n
      <4>1. i \in DOMAIN pl[s] /\ ql[s][i] = pl[s][i] BY <3>1, <1>b
      <4>2. j \in DOMAIN pl[r] /\ ql[r][j] = pl[r][j] BY <3>1, <2>2, <1>b
      <4>3. pl[s][i] = pl[r][j] BY <4>1, <4>2, <2>2
      <4> QED BY <4>1, <4>2, <4>3 DEF Tree
    <3>2. CASE ql[s][i] \notin 1..n
      <4>1. s = x /\ ql[s][i] = n + (i - Len(old)) /\ i - Len(old) \in 1..m /\ i \in Nat
        BY <3>2, <1>c
      <4>2. r = x /\ ql[r][j] = n + (j - Len(old)) /\ j - Len(old) \in 1..m /\ j \in Nat
        BY <3>2, <2>2, <1>c
      <4> QED BY <4>1, <4>2, <2>2, <1>9
    <3> QED BY <3>1, <3>2
  <2>3. ASSUME NEW p \in 1..(n + m) PROVE \E s \in 0..MaxPlugins : p \in Range(ql[s])
    <3>1. CASE p \in 1..n
      <4>1. PICK s \in 0..MaxPlugins : p \in Range(pl[s]) BY <3>1 DEF Tree
      <4>2. Range(pl[s]) \subseteq Range(ql[s])
        <5>1. CASE s = x BY <5>1, <1>8 DEF old
        <5>2. CASE s # x BY <5>2, <1>5
        <5> QED BY <5>1, <5>2
      <4> QED BY <4>1, <4>2
    <3>2. CASE p \notin 1..n
      <4>1. p \in Range(new) BY <3>2, <1>4
      <4> QED BY <4>1, <1>2, <1>8
    <3> QED BY <3>1, <3>2
  <2> QED BY <2>1, <2>2, <2>3 DEF Tree
<1>13. \A s \in 0..MaxPlugins : ql[s] # <<>> => s = 0 \/ s \in Range(ld) BY <1>5
<1>14. \A a \in DOMAIN ld : ld[a] \in 1..n /\ ld[a] \in 0..n OBVIOUS
<1>15. ASSUME NEW s \in 0..MaxPlugins, NEW j \in DOMAIN ql[s], NEW a \in DOMAIN ld,
              ld[a] \in Subtree(ql, ql[s][j])
       PROVE  j \in DOMAIN pl[s] /\ ld[a] \in Subtree(pl, pl[s][j])
  <2> DEFINE y == ql[s][j]
  <2>1. y \in 1..(n + m)
    <3>1. ql[s] \in Seq(1..(n + m)) BY <1>10
    <3> QED BY <3>1
  <2>2. y \in 0..MaxPlugins BY <2>1, <1>0
  <2>3. CASE y \in 1..n
    <3>1. j \in DOMAIN pl[s] /\ y = pl[s][j] BY <2>3, <1>b
    <3>2. ld[a] \in Subtree(pl, y) BY <1>6, <1>14, <1>15, <2>2
    <3> QED BY <3>1, <3>2
  <2>4. CASE y \notin 1..n
    <3>1. y \notin Range(ld) /\ y # 0 BY <2>1, <2>4, <1>2
    <3>2. ql[y] = <<>> BY <2>2, <3>1, <1>13
    <3>3. ld[a] = y BY <2>2, <3>2, <1>15, Alone
    <3> QED BY <2>4, <3>3, <1>14
  <2> QED BY <2>3, <2>4
<1>16. DepthFirst(pl, ld) => DepthFirst(ql, ld) BY <1>15 DEF DepthFirst
<1>17. ParentsFirst(pl, ld) => ParentsFirst(ql, ld)
  <2> SUFFICES ASSUME ParentsFirst(pl, ld), NEW s \in 1..MaxPlugins, NEW b \in DOMAIN ld,
                      ld[b] \in Range(ql[s])
               PROVE  \E a \in DOMAIN ld : a < b /\ ld[a] = s
    BY DEF ParentsFirst
  <2>1. PICK j \in DOMAIN ql[s] : ld[b] = ql[s][j] BY DEF Range
  <2>2. s \in 0..MaxPlugins BY <1>0
  <2>3. j \in DOMAIN pl[s] /\ ld[b] = pl[s][j]
    <3>1. ql[s][j] \in 1..n BY <2>1, <1>14
    <3> QED BY <2>1, <2>2, <3>1, <1>b
  <2>4. ld[b] \in Range(pl[s]) BY <2>3 DEF Range
  <2> QED BY <2>4 DEF ParentsFirst
<1> QED BY <1>2, <1>4, <1>5, <1>8, <1>12, <1>13, <1>16, <1>17 DEF new, old

(* The innermost loop calls its next plugin. *)
LEMMA LoadedNext ==
  ASSUME NEW n \in 0..MaxPlugins, NEW pl, NEW ld, NEW lp, Shape(pl, n, ld, lp, 0), lp # <<>>,
         NEW p, lp[Len(lp)].next <= Len(pl[lp[Len(lp)].scope]),
         p = pl[lp[Len(lp)].scope][lp[Len(lp)].next]
  PROVE  Shape(pl, n, Append(ld, p), [lp EXCEPT ![Len(lp)].next = @ + 1], p)
<1> DEFINE d == Len(lp)
           mine == lp[d].scope
           here == lp[d].next
           lq == [lp EXCEPT ![d].next = @ + 1]
           le == Append(ld, p)
<1>0. MaxPlugins \in Nat BY BootAssumption
<1>1. /\ Tree(pl, n) /\ ld \in Seq(1..n) /\ \A a, b \in DOMAIN ld : ld[a] = ld[b] => a = b
      /\ \A s \in 0..MaxPlugins : pl[s] # <<>> => s = 0 \/ s \in Range(ld)
      /\ Stack(pl, ld, lp) /\ DepthFirst(pl, ld) /\ ParentsFirst(pl, ld)
  BY DEF Shape
<1>2. \A s \in Range(ld) : s = 0 \/ s \in Scopes(lp) \/ Range(pl[s]) \subseteq Range(ld)
  BY DEF Shape
<1>3. /\ lp \in Seq(LoopStates) /\ lp[1].scope = 0
      /\ \A k, l \in DOMAIN lp : lp[k].scope = lp[l].scope => k = l
      /\ Scopes(lp) \subseteq {0} \cup Range(ld)
      /\ \A k \in DOMAIN lp : lp[k].next <= Len(pl[lp[k].scope]) + 1
      /\ \A k \in DOMAIN lp : k # Len(lp) =>
           /\ lp[k].next > 1
           /\ lp[k + 1].scope = pl[lp[k].scope][lp[k].next - 1]
      /\ \A k \in DOMAIN lp : \A j \in DOMAIN pl[lp[k].scope] :
           pl[lp[k].scope][j] \in Range(ld) <=> j < lp[k].next
  BY <1>1 DEF Stack
<1>4. d \in DOMAIN lp /\ DOMAIN lp = 1..d /\ d \in Nat /\ lp[d] \in LoopStates
  BY <1>3
<1>q. \A k \in DOMAIN lp : lp[k] \in LoopStates /\ lp[k].scope \in 0..MaxPlugins /\ lp[k].next \in Nat \ {0}
  <2>1. \A k \in DOMAIN lp : lp[k] \in LoopStates BY <1>3
  <2> QED BY <2>1 DEF LoopStates
<1>5. /\ pl \in [0..MaxPlugins -> Seq(1..n)]
      /\ \A s, r \in 0..MaxPlugins : \A i \in DOMAIN pl[s], j \in DOMAIN pl[r] :
           pl[s][i] = pl[r][j] => s = r /\ i = j
  BY <1>1 DEF Tree
<1>6. /\ mine \in 0..MaxPlugins /\ here \in Nat \ {0} /\ pl[mine] \in Seq(1..n)
      /\ here \in DOMAIN pl[mine] /\ p = pl[mine][here] /\ p \in 1..n
  <2>1. mine \in 0..MaxPlugins /\ here \in Nat \ {0} /\ here <= Len(pl[mine]) /\ p = pl[mine][here]
    BY <1>4, <1>q
  <2> HIDE DEF mine, here
  <2>2. pl[mine] \in Seq(1..n) BY <2>1, <1>5
  <2>3. here \in DOMAIN pl[mine] BY <2>1, <2>2
  <2> QED BY <2>1, <2>2, <2>3
<1>7. p \notin Range(ld) /\ p \in 0..MaxPlugins /\ p # 0
  <2>1. here \in DOMAIN pl[lp[d].scope] /\ p = pl[lp[d].scope][here] BY <1>6
  <2>2. ~ here < lp[d].next BY <1>6
  <2>3. p \notin Range(ld) BY <1>3, <1>4, <2>1, <2>2
  <2> HIDE DEF mine, here
  <2> QED BY <2>3, <1>0, <1>6
<1>8. pl[p] = <<>> BY <1>1, <1>7
<1>9. p \notin Scopes(lp) BY <1>3, <1>7
<1>10. /\ lq \in Seq(LoopStates) /\ DOMAIN lq = 1..d /\ Len(lq) = d
       /\ \A k \in 1..d : lq[k].scope = lp[k].scope
       /\ \A k \in 1..d : lq[k].next = IF k = d THEN here + 1 ELSE lp[k].next
  <2>1. lq[d] = [lp[d] EXCEPT !.next = @ + 1] BY <1>4
  <2>2. lq[d] \in LoopStates /\ lq[d].scope = lp[d].scope /\ lq[d].next = here + 1
    BY <2>1, <1>4 DEF LoopStates
  <2>3. \A k \in 1..d : k # d => lq[k] = lp[k] BY <1>4
  <2>4. lq = [k \in 1..d |-> lq[k]] /\ DOMAIN lq = 1..d BY <1>3, <1>4
  <2> HIDE DEF lq
  <2>5. \A k \in 1..d : lq[k] \in LoopStates
    BY <2>2, <2>3, <1>4, <1>q
  <2>6. lq \in [1..d -> LoopStates] BY <2>4, <2>5, Zenon
  <2>7. lq \in Seq(LoopStates) /\ Len(lq) = d
    <3> HIDE DEF d
    <3> QED BY <2>4, <2>6, <1>4
  <2>8. \A k \in 1..d : lq[k].next = IF k = d THEN here + 1 ELSE lp[k].next BY <2>2, <2>3
  <2>9. \A k \in 1..d : lq[k].scope = lp[k].scope BY <2>2, <2>3
  <2> QED BY <2>4, <2>7, <2>8, <2>9
<1>11. /\ le \in Seq(1..n) /\ DOMAIN le = 1..(Len(ld) + 1) /\ DOMAIN ld = 1..Len(ld) /\ Len(ld) \in Nat
       /\ \A a \in 1..Len(ld) : le[a] = ld[a]
       /\ le[Len(ld) + 1] = p
  BY <1>1, <1>6
<1> HIDE DEF mine, here, lq, le, d
<1>12. Range(le) = Range(ld) \cup {p}
  <2>1. ASSUME NEW y \in Range(ld) \cup {p} PROVE y \in Range(le)
    <3>1. CASE y = p
      <4>1. Len(ld) + 1 \in DOMAIN le BY <1>11
      <4> QED BY <3>1, <4>1, <1>11 DEF Range
    <3>2. CASE y \in Range(ld)
      <4>1. PICK a \in DOMAIN ld : y = ld[a] BY <3>2 DEF Range
      <4>2. a \in DOMAIN le /\ le[a] = y BY <4>1, <1>11
      <4> QED BY <4>2 DEF Range
    <3> QED BY <2>1, <3>1, <3>2
  <2>2. ASSUME NEW y \in Range(le) PROVE y \in Range(ld) \cup {p}
    <3>1. PICK a \in DOMAIN le : y = le[a] BY <2>2 DEF Range
    <3>2. CASE a = Len(ld) + 1 BY <3>1, <3>2, <1>11
    <3>3. CASE a # Len(ld) + 1
      <4>1. a \in DOMAIN ld /\ y = ld[a] BY <3>1, <3>3, <1>11
      <4> QED BY <4>1 DEF Range
    <3> QED BY <3>2, <3>3
  <2> QED BY <2>1, <2>2
<1>13. \A a \in DOMAIN ld : ld[a] # p BY <1>7 DEF Range
<1>14. \A a, b \in DOMAIN le : le[a] = le[b] => a = b
  <2> SUFFICES ASSUME NEW a \in DOMAIN le, NEW b \in DOMAIN le, le[a] = le[b] PROVE a = b
    OBVIOUS
  <2>1. CASE a \in DOMAIN ld /\ b \in DOMAIN ld BY <2>1, <1>1, <1>11
  <2>2. CASE a \notin DOMAIN ld BY <2>2, <1>11, <1>13
  <2>3. CASE a \in DOMAIN ld /\ b \notin DOMAIN ld
    <3>1. le[b] = p /\ le[a] = ld[a] BY <2>3, <1>11
    <3> QED BY <2>3, <3>1, <1>13
  <2> QED BY <2>1, <2>2, <2>3
<1>15. Scopes(lq) = Scopes(lp)
  <2>1. DOMAIN lq = DOMAIN lp /\ \A k \in DOMAIN lp : lq[k].scope = lp[k].scope BY <1>4, <1>10
  <2> QED BY <2>1 DEF Scopes
<1>16. ASSUME NEW k \in 1..d, NEW j \in DOMAIN pl[lp[k].scope], pl[lp[k].scope][j] = p
       PROVE  k = d /\ j = here
  <2>1. lp[k].scope \in 0..MaxPlugins BY <1>4, <1>q
  <2>2. lp[k].scope = mine /\ j = here BY <2>1, <1>5, <1>6, <1>16
  <2> QED BY <2>2, <1>3, <1>4 DEF mine
<1>17. Stack(pl, le, lq)
  <2>1. lq # <<>> => lq[1].scope = 0 BY <1>3, <1>4, <1>10
  <2>2. \A k, l \in DOMAIN lq : lq[k].scope = lq[l].scope => k = l BY <1>3, <1>4, <1>10
  <2>3. Scopes(lq) \subseteq {0} \cup Range(le) BY <1>3, <1>12, <1>15
  <2>4. \A k \in DOMAIN lq : lq[k].next <= Len(pl[lq[k].scope]) + 1
    <3> SUFFICES ASSUME NEW k \in 1..d PROVE lq[k].next <= Len(pl[lp[k].scope]) + 1
      BY <1>10
    <3>1. CASE k = d
      <4>1. here <= Len(pl[mine]) /\ Len(pl[mine]) \in Nat BY <1>6
      <4> QED BY <3>1, <4>1, <1>6, <1>10 DEF mine
    <3>2. CASE k # d BY <3>2, <1>3, <1>4, <1>10
    <3> QED BY <3>1, <3>2
  <2>5. ASSUME NEW k \in DOMAIN lq, k # Len(lq)
        PROVE  lq[k].next > 1 /\ lq[k + 1].scope = pl[lq[k].scope][lq[k].next - 1]
    <3>1. k \in 1..d /\ k + 1 \in 1..d /\ k # d BY <2>5, <1>4, <1>10
    <3> QED BY <3>1, <1>3, <1>4, <1>10 DEF d
  <2>6. ASSUME NEW k \in DOMAIN lq, NEW j \in DOMAIN pl[lq[k].scope]
        PROVE  pl[lq[k].scope][j] \in Range(le) <=> j < lq[k].next
    <3>1. k \in 1..d /\ j \in DOMAIN pl[lp[k].scope] BY <1>10
    <3>2. pl[lp[k].scope][j] \in Range(ld) <=> j < lp[k].next BY <3>1, <1>3, <1>4
    <3>3. CASE k = d
      <4>1. pl[mine][j] \in Range(ld) <=> j < here BY <3>2, <3>3 DEF mine, here
      <4>2. pl[mine][j] = p <=> j = here BY <3>1, <3>3, <1>6, <1>16 DEF mine
      <4>3. j \in Nat BY <3>1, <3>3, <1>6 DEF mine
      <4>4. pl[mine][j] \in Range(le) <=> j < here + 1 BY <4>1, <4>2, <4>3, <1>6, <1>12
      <4> QED BY <3>1, <3>3, <4>4, <1>10 DEF mine
    <3>4. CASE k # d
      <4>1. pl[lp[k].scope][j] # p BY <3>1, <3>4, <1>16
      <4> QED BY <3>1, <3>2, <3>4, <4>1, <1>10, <1>12
    <3> QED BY <3>3, <3>4
  <2> QED BY <2>1, <2>2, <2>3, <2>4, <2>5, <2>6, <1>10 DEF Stack
<1>18. \A s \in 0..MaxPlugins : pl[s] # <<>> => s = 0 \/ s \in Range(le) BY <1>1, <1>12
<1>19. \A s \in Range(le) : s = p \/ s \in Scopes(lq) \/ Range(pl[s]) \subseteq Range(le)
  <2>1. 0 \notin Range(ld) BY <1>11 DEF Range
  <2> QED BY <2>1, <1>2, <1>12, <1>15
<1>20. /\ lq # <<>> /\ p \notin Scopes(lq) /\ p \in Range(le) /\ pl[p] = <<>>
       /\ lq[Len(lq)].next > 1
       /\ p = pl[lq[Len(lq)].scope][lq[Len(lq)].next - 1]
  <2>1. lq[d].next = here + 1 /\ lq[d].scope = mine BY <1>4, <1>10 DEF mine
  <2>2. here + 1 > 1 /\ (here + 1) - 1 = here BY <1>6
  <2>3. lq # <<>> BY <1>4, <1>10
  <2> QED BY <2>1, <2>2, <2>3, <1>6, <1>8, <1>9, <1>10, <1>12, <1>15
(* Only a plugin whose loop is in progress, or p itself, has p in its subtree. *)
<1>21. ASSUME NEW y \in 0..MaxPlugins, p \in Subtree(pl, y)
       PROVE  y \in Scopes(lp) \cup {p}
  <2> DEFINE S == (0..MaxPlugins) \ (Scopes(lp) \cup {p})
  <2>1. ASSUME NEW s \in S PROVE Range(pl[s]) \subseteq S
    <3> SUFFICES ASSUME NEW j \in DOMAIN pl[s] PROVE pl[s][j] \in S
      BY DEF Range
    <3>1. pl[s] \in Seq(1..n) /\ pl[s][j] \in 1..n BY <1>5
    <3>2. pl[s][j] # p
      <4> SUFFICES ASSUME pl[s][j] = p PROVE FALSE
        OBVIOUS
      <4>1. s = mine BY <1>5, <1>6
      <4> QED BY <4>1, <1>4 DEF Scopes, mine
    <3>3. ASSUME NEW k \in DOMAIN lp, pl[s][j] = lp[k].scope PROVE FALSE
      <4>1. k # 1 BY <3>1, <3>3, <1>3
      <4>2. k - 1 \in DOMAIN lp /\ k - 1 # d /\ (k - 1) + 1 = k BY <4>1, <1>4
      <4>3. lp[k - 1].next > 1 /\ lp[k].scope = pl[lp[k - 1].scope][lp[k - 1].next - 1]
        BY <4>2, <1>3 DEF d
      <4>4. lp[k - 1].scope \in 0..MaxPlugins /\ lp[k - 1].next \in Nat \ {0} BY <4>2, <1>q
      <4>5. pl[lp[k - 1].scope] \in Seq(1..n) BY <4>4, <1>5
      <4>6. lp[k - 1].next - 1 \in DOMAIN pl[lp[k - 1].scope]
        <5>1. lp[k - 1].next <= Len(pl[lp[k - 1].scope]) + 1 BY <4>2, <1>3
        <5> QED BY <4>3, <4>4, <4>5, <5>1
      <4>7. s = lp[k - 1].scope BY <3>3, <4>3, <4>4, <4>6, <1>5
      <4> QED BY <4>2, <4>7 DEF Scopes
    <3>4. pl[s][j] \in 0..MaxPlugins BY <3>1, <1>0
    <3> QED BY <3>2, <3>3, <3>4 DEF Scopes
  <2>2. S \in SUBSET (0..MaxPlugins) /\ p \notin S OBVIOUS
  <2> HIDE DEF S
  <2>3. y \notin S BY <2>1, <2>2, <1>21 DEF Subtree
  <2> QED BY <2>3 DEF S
<1>22. DepthFirst(pl, le)
  <2> SUFFICES ASSUME NEW s \in 0..MaxPlugins, NEW i \in DOMAIN pl[s], NEW j \in DOMAIN pl[s], i < j,
                      NEW a \in DOMAIN le, NEW b \in DOMAIN le,
                      le[a] \in Subtree(pl, pl[s][i]), le[b] \in Subtree(pl, pl[s][j])
               PROVE  a < b
    BY DEF DepthFirst
  <2>0. pl[s] \in Seq(1..n) /\ i \in Nat /\ j \in Nat /\ pl[s][i] \in 1..n /\ pl[s][j] \in 1..n
    <3>1. pl[s] \in Seq(1..n) BY <1>5
    <3> QED BY <3>1, InSequence, Zenon
  <2>1. CASE a \in DOMAIN ld /\ b \in DOMAIN ld BY <2>1, <1>1, <1>11 DEF DepthFirst
  <2>2. CASE a \in DOMAIN ld /\ b \notin DOMAIN ld BY <2>2, <1>11
  <2>3. CASE a \notin DOMAIN ld
    <3>1. le[a] = p /\ pl[s][i] \in 0..MaxPlugins
      <4>1. a = Len(ld) + 1 BY <2>3, <1>11
      <4>2. pl[s][i] \in 0..MaxPlugins BY <2>0, <1>0
      <4> QED BY <4>1, <4>2, <1>11
    <3>2. pl[s][i] \in Scopes(lp) \cup {p} BY <3>1, <1>21
    <3>3. pl[s][j] \notin Range(ld) \cup {p}
      <4>1. CASE pl[s][i] = p
        <5>1. s = mine /\ i = here BY <4>1, <1>5, <1>6
        <5>2. pl[mine][j] \notin Range(ld)
          <6>1. ~ j < here BY <5>1, <2>0, <1>6
          <6> QED BY <5>1, <6>1, <1>3, <1>4 DEF mine, here
        <5>3. pl[s][j] # p BY <4>1, <2>0, <1>5
        <5> QED BY <5>1, <5>2, <5>3
      <4>2. CASE pl[s][i] \in Scopes(lp)
        <5>1. PICK k \in DOMAIN lp : pl[s][i] = lp[k].scope BY <4>2 DEF Scopes
        <5>2. k # 1 BY <2>0, <5>1, <1>3
        <5>3. k - 1 \in DOMAIN lp /\ k - 1 # d /\ (k - 1) + 1 = k BY <5>2, <1>4
        <5>4. lp[k - 1].next > 1 /\ lp[k].scope = pl[lp[k - 1].scope][lp[k - 1].next - 1]
          BY <5>3, <1>3 DEF d
        <5>5. lp[k - 1].scope \in 0..MaxPlugins /\ lp[k - 1].next \in Nat \ {0} BY <5>3, <1>q
        <5>6. pl[lp[k - 1].scope] \in Seq(1..n) BY <5>5, <1>5
        <5>7. lp[k - 1].next - 1 \in DOMAIN pl[lp[k - 1].scope]
          <6>1. lp[k - 1].next <= Len(pl[lp[k - 1].scope]) + 1 BY <5>3, <1>3
          <6> QED BY <5>4, <5>5, <5>6, <6>1
        <5>8. s = lp[k - 1].scope /\ i = lp[k - 1].next - 1 BY <5>1, <5>4, <5>5, <5>7, <1>5
        <5>9. ~ j < lp[k - 1].next
          <6> DEFINE passed == lp[k - 1].next
          <6>1. passed \in Nat /\ i = passed - 1 /\ i < j BY <5>5, <5>8, <2>0
          <6>2. j \in Nat BY <1>5
          <6> HIDE DEF passed
          <6>3. ~ j < passed BY <6>1, <6>2
          <6> QED BY <6>3 DEF passed
        <5>10. pl[s][j] \notin Range(ld) BY <5>3, <5>8, <5>9, <1>3
        <5>11. pl[s][j] # p
          <6>1. k - 1 \in 1..d /\ j \in DOMAIN pl[lp[k - 1].scope] BY <5>3, <5>8, <1>4
          <6> QED BY <5>3, <5>8, <6>1, <1>16
        <5> QED BY <5>10, <5>11
      <4> QED BY <3>2, <4>1, <4>2
    <3>4. pl[s][j] \in 0..MaxPlugins /\ pl[s][j] # 0 BY <2>0, <1>0
    <3>5. pl[pl[s][j]] = <<>> BY <3>3, <3>4, <1>1
    <3>6. le[b] = pl[s][j] BY <3>4, <3>5, Alone
    <3>7. le[b] \in Range(le) BY DEF Range
    <3> QED BY <3>3, <3>6, <3>7, <1>12
  <2> QED BY <2>1, <2>2, <2>3
<1>23. ParentsFirst(pl, le)
  <2> SUFFICES ASSUME NEW s \in 1..MaxPlugins, NEW b \in DOMAIN le, le[b] \in Range(pl[s])
               PROVE  \E a \in DOMAIN le : a < b /\ le[a] = s
    BY DEF ParentsFirst
  <2>1. CASE b \in DOMAIN ld
    <3>1. ld[b] \in Range(pl[s]) BY <2>1, <1>11
    <3>2. PICK a \in DOMAIN ld : a < b /\ ld[a] = s BY <2>1, <3>1, <1>1 DEF ParentsFirst
    <3> QED BY <3>2, <1>11
  <2>2. CASE b \notin DOMAIN ld
    <3>1. le[b] = p /\ b = Len(ld) + 1 BY <2>2, <1>11
    <3>2. PICK j \in DOMAIN pl[s] : pl[s][j] = p BY <3>1 DEF Range
    <3>3. s \in 0..MaxPlugins /\ s # 0 BY <1>0
    <3>4. s = mine BY <3>2, <3>3, <1>5, <1>6
    <3>5. s \in Range(ld) BY <3>3, <3>4, <1>3, <1>4 DEF Scopes, mine
    <3>6. PICK a \in DOMAIN ld : ld[a] = s BY <3>5 DEF Range
    <3> QED BY <3>1, <3>6, <1>11
  <2> QED BY <2>1, <2>2
<1>24. Shape(pl, n, le, lq, p)
  BY <1>1, <1>11, <1>14, <1>17, <1>18, <1>19, <1>20, <1>22, <1>23 DEF Shape
<1> QED BY <1>24 DEF le, lq, d

(* A plugin has run: its own loop is entered, with what it registered. *)
LEMMA Descended ==
  ASSUME NEW n \in 0..MaxPlugins, NEW pl, NEW ld, NEW lp, NEW p, p # 0, Shape(pl, n, ld, lp, p),
         NEW m \in Nat, n + m <= MaxPlugins
  PROVE  Shape(Grow(pl, p, n, m), n + m, ld,
               Append(lp, [scope |-> p, next |-> 1]), 0)
<1> DEFINE ql == Grow(pl, p, n, m)
           d == Len(lp)
           lq == Append(lp, [scope |-> p, next |-> 1])
<1>0. MaxPlugins \in Nat /\ n \in Nat BY BootAssumption
<1>1. /\ Tree(pl, n) /\ ld \in Seq(1..n) /\ \A a, b \in DOMAIN ld : ld[a] = ld[b] => a = b
      /\ \A s \in 0..MaxPlugins : pl[s] # <<>> => s = 0 \/ s \in Range(ld)
      /\ Stack(pl, ld, lp) /\ DepthFirst(pl, ld) /\ ParentsFirst(pl, ld)
      /\ \A s \in Range(ld) : s = p \/ s \in Scopes(lp) \/ Range(pl[s]) \subseteq Range(ld)
      /\ lp # <<>> /\ p \notin Scopes(lp) /\ p \in Range(ld) /\ pl[p] = <<>>
      /\ lp[d].next > 1
      /\ p = pl[lp[d].scope][lp[d].next - 1]
  BY DEF Shape
<1>2. /\ Tree(ql, n + m)
      /\ p \in 0..MaxPlugins
      /\ \A s \in 0..MaxPlugins : s # p => ql[s] = pl[s]
      /\ Range(ql[p]) = Range(pl[p]) \cup (n + 1)..(n + m)
      /\ \A s \in 0..MaxPlugins : ql[s] # <<>> => s = 0 \/ s \in Range(ld)
      /\ DepthFirst(ql, ld) /\ ParentsFirst(ql, ld)
  <2>1. p \in {0} \cup Range(ld) BY <1>1
  <2>2. ql = Grow(pl, p, n, m) OBVIOUS
  <2> HIDE DEF ql
  <2>3. /\ Tree(pl, n) /\ ld \in Seq(1..n)
        /\ \A s \in 0..MaxPlugins : pl[s] # <<>> => s = 0 \/ s \in Range(ld)
    BY <1>1
  <2>4. /\ Tree(ql, n + m)
        /\ p \in 0..MaxPlugins
        /\ \A s \in 0..MaxPlugins : s # p => ql[s] = pl[s]
        /\ Range(ql[p]) = Range(pl[p]) \cup (n + 1)..(n + m)
        /\ \A s \in 0..MaxPlugins : ql[s] # <<>> => s = 0 \/ s \in Range(ld)
        /\ DepthFirst(pl, ld) => DepthFirst(ql, ld)
        /\ ParentsFirst(pl, ld) => ParentsFirst(ql, ld)
    <3>1. Grows(pl, n, ld, p, m, ql) BY <1>0, <2>1, <2>2, <2>3 DEF Grows
    <3> QED BY <3>1, Grown DEF Grew
  <2> QED BY <1>1, <2>4
<1> HIDE DEF ql
<1>3. /\ lp \in Seq(LoopStates) /\ lp[1].scope = 0
      /\ \A k, l \in DOMAIN lp : lp[k].scope = lp[l].scope => k = l
      /\ Scopes(lp) \subseteq {0} \cup Range(ld)
      /\ \A k \in DOMAIN lp : lp[k].next <= Len(pl[lp[k].scope]) + 1
      /\ \A k \in DOMAIN lp : k # Len(lp) =>
           /\ lp[k].next > 1
           /\ lp[k + 1].scope = pl[lp[k].scope][lp[k].next - 1]
      /\ \A k \in DOMAIN lp : \A j \in DOMAIN pl[lp[k].scope] :
           pl[lp[k].scope][j] \in Range(ld) <=> j < lp[k].next
  BY <1>1 DEF Stack
<1>4. d \in DOMAIN lp /\ DOMAIN lp = 1..d /\ d \in Nat BY <1>1, <1>3
<1>5. \A k \in DOMAIN lp : lp[k].scope \in 0..MaxPlugins /\ lp[k].scope # p /\ ql[lp[k].scope] = pl[lp[k].scope]
  <2>1. \A k \in DOMAIN lp : lp[k] \in LoopStates BY <1>3
  <2>2. \A k \in DOMAIN lp : lp[k].scope \in 0..MaxPlugins BY <2>1 DEF LoopStates
  <2>3. \A k \in DOMAIN lp : lp[k].scope # p BY <1>1 DEF Scopes
  <2> QED BY <2>2, <2>3, <1>2
<1>6. /\ lq \in Seq(LoopStates) /\ DOMAIN lq = 1..(d + 1) /\ Len(lq) = d + 1
      /\ \A k \in 1..d : lq[k] = lp[k]
      /\ lq[d + 1] = [scope |-> p, next |-> 1]
  <2>1. [scope |-> p, next |-> 1] \in LoopStates BY <1>2 DEF LoopStates
  <2> QED BY <2>1, <1>3, <1>4
<1>7. lq[d + 1].scope = p /\ lq[d + 1].next = 1 BY <1>6
<1> HIDE DEF lq, d
<1>8. Scopes(lq) = Scopes(lp) \cup {p}
  <2>1. ASSUME NEW y \in Scopes(lq) PROVE y \in Scopes(lp) \cup {p}
    <3>1. PICK k \in 1..(d + 1) : y = lq[k].scope BY <2>1, <1>6 DEF Scopes
    <3>2. CASE k = d + 1 BY <3>1, <3>2, <1>7
    <3>3. CASE k # d + 1
      <4>1. k \in DOMAIN lp /\ y = lp[k].scope BY <3>1, <3>3, <1>4, <1>6
      <4> QED BY <4>1 DEF Scopes
    <3> QED BY <3>2, <3>3
  <2>2. ASSUME NEW y \in Scopes(lp) PROVE y \in Scopes(lq)
    <3>1. PICK k \in DOMAIN lp : y = lp[k].scope BY <2>2 DEF Scopes
    <3>2. k \in DOMAIN lq /\ y = lq[k].scope BY <3>1, <1>4, <1>6
    <3> QED BY <3>2 DEF Scopes
  <2>3. p \in Scopes(lq)
    <3>1. d + 1 \in DOMAIN lq BY <1>4, <1>6
    <3> QED BY <3>1, <1>7 DEF Scopes
  <2> QED BY <2>1, <2>2, <2>3
<1>9. Range(ql[p]) \cap Range(ld) = {} /\ ql[p] \in Seq(1..(n + m))
  <2>1. Range(ld) \subseteq 1..n BY <1>1 DEF Range
  <2>2. Range(ql[p]) = (n + 1)..(n + m)
    <3>1. Range(pl[p]) = {} BY <1>1 DEF Range
    <3> QED BY <3>1, <1>2
  <2>3. ql[p] \in Seq(1..(n + m)) BY <1>2 DEF Tree
  <2>4. \A y \in (n + 1)..(n + m) : y \notin 1..n BY <1>0
  <2> QED BY <2>1, <2>2, <2>3, <2>4
<1>10. Stack(ql, ld, lq)
  <2>1. lq[1].scope = 0 BY <1>3, <1>4, <1>6
  <2>2. ASSUME NEW k \in DOMAIN lq, NEW l \in DOMAIN lq, lq[k].scope = lq[l].scope PROVE k = l
    <3>1. k \in 1..d \/ k = d + 1 BY <1>4, <1>6
    <3>2. l \in 1..d \/ l = d + 1 BY <1>4, <1>6
    <3>3. CASE k \in 1..d /\ l \in 1..d BY <2>2, <3>3, <1>3, <1>4, <1>6
    <3>4. CASE k \in 1..d /\ l = d + 1 BY <2>2, <3>4, <1>4, <1>5, <1>6, <1>7
    <3>5. CASE l \in 1..d /\ k = d + 1 BY <2>2, <3>5, <1>4, <1>5, <1>6, <1>7
    <3> QED BY <3>1, <3>2, <3>3, <3>4, <3>5
  <2>3. Scopes(lq) \subseteq {0} \cup Range(ld) BY <1>1, <1>3, <1>8
  <2>4. ASSUME NEW k \in DOMAIN lq PROVE lq[k].next <= Len(ql[lq[k].scope]) + 1
    <3>1. CASE k \in 1..d BY <3>1, <1>3, <1>4, <1>5, <1>6
    <3>2. CASE k = d + 1
      <4>1. Len(ql[p]) \in Nat BY <1>9
      <4> QED BY <3>2, <4>1, <1>7
    <3> QED BY <3>1, <3>2, <1>4, <1>6
  <2>5. ASSUME NEW k \in DOMAIN lq, k # Len(lq)
        PROVE  lq[k].next > 1 /\ lq[k + 1].scope = ql[lq[k].scope][lq[k].next - 1]
    <3>1. k \in 1..d BY <2>5, <1>4, <1>6
    <3>2. lq[k] = lp[k] /\ ql[lq[k].scope] = pl[lq[k].scope] BY <3>1, <1>4, <1>5, <1>6
    <3>3. CASE k = d BY <3>2, <3>3, <1>1, <1>7 DEF d
    <3>4. CASE k # d
      <4>1. k + 1 \in 1..d /\ lq[k + 1] = lp[k + 1] BY <3>1, <3>4, <1>4, <1>6
      <4> QED BY <3>1, <3>2, <3>4, <4>1, <1>3, <1>4 DEF d
    <3> QED BY <3>3, <3>4
  <2>6. ASSUME NEW k \in DOMAIN lq, NEW j \in DOMAIN ql[lq[k].scope]
        PROVE  ql[lq[k].scope][j] \in Range(ld) <=> j < lq[k].next
    <3>1. CASE k \in 1..d
      <4>1. k \in DOMAIN lp /\ lq[k] = lp[k] BY <3>1, <1>4, <1>6
      <4> QED BY <4>1, <1>3, <1>5
    <3>2. CASE k = d + 1
      <4>1. j \in DOMAIN ql[p] BY <3>2, <1>7
      <4>2. ql[p][j] \in Range(ql[p]) BY <4>1 DEF Range
      <4>3. j \in Nat \ {0} BY <4>1, <1>9
      <4> QED BY <3>2, <4>2, <4>3, <1>7, <1>9
    <3> QED BY <3>1, <3>2, <1>4, <1>6
  <2> QED BY <2>1, <2>2, <2>3, <2>4, <2>5, <2>6, <1>6 DEF Stack
<1>11. \A s \in Range(ld) : s = 0 \/ s \in Scopes(lq) \/ Range(ql[s]) \subseteq Range(ld)
  <2>1. \A s \in Range(ld) : s \in 0..MaxPlugins
    <3>1. \A a \in DOMAIN ld : ld[a] \in 1..n BY <1>1
    <3> QED BY <3>1, <1>0 DEF Range
  <2> QED BY <2>1, <1>1, <1>2, <1>8
<1>12. ld \in Seq(1..(n + m))
  <2>1. 1..n \subseteq 1..(n + m) BY <1>0
  <2> QED BY <2>1, <1>1
<1>13. Shape(ql, n + m, ld, lq, 0) BY <1>1, <1>2, <1>10, <1>11, <1>12 DEF Shape
<1> QED BY <1>13 DEF ql, lq

(* A loop is done. *)
LEMMA LoopOver ==
  ASSUME NEW n \in 0..MaxPlugins, NEW pl, NEW ld, NEW lp, Shape(pl, n, ld, lp, 0), lp # <<>>,
         lp[Len(lp)].next > Len(pl[lp[Len(lp)].scope])
  PROVE  /\ Shape(pl, n, ld, Front(lp), 0)
         /\ Len(lp) = 1 => Range(pl[0]) \subseteq Range(ld) /\ Front(lp) = <<>>
         /\ Len(lp) > 1 => Front(lp) # <<>>
<1> DEFINE d == Len(lp)
           lq == Front(lp)
<1>0. MaxPlugins \in Nat BY BootAssumption
<1>1. /\ Tree(pl, n) /\ ld \in Seq(1..n) /\ Stack(pl, ld, lp)
      /\ \A s \in Range(ld) : s = 0 \/ s \in Scopes(lp) \/ Range(pl[s]) \subseteq Range(ld)
  BY DEF Shape
<1>3. /\ lp \in Seq(LoopStates) /\ lp[1].scope = 0
      /\ \A k, l \in DOMAIN lp : lp[k].scope = lp[l].scope => k = l
      /\ Scopes(lp) \subseteq {0} \cup Range(ld)
      /\ \A k \in DOMAIN lp : lp[k].next <= Len(pl[lp[k].scope]) + 1
      /\ \A k \in DOMAIN lp : k # Len(lp) =>
           /\ lp[k].next > 1
           /\ lp[k + 1].scope = pl[lp[k].scope][lp[k].next - 1]
      /\ \A k \in DOMAIN lp : \A j \in DOMAIN pl[lp[k].scope] :
           pl[lp[k].scope][j] \in Range(ld) <=> j < lp[k].next
  BY <1>1 DEF Stack
<1>4. d \in DOMAIN lp /\ DOMAIN lp = 1..d /\ d \in Nat /\ d >= 1 BY <1>3
<1>5. lp[d].scope \in 0..MaxPlugins /\ lp[d].next \in Nat
  <2>1. lp[d] \in LoopStates BY <1>3, <1>4
  <2> QED BY <2>1 DEF LoopStates
<1>6. Range(pl[lp[d].scope]) \subseteq Range(ld)
  <2> DEFINE q == pl[lp[d].scope]
  <2>1. q \in Seq(1..n) BY <1>1, <1>5 DEF Tree
  <2>2. \A j \in DOMAIN q : j < lp[d].next
    <3> HIDE DEF q
    <3>1. \A j \in DOMAIN q : j \in Nat /\ j <= Len(q) /\ Len(q) \in Nat BY <2>1
    <3>2. lp[d].next > Len(q) BY DEF q
    <3> QED BY <3>1, <3>2, <1>5
  <2>3. \A j \in DOMAIN q : q[j] \in Range(ld) BY <2>2, <1>3, <1>4
  <2> QED BY <2>3 DEF Range
<1>7. lq \in Seq(LoopStates) /\ Len(lq) = d - 1 /\ DOMAIN lq = 1..(d - 1) /\ \A k \in 1..(d - 1) : lq[k] = lp[k]
  BY <1>3, <1>4 DEF Front
<1> HIDE DEF lq, d
<1>8. Scopes(lp) = Scopes(lq) \cup {lp[d].scope}
  <2>1. ASSUME NEW y \in Scopes(lp) PROVE y \in Scopes(lq) \cup {lp[d].scope}
    <3>1. PICK k \in 1..d : y = lp[k].scope BY <2>1, <1>4 DEF Scopes
    <3>2. k = d \/ k \in 1..(d - 1) BY <3>1, <1>4
    <3> QED BY <3>1, <3>2, <1>7 DEF Scopes
  <2>2. ASSUME NEW y \in Scopes(lq) PROVE y \in Scopes(lp)
    <3>1. PICK k \in 1..(d - 1) : y = lq[k].scope BY <2>2, <1>7 DEF Scopes
    <3>2. k \in DOMAIN lp /\ y = lp[k].scope BY <3>1, <1>4, <1>7
    <3> QED BY <3>2 DEF Scopes
  <2>3. lp[d].scope \in Scopes(lp) BY <1>4 DEF Scopes
  <2> QED BY <2>1, <2>2, <2>3
<1>9. \A k \in 1..(d - 1) : k \in DOMAIN lp /\ k # d BY <1>4
<1>10. Stack(pl, ld, lq)
  <2>1. lq # <<>> => lq[1].scope = 0
    <3>1. lq # <<>> => 1 \in 1..(d - 1) BY <1>4, <1>7
    <3> QED BY <3>1, <1>3, <1>7
  <2>2. \A k, l \in DOMAIN lq : lq[k].scope = lq[l].scope => k = l BY <1>3, <1>7, <1>9
  <2>3. Scopes(lq) \subseteq {0} \cup Range(ld) BY <1>3, <1>8
  <2>4. \A k \in DOMAIN lq : lq[k].next <= Len(pl[lq[k].scope]) + 1 BY <1>3, <1>7, <1>9
  <2>5. ASSUME NEW k \in DOMAIN lq, k # Len(lq)
        PROVE  lq[k].next > 1 /\ lq[k + 1].scope = pl[lq[k].scope][lq[k].next - 1]
    <3>1. k \in 1..(d - 1) /\ k + 1 \in 1..(d - 1) BY <2>5, <1>4, <1>7
    <3> QED BY <3>1, <1>3, <1>7, <1>9 DEF d
  <2>6. \A k \in DOMAIN lq : \A j \in DOMAIN pl[lq[k].scope] :
           pl[lq[k].scope][j] \in Range(ld) <=> j < lq[k].next
    BY <1>3, <1>7, <1>9
  <2> QED BY <2>1, <2>2, <2>3, <2>4, <2>5, <2>6, <1>7 DEF Stack
<1>11. \A s \in Range(ld) : s = 0 \/ s \in Scopes(lq) \/ Range(pl[s]) \subseteq Range(ld)
  BY <1>1, <1>6, <1>8
<1>12. Shape(pl, n, ld, lq, 0) BY <1>10, <1>11 DEF Shape
<1>13. d = 1 => Range(pl[0]) \subseteq Range(ld) /\ lq = <<>> BY <1>3, <1>6, <1>7
<1>14. d > 1 => lq # <<>> BY <1>4, <1>7
<1> QED BY <1>12, <1>13, <1>14 DEF d, lq

(* The outermost loop is entered, with nothing loaded. *)
LEMMA LoopBegins ==
  ASSUME NEW n \in 0..MaxPlugins, NEW pl, Shape(pl, n, <<>>, <<>>, 0)
  PROVE  Shape(pl, n, <<>>, <<[scope |-> 0, next |-> 1]>>, 0)
<1> DEFINE lq == <<[scope |-> 0, next |-> 1]>>
<1>0. MaxPlugins \in Nat BY BootAssumption
<1>1. /\ lq \in Seq(LoopStates) /\ DOMAIN lq = {1} /\ Len(lq) = 1 /\ lq[1].scope = 0 /\ lq[1].next = 1
  BY <1>0 DEF LoopStates
<1>2. Range(<<>>) = {} BY DEF Range
<1>3. pl[0] \in Seq(1..n) BY <1>0 DEF Shape, Tree
<1>4. Len(pl[0]) \in Nat /\ \A j \in DOMAIN pl[0] : j >= 1 BY <1>3
<1> HIDE DEF lq
<1>5. Scopes(lq) = {0} BY <1>1 DEF Scopes
<1>6. Stack(pl, <<>>, lq) BY <1>1, <1>2, <1>4, <1>5 DEF Stack
<1>7. Shape(pl, n, <<>>, lq, 0) BY <1>2, <1>6 DEF Shape
<1> QED BY <1>7 DEF lq

(* A plugin is registered with the application while none is loading. *)
LEMMA RegisteredAtRoot ==
  ASSUME NEW n \in 0..MaxPlugins, NEW pl, NEW ld, Shape(pl, n, ld, <<>>, 0), n + 1 <= MaxPlugins
  PROVE  LET ql == Grow(pl, 0, n, 1)
         IN /\ Shape(ql, n + 1, ld, <<>>, 0)
            /\ Range(ql[0]) = Range(pl[0]) \cup {n + 1}
<1> DEFINE ql == Grow(pl, 0, n, 1)
<1>0. MaxPlugins \in Nat /\ n \in Nat BY BootAssumption
<1>1. /\ Tree(pl, n) /\ ld \in Seq(1..n) /\ \A a, b \in DOMAIN ld : ld[a] = ld[b] => a = b
      /\ \A s \in 0..MaxPlugins : pl[s] # <<>> => s = 0 \/ s \in Range(ld)
      /\ DepthFirst(pl, ld) /\ ParentsFirst(pl, ld)
      /\ \A s \in Range(ld) : s = 0 \/ s \in Scopes(<<>>) \/ Range(pl[s]) \subseteq Range(ld)
  BY DEF Shape
<1>2. /\ Tree(ql, n + 1)
      /\ \A s \in 0..MaxPlugins : s # 0 => ql[s] = pl[s]
      /\ Range(ql[0]) = Range(pl[0]) \cup (n + 1)..(n + 1)
      /\ \A s \in 0..MaxPlugins : ql[s] # <<>> => s = 0 \/ s \in Range(ld)
      /\ DepthFirst(ql, ld) /\ ParentsFirst(ql, ld)
  <2>1. 0 \in {0} \cup Range(ld) /\ 1 \in Nat OBVIOUS
  <2>2. ql = Grow(pl, 0, n, 1) OBVIOUS
  <2> HIDE DEF ql
  <2>3. /\ Tree(pl, n) /\ ld \in Seq(1..n)
        /\ \A s \in 0..MaxPlugins : pl[s] # <<>> => s = 0 \/ s \in Range(ld)
    BY <1>1
  <2>4. /\ Tree(ql, n + 1)
        /\ 0 \in 0..MaxPlugins
        /\ \A s \in 0..MaxPlugins : s # 0 => ql[s] = pl[s]
        /\ Range(ql[0]) = Range(pl[0]) \cup (n + 1)..(n + 1)
        /\ \A s \in 0..MaxPlugins : ql[s] # <<>> => s = 0 \/ s \in Range(ld)
        /\ DepthFirst(pl, ld) => DepthFirst(ql, ld)
        /\ ParentsFirst(pl, ld) => ParentsFirst(ql, ld)
    <3>1. Grows(pl, n, ld, 0, 1, ql) BY <1>0, <2>1, <2>2, <2>3 DEF Grows
    <3> QED BY <3>1, Grown DEF Grew
  <2> QED BY <1>1, <2>4
<1> HIDE DEF ql
<1>3. Stack(ql, ld, <<>>) BY DEF Stack, Scopes
<1>4. \A s \in Range(ld) : s = 0 \/ s \in Scopes(<<>>) \/ Range(ql[s]) \subseteq Range(ld)
  <2>1. \A s \in Range(ld) : s \in 0..MaxPlugins
    <3>1. \A a \in DOMAIN ld : ld[a] \in 1..n BY <1>1
    <3> QED BY <3>1, <1>0 DEF Range
  <2> QED BY <2>1, <1>1, <1>2
<1>5. ld \in Seq(1..(n + 1))
  <2>1. 1..n \subseteq 1..(n + 1) BY <1>0
  <2> QED BY <2>1, <1>1
<1>6. Shape(ql, n + 1, ld, <<>>, 0) BY <1>1, <1>2, <1>3, <1>4, <1>5 DEF Shape
<1>7. (n + 1)..(n + 1) = {n + 1} BY <1>0
<1> QED BY <1>2, <1>6, <1>7 DEF ql

LEMMA RangeOfSequence == ASSUME NEW S, NEW q \in Seq(S) PROVE Range(q) \subseteq S
<1>1. ASSUME NEW i \in DOMAIN q PROVE q[i] \in S BY InSequence
<1> QED BY <1>1 DEF Range

(* The loops, with the plugin that is awaited behind them. *)
Passed == IF awaited = 0 THEN loops ELSE Advanced

(* A loop is in progress just while the application loads; before it,       *)
(* nothing is loaded, and after it everything but what came late.           *)
LoadInv ==
  /\ registered \in 0..MaxPlugins /\ asyncPlugins \subseteq Plugins /\ loaded \in Seq(Plugins)
  /\ awaited \in 0..MaxPlugins /\ loader \in {"idle", "ready", "listen", "bind"}
  /\ appBooted \in BOOLEAN /\ bootFailed \in BOOLEAN
  /\ loops # <<>> <=> loader \in {"ready", "listen"}
  /\ awaited # 0 => loader = "ready" /\ awaited \in asyncPlugins
  /\ ~ bootFailed => Shape(plugins, registered, loaded, Passed, awaited)
  /\ bootFailed => loader = "idle"
  /\ appBooted => /\ ~ bootFailed /\ loader \in {"idle", "bind"}
                  /\ Range(plugins[0]) \subseteq Range(loaded) \cup late
  /\ ~ appBooted => /\ late = {} /\ loader # "bind"
                    /\ ~ bootFailed /\ loader = "idle" => loaded = <<>>
  /\ late \subseteq 1..registered /\ late \cap Range(loaded) = {}

(* The engine's table and the compiled routes are what was first added. *)
TableInv ==
  /\ routes \in Seq(0..MaxPlugins) /\ compiled \in Seq(0..MaxPlugins) /\ table \in Seq(0..MaxPlugins)
  /\ Len(compiled) <= Len(routes) /\ Len(table) <= Len(compiled)
  /\ \A i \in DOMAIN compiled : compiled[i] = routes[i]
  /\ \A i \in DOMAIN table : table[i] = routes[i]

BootInv == LoadInv /\ TableInv

LEMMA RoutesGrow ==
  ASSUME TableInv, NEW p \in 0..MaxPlugins, routes' = Append(routes, p),
         compiled' = compiled, table' = table
  PROVE  TableInv'
<1>1. /\ routes \in Seq(0..MaxPlugins) /\ compiled \in Seq(0..MaxPlugins) /\ table \in Seq(0..MaxPlugins)
      /\ Len(compiled) <= Len(routes) /\ Len(table) <= Len(compiled)
      /\ \A i \in DOMAIN compiled : compiled[i] = routes[i]
      /\ \A i \in DOMAIN table : table[i] = routes[i]
  BY DEF TableInv
<1>2. /\ routes' \in Seq(0..MaxPlugins) /\ Len(routes') = Len(routes) + 1
      /\ \A i \in 1..Len(routes) : routes'[i] = routes[i]
  BY <1>1
<1>3. DOMAIN compiled \subseteq 1..Len(routes) /\ DOMAIN table \subseteq 1..Len(routes) BY <1>1
<1> QED BY <1>1, <1>2, <1>3 DEF TableInv

LEMMA TableUnchanged ==
  TableInv /\ UNCHANGED <<routes, compiled, table>> => TableInv'
BY DEF TableInv

LEMMA LoadUnchanged ==
  LoadInv /\ UNCHANGED <<asyncPlugins, plugins, registered, late, loader, loops, awaited, loaded,
                         appBooted, bootFailed>> => LoadInv'
BY DEF LoadInv, Passed, Advanced, Plugins

LEMMA BootStarts == Init => BootInv
<1> SUFFICES ASSUME Init PROVE BootInv
  OBVIOUS
<1>0. MaxPlugins \in Nat BY BootAssumption
<1>1. BootInit BY DEF Init
<1>2. TableInv BY <1>1 DEF BootInit, TableInv
<1>3. /\ asyncPlugins \subseteq Plugins /\ plugins = [s \in 0..MaxPlugins |-> <<>>] /\ registered = 0
      /\ late = {} /\ loader = "idle" /\ loops = <<>> /\ awaited = 0 /\ loaded = <<>>
      /\ appBooted = FALSE /\ bootFailed = FALSE
  BY <1>1 DEF BootInit
<1>4. Shape(plugins, 0, <<>>, <<>>, 0)
  <2>1. \A s \in 0..MaxPlugins : plugins[s] = <<>> /\ DOMAIN plugins[s] = {} BY <1>3
  <2>2. plugins \in [0..MaxPlugins -> Seq(1..0)] BY <1>3
  <2>3. Tree(plugins, 0) BY <2>1, <2>2 DEF Tree
  <2>4. DepthFirst(plugins, <<>>) /\ ParentsFirst(plugins, <<>>) BY DEF DepthFirst, ParentsFirst
  <2>5. Stack(plugins, <<>>, <<>>) BY DEF Stack, Scopes
  <2>6. Range(<<>>) = {} BY DEF Range
  <2> QED BY <2>1, <2>3, <2>4, <2>5, <2>6 DEF Shape
<1>5. LoadInv
  <2>1. Range(<<>>) = {} BY DEF Range
  <2>2. Passed = <<>> BY <1>3 DEF Passed
  <2>3. plugins[0] = <<>> BY <1>0, <1>3
  <2>4. /\ registered \in 0..MaxPlugins /\ loaded \in Seq(Plugins) /\ awaited \in 0..MaxPlugins
        /\ loops = <<>> /\ loader = "idle" /\ appBooted = FALSE /\ bootFailed = FALSE
        /\ asyncPlugins \subseteq Plugins /\ late = {} /\ loaded = <<>> /\ awaited = 0
    BY <1>0, <1>3
  <2>5. appBooted \in BOOLEAN /\ bootFailed \in BOOLEAN BY <2>4
  <2>6. Shape(plugins, registered, loaded, Passed, awaited) BY <1>3, <1>4, <2>2
  <2>7. late \subseteq 1..registered /\ late \cap Range(loaded) = {} BY <2>4
  <2> QED BY <2>4, <2>5, <2>6, <2>7 DEF LoadInv
<1> QED BY <1>2, <1>5 DEF BootInv

LEMMA BootKept == BootInv /\ [BootStep]_bootVars => BootInv'
<1> SUFFICES ASSUME BootInv, [BootStep]_bootVars PROVE BootInv'
  OBVIOUS
<1>0. MaxPlugins \in Nat BY BootAssumption
<1>a. LoadInv /\ TableInv BY DEF BootInv
<1>b. /\ registered \in 0..MaxPlugins /\ asyncPlugins \subseteq Plugins /\ loaded \in Seq(Plugins)
      /\ awaited \in 0..MaxPlugins /\ loader \in {"idle", "ready", "listen", "bind"}
      /\ appBooted \in BOOLEAN /\ bootFailed \in BOOLEAN
      /\ loops # <<>> <=> loader \in {"ready", "listen"}
      /\ awaited # 0 => loader = "ready" /\ awaited \in asyncPlugins
      /\ ~ bootFailed => Shape(plugins, registered, loaded, Passed, awaited)
      /\ bootFailed => loader = "idle"
      /\ appBooted => /\ ~ bootFailed /\ loader \in {"idle", "bind"}
                      /\ Range(plugins[0]) \subseteq Range(loaded) \cup late
      /\ ~ appBooted => /\ late = {} /\ loader # "bind"
                        /\ ~ bootFailed /\ loader = "idle" => loaded = <<>>
      /\ late \subseteq 1..registered /\ late \cap Range(loaded) = {}
  BY <1>a DEF LoadInv
<1>1. CASE RegisterPlugin
  <2>1. /\ loader = "idle" /\ registered + 1 <= MaxPlugins /\ registered' = registered + 1
        /\ plugins' = Grow(plugins, 0, registered, 1)
        /\ late' = (IF appBooted THEN late \cup {registered + 1} ELSE late)
        /\ UNCHANGED <<asyncPlugins, routes, loader, loops, awaited, loaded, appBooted, bootFailed,
                       compiled, table, appListening>>
    BY <1>1 DEF RegisterPlugin, Registers, Grow, Loading, Serving
  <2>2. TableInv' BY <1>a, <2>1, TableUnchanged
  <2>3. awaited = 0 /\ loops = <<>> /\ Passed = <<>> /\ Passed' = <<>> BY <1>b, <2>1 DEF Passed
  <2>4. ~ bootFailed => /\ Shape(plugins', registered', loaded, <<>>, 0)
                        /\ Range(plugins'[0]) = Range(plugins[0]) \cup {registered + 1}
    BY <1>b, <2>1, <2>3, RegisteredAtRoot
  <2>5. registered + 1 \notin Range(loaded) \/ bootFailed
    <3>1. ~ bootFailed => loaded \in Seq(1..registered) BY <1>b DEF Shape
    <3>2. registered + 1 \notin 1..registered BY <1>b
    <3> QED BY <3>1, <3>2, RangeOfSequence
  <2>6. registered' \in 0..MaxPlugins BY <1>0, <1>b, <2>1
  <2>7. late' \subseteq 1..registered'
    <3>1. 1..registered \subseteq 1..(registered + 1) /\ registered + 1 \in 1..(registered + 1) BY <1>b
    <3> QED BY <3>1, <1>b, <2>1
  <2>8. late' \cap Range(loaded) = {} BY <1>b, <2>1, <2>5
  <2>9. appBooted => Range(plugins'[0]) \subseteq Range(loaded) \cup late' BY <1>b, <2>1, <2>4
  <2>10. LoadInv' BY <1>b, <2>1, <2>3, <2>4, <2>6, <2>7, <2>8, <2>9 DEF LoadInv, Plugins
  <2> QED BY <2>2, <2>10 DEF BootInv
<1>2. CASE AddRoute
  <2>1. /\ routes' = Append(routes, 0) /\ compiled' = compiled /\ table' = table
        /\ UNCHANGED <<asyncPlugins, plugins, registered, late, loader, loops, awaited, loaded,
                         appBooted, bootFailed>>
    BY <1>2 DEF AddRoute, Loading, Serving
  <2>2. 0 \in 0..MaxPlugins BY <1>0
  <2> QED BY <1>a, <2>1, <2>2, RoutesGrow, LoadUnchanged DEF BootInv
<1>3. CASE Ready \/ Listen
  <2>1. /\ loader = "idle" /\ ~ bootFailed /\ TableInv'
        /\ UNCHANGED <<asyncPlugins, plugins, registered, late, awaited, loaded, appBooted, bootFailed>>
    BY <1>3, <1>a, TableUnchanged DEF Ready, Listen, Serving
  <2>2. awaited = 0 /\ loops = <<>> /\ Passed = <<>> BY <1>b, <2>1 DEF Passed
  <2>3. CASE appBooted
    <3>1. loader' = "bind" /\ loops' = loops BY <1>3, <2>3 DEF Ready, Listen
    <3>2. Passed' = <<>> BY <2>1, <2>2, <3>1 DEF Passed
    <3>3. LoadInv' BY <1>b, <2>1, <2>2, <2>3, <3>1, <3>2 DEF LoadInv, Plugins
    <3> QED BY <2>1, <3>3 DEF BootInv
  <2>4. CASE ~ appBooted
    <3>1. loader' \in {"ready", "listen"} /\ loops' = <<[scope |-> 0, next |-> 1]>>
      BY <1>3, <2>4 DEF Ready, Listen, BeginLoad
    <3>2. Passed' = <<[scope |-> 0, next |-> 1]>> BY <2>1, <2>2, <3>1 DEF Passed
    <3>3. loaded = <<>> BY <1>b, <2>1, <2>4
    <3>4. Shape(plugins, registered, <<>>, <<[scope |-> 0, next |-> 1]>>, 0)
      BY <1>b, <2>1, <2>2, <3>3, LoopBegins
    <3>5. loops' # <<>> BY <3>1
    <3>6. LoadInv' BY <1>b, <2>1, <2>2, <2>4, <3>1, <3>2, <3>3, <3>4, <3>5 DEF LoadInv, Plugins
    <3> QED BY <2>1, <3>6 DEF BootInv
  <2> QED BY <2>3, <2>4
<1>4. CASE LoadNext
  <2> DEFINE p == plugins[Inner.scope][Inner.next]
  <2>1. /\ loops # <<>> /\ awaited = 0 /\ Inner.next <= Len(plugins[Inner.scope])
        /\ loaded' = Append(loaded, p)
        /\ UNCHANGED <<asyncPlugins, late, appBooted, compiled, table, appListening>>
    BY <1>4 DEF LoadNext, Serving
  <2>2. \/ /\ p \notin asyncPlugins /\ PluginActs(p) /\ Descend(p)
           /\ UNCHANGED <<loader, awaited, bootFailed>>
        \/ /\ p \in asyncPlugins /\ loader = "ready" /\ awaited' = p
           /\ UNCHANGED <<loader, loops, bootFailed, plugins, registered, routes>>
        \/ /\ p \in asyncPlugins /\ loader = "listen" /\ LoadFails
           /\ UNCHANGED <<plugins, registered, routes>>
    BY <1>4 DEF LoadNext
  <2>3. loader \in {"ready", "listen"} /\ ~ bootFailed /\ ~ appBooted /\ late = {} BY <1>b, <2>1
  <2>4. Passed = loops /\ Shape(plugins, registered, loaded, loops, 0) BY <1>b, <2>1, <2>3 DEF Passed
  <2>5. Inner = loops[Len(loops)] BY DEF Inner, Last
  <2>6. Advanced = [loops EXCEPT ![Len(loops)].next = @ + 1] BY DEF Advanced
  <2>7. Shape(plugins, registered, loaded', Advanced, p)
    BY <1>b, <2>1, <2>4, <2>5, <2>6, LoadedNext
  <2>8. p \in 1..registered
    <3>1. loops \in Seq(LoopStates) BY <2>4 DEF Shape, Stack
    <3>2. Inner \in LoopStates BY <2>1, <2>5, <3>1
    <3>3. Inner.scope \in 0..MaxPlugins /\ Inner.next \in Nat \ {0} BY <3>2 DEF LoopStates
    <3>4. plugins[Inner.scope] \in Seq(1..registered) BY <2>4, <3>3 DEF Shape, Tree
    <3>5. Inner.next \in DOMAIN plugins[Inner.scope] BY <2>1, <3>3, <3>4
    <3> QED BY <3>4, <3>5, InSequence
  <2> HIDE DEF p
  <2>9. p \in Plugins /\ p # 0 /\ p \in 0..MaxPlugins BY <1>0, <1>b, <2>8 DEF Plugins
  <2>10. loaded' \in Seq(Plugins) BY <1>b, <2>1, <2>9
  <2>11. CASE p \notin asyncPlugins /\ PluginActs(p) /\ Descend(p) /\ UNCHANGED <<loader, awaited, bootFailed>>
    <3>1. PICK n \in 0..2 : Registers(p, n) BY <2>11 DEF PluginActs
    <3>2. /\ registered + n <= MaxPlugins /\ registered' = registered + n
          /\ plugins' = Grow(plugins, p, registered, n) /\ n \in Nat
      BY <3>1 DEF Registers, Grow
    <3>3. loops' = Append(Advanced, [scope |-> p, next |-> 1]) BY <2>11 DEF Descend
    <3>4. Shape(plugins', registered', loaded', loops', 0)
      BY <1>b, <2>7, <2>9, <3>2, <3>3, Descended
    <3>5. loops' # <<>> BY <3>3
    <3>6. Passed' = loops' BY <2>1, <2>11 DEF Passed
    <3>7. registered' \in 0..MaxPlugins BY <1>b, <3>2
    <3>8. LoadInv' BY <1>b, <2>1, <2>3, <2>10, <2>11, <3>4, <3>5, <3>6, <3>7 DEF LoadInv, Plugins
    <3>9. TableInv' BY <1>a, <2>1, <2>9, <2>11, RoutesGrow DEF PluginActs
    <3> QED BY <3>8, <3>9 DEF BootInv
  <2>12. CASE p \in asyncPlugins /\ loader = "ready" /\ awaited' = p
               /\ UNCHANGED <<loader, loops, bootFailed, plugins, registered, routes>>
    <3>1. Passed' = Advanced
      <4>1. Advanced' = Advanced BY <2>12 DEF Advanced, Inner
      <4> QED BY <2>9, <2>12, <4>1 DEF Passed
    <3>2. LoadInv' BY <1>b, <2>1, <2>3, <2>7, <2>9, <2>10, <2>12, <3>1 DEF LoadInv, Plugins
    <3>3. TableInv' BY <1>a, <2>1, <2>12, TableUnchanged
    <3> QED BY <3>2, <3>3 DEF BootInv
  <2>13. CASE p \in asyncPlugins /\ loader = "listen" /\ LoadFails
               /\ UNCHANGED <<plugins, registered, routes>>
    <3>1. loader' = "idle" /\ loops' = <<>> /\ awaited' = 0 /\ bootFailed' = TRUE BY <2>13 DEF LoadFails
    <3>2. LoadInv' BY <1>0, <1>b, <2>1, <2>3, <2>10, <2>13, <3>1 DEF LoadInv, Plugins
    <3>3. TableInv' BY <1>a, <2>1, <2>13, TableUnchanged
    <3> QED BY <3>2, <3>3 DEF BootInv
  <2> QED BY <2>2, <2>11, <2>12, <2>13
<1>5. CASE PluginSettles
  <2>1. /\ awaited # 0
        /\ UNCHANGED <<asyncPlugins, late, loaded, appBooted, compiled, table, appListening>>
    BY <1>5 DEF PluginSettles, Serving
  <2>2. \/ PluginActs(awaited) /\ Descend(awaited) /\ awaited' = 0 /\ UNCHANGED <<loader, bootFailed>>
        \/ LoadFails /\ UNCHANGED <<plugins, registered, routes>>
    BY <1>5 DEF PluginSettles
  <2>3. loader = "ready" /\ ~ bootFailed /\ ~ appBooted /\ late = {} BY <1>b, <2>1
  <2>4. Passed = Advanced /\ Shape(plugins, registered, loaded, Advanced, awaited)
    BY <1>b, <2>1, <2>3 DEF Passed
  <2>5. CASE PluginActs(awaited) /\ Descend(awaited) /\ awaited' = 0 /\ UNCHANGED <<loader, bootFailed>>
    <3>1. PICK n \in 0..2 : Registers(awaited, n) BY <2>5 DEF PluginActs
    <3>2. /\ registered + n <= MaxPlugins /\ registered' = registered + n
          /\ plugins' = Grow(plugins, awaited, registered, n) /\ n \in Nat
      BY <3>1 DEF Registers, Grow
    <3>3. loops' = Append(Advanced, [scope |-> awaited, next |-> 1]) BY <2>5 DEF Descend
    <3>4. Shape(plugins', registered', loaded', loops', 0)
      BY <1>b, <2>1, <2>4, <3>2, <3>3, Descended
    <3>5. loops' # <<>> BY <3>3
    <3>6. Passed' = loops' BY <2>5 DEF Passed
    <3>7. registered' \in 0..MaxPlugins BY <1>b, <3>2
    <3>8. LoadInv' BY <1>0, <1>b, <2>1, <2>3, <2>5, <3>4, <3>5, <3>6, <3>7 DEF LoadInv, Plugins
    <3>9. TableInv' BY <1>a, <1>b, <2>1, <2>5, RoutesGrow DEF PluginActs
    <3> QED BY <3>8, <3>9 DEF BootInv
  <2>6. CASE LoadFails /\ UNCHANGED <<plugins, registered, routes>>
    <3>1. loader' = "idle" /\ loops' = <<>> /\ awaited' = 0 /\ bootFailed' = TRUE BY <2>6 DEF LoadFails
    <3>2. LoadInv' BY <1>0, <1>b, <2>1, <2>3, <2>6, <3>1 DEF LoadInv, Plugins
    <3>3. TableInv' BY <1>a, <2>1, <2>6, TableUnchanged
    <3> QED BY <3>2, <3>3 DEF BootInv
  <2> QED BY <2>2, <2>5, <2>6
<1>6. CASE LoopEnds
  <2>1. /\ loops # <<>> /\ awaited = 0 /\ Inner.next > Len(plugins[Inner.scope]) /\ loops' = Front(loops)
        /\ UNCHANGED <<asyncPlugins, plugins, registered, late, awaited, loaded, bootFailed, routes,
                       compiled, table, appListening>>
    BY <1>6 DEF LoopEnds, Serving
  <2>2. loader \in {"ready", "listen"} /\ ~ bootFailed /\ ~ appBooted /\ late = {} BY <1>b, <2>1
  <2>3. Passed = loops /\ Shape(plugins, registered, loaded, loops, 0) /\ Passed' = loops'
    BY <1>b, <2>1, <2>2 DEF Passed
  <2>4. Inner = loops[Len(loops)] BY DEF Inner, Last
  <2>5. /\ Shape(plugins, registered, loaded, loops', 0)
        /\ Len(loops) = 1 => Range(plugins[0]) \subseteq Range(loaded) /\ loops' = <<>>
        /\ Len(loops) > 1 => loops' # <<>>
    BY <1>b, <2>1, <2>3, <2>4, LoopOver
  <2>6. TableInv' BY <1>a, <2>1, TableUnchanged
  <2>7. CASE Len(loops) > 1
    <3>1. loader' = loader /\ appBooted' = appBooted BY <1>6, <2>7 DEF LoopEnds
    <3>2. LoadInv' BY <1>b, <2>1, <2>2, <2>3, <2>5, <2>7, <3>1 DEF LoadInv, Plugins
    <3> QED BY <2>6, <3>2 DEF BootInv
  <2>8. CASE ~ Len(loops) > 1
    <3>1. appBooted' = TRUE /\ loader' \in {"bind", "idle"} BY <1>6, <2>8 DEF LoopEnds
    <3>2. Len(loops) = 1
      <4>1. loops \in Seq(LoopStates) BY <2>3 DEF Shape, Stack
      <4> DEFINE depth == Len(loops)
      <4>2. depth \in Nat /\ depth # 0 BY <2>1, <4>1
      <4>3. ~ depth > 1 BY <2>8
      <4> HIDE DEF depth
      <4>4. depth = 1 BY <4>2, <4>3
      <4> QED BY <4>4 DEF depth
    <3>3. LoadInv' BY <1>b, <2>1, <2>2, <2>3, <2>5, <3>1, <3>2 DEF LoadInv, Plugins
    <3> QED BY <2>6, <3>3 DEF BootInv
  <2> QED BY <2>7, <2>8
<1>7. CASE Bind
  <2>1. /\ loader = "bind" /\ loader' = "idle" /\ compiled' = routes /\ routes' = routes
        /\ table' = routes \/ table' = table
        /\ UNCHANGED <<asyncPlugins, plugins, registered, late, loops, awaited, loaded, appBooted,
                       bootFailed>>
    BY <1>7 DEF Bind, CompileAll
  <2>2. TableInv' BY <1>a, <2>1 DEF TableInv
  <2>3. appBooted /\ awaited = 0 /\ loops = <<>> /\ Passed' = Passed BY <1>b, <2>1 DEF Passed
  <2>4. LoadInv' BY <1>b, <2>1, <2>3 DEF LoadInv, Plugins
  <2> QED BY <2>2, <2>4 DEF BootInv
<1>8. CASE CloseApp
  <2>1. /\ table' = <<>> /\ UNCHANGED <<routes, compiled>>
        /\ UNCHANGED <<asyncPlugins, plugins, registered, late, loader, loops, awaited, loaded,
                       appBooted, bootFailed>>
    BY <1>8 DEF CloseApp, Loading
  <2>2. TableInv' BY <1>a, <2>1 DEF TableInv
  <2> QED BY <1>a, <2>1, <2>2, LoadUnchanged DEF BootInv
<1>9. CASE UNCHANGED bootVars
  <2>1. UNCHANGED <<asyncPlugins, plugins, registered, late, loader, loops, awaited, loaded,
                    appBooted, bootFailed>> /\ UNCHANGED <<routes, compiled, table>>
    BY <1>9 DEF bootVars
  <2> QED BY <1>a, <2>1, TableUnchanged, LoadUnchanged DEF BootInv
<1> QED BY <1>1, <1>2, <1>3, <1>4, <1>5, <1>6, <1>7, <1>8, <1>9 DEF BootStep

LEMMA BootAnswers == BootInv => BootCorrect
<1> SUFFICES ASSUME BootInv PROVE BootCorrect
  OBVIOUS
<1>0. MaxPlugins \in Nat BY BootAssumption
<1>a. LoadInv /\ TableInv BY DEF BootInv
<1>1. BootTypeOK
  <2>1. Range(loaded) \subseteq Plugins
    <3>1. loaded \in Seq(Plugins) BY <1>a DEF LoadInv
    <3> QED BY <3>1, RangeOfSequence
  <2>2. Range(routes) \cup Range(compiled) \cup Range(table) \subseteq 0..MaxPlugins
    <3>1. /\ routes \in Seq(0..MaxPlugins) /\ compiled \in Seq(0..MaxPlugins)
          /\ table \in Seq(0..MaxPlugins)
      BY <1>a DEF TableInv
    <3>2. /\ Range(routes) \subseteq 0..MaxPlugins /\ Range(compiled) \subseteq 0..MaxPlugins
          /\ Range(table) \subseteq 0..MaxPlugins
      BY <3>1, RangeOfSequence
    <3> QED BY <3>2
  <2> QED BY <1>a, <2>1, <2>2 DEF BootTypeOK, LoadInv
<1>2. RouteIndexStable BY <1>a DEF RouteIndexStable, TableInv
<1>3. LoadedInOrder
  <2> SUFFICES ASSUME appBooted, ~ bootFailed
               PROVE  /\ IsInjective(loaded) /\ Range(loaded) = (1..registered) \ late
                      /\ \A s \in 0..MaxPlugins : \A i, j \in DOMAIN plugins[s] : i < j =>
                           \A p \in Within(plugins[s][i]) : \A q \in Within(plugins[s][j]) :
                             {p, q} \subseteq Range(loaded) => Place(p) < Place(q)
                      /\ \A p \in Range(loaded) : ScopeOf(p) = 0 \/ Place(ScopeOf(p)) < Place(p)
    BY DEF LoadedInOrder
  <2>1. /\ loader \in {"idle", "bind"} /\ Range(plugins[0]) \subseteq Range(loaded) \cup late
        /\ loops = <<>> /\ awaited = 0 /\ Passed = <<>> /\ Shape(plugins, registered, loaded, <<>>, 0)
        /\ registered \in 0..MaxPlugins
        /\ late \cap Range(loaded) = {}
    BY <1>a DEF LoadInv, Passed
  <2>2. /\ Tree(plugins, registered) /\ loaded \in Seq(1..registered)
        /\ \A a, b \in DOMAIN loaded : loaded[a] = loaded[b] => a = b
        /\ \A s \in 0..MaxPlugins : plugins[s] # <<>> => s = 0 \/ s \in Range(loaded)
        /\ \A s \in Range(loaded) : s = 0 \/ s \in Scopes(<<>>) \/ Range(plugins[s]) \subseteq Range(loaded)
        /\ DepthFirst(plugins, loaded) /\ ParentsFirst(plugins, loaded)
    BY <2>1 DEF Shape
  <2>3. Range(loaded) \subseteq 1..registered BY <2>2, RangeOfSequence
  <2>4. \A p \in 1..registered : \E s \in 0..MaxPlugins : p \in Range(plugins[s]) BY <2>2 DEF Tree
  <2>5. Scopes(<<>>) = {} BY DEF Scopes
  <2>6. ASSUME NEW p \in 1..registered, p \notin late PROVE p \in Range(loaded)
    <3>1. PICK s \in 0..MaxPlugins : p \in Range(plugins[s]) BY <2>4
    <3>2. CASE s = 0 BY <2>1, <2>6, <3>1, <3>2
    <3>3. CASE s # 0
      <4>1. plugins[s] # <<>> BY <3>1 DEF Range
      <4>2. s \in Range(loaded) BY <2>2, <3>3, <4>1
      <4> QED BY <2>2, <2>5, <3>1, <3>3, <4>2
    <3> QED BY <3>2, <3>3
  <2>7. Range(loaded) = (1..registered) \ late BY <2>1, <2>3, <2>6
  <2>8. ASSUME NEW p \in Range(loaded) PROVE Place(p) \in DOMAIN loaded /\ loaded[Place(p)] = p
    <3>1. \E i \in DOMAIN loaded : loaded[i] = p BY DEF Range
    <3> QED BY <3>1 DEF Place
  <2>9. \A p : Within(p) = Subtree(plugins, p) BY DEF Within, Subtree, WithTheirs
  <2>10. ASSUME NEW s \in 0..MaxPlugins, NEW i \in DOMAIN plugins[s], NEW j \in DOMAIN plugins[s], i < j,
                NEW p \in Within(plugins[s][i]), NEW q \in Within(plugins[s][j]),
                {p, q} \subseteq Range(loaded)
         PROVE  Place(p) < Place(q)
    <3>1. p \in Subtree(plugins, plugins[s][i]) /\ q \in Subtree(plugins, plugins[s][j]) BY <2>9
    <3>2. /\ Place(p) \in DOMAIN loaded /\ loaded[Place(p)] = p
          /\ Place(q) \in DOMAIN loaded /\ loaded[Place(q)] = q
      BY <2>8, <2>10
    <3> QED BY <2>2, <2>10, <3>1, <3>2 DEF DepthFirst
  <2>11. ASSUME NEW p \in Range(loaded), ScopeOf(p) # 0 PROVE Place(ScopeOf(p)) < Place(p)
    <3> DEFINE s == ScopeOf(p)
    <3>1. s \in 0..MaxPlugins /\ p \in Range(plugins[s]) BY <2>3, <2>4 DEF ScopeOf
    <3> HIDE DEF s
    <3>2. s \in 1..MaxPlugins BY <1>0, <2>11, <3>1 DEF s
    <3>3. Place(p) \in DOMAIN loaded /\ loaded[Place(p)] = p BY <2>8
    <3>4. PICK a \in DOMAIN loaded : a < Place(p) /\ loaded[a] = s
      BY <2>2, <3>1, <3>2, <3>3 DEF ParentsFirst
    <3>5. s \in Range(loaded) BY <3>4 DEF Range
    <3>6. Place(s) = a BY <2>2, <2>8, <3>4, <3>5
    <3> QED BY <3>4, <3>6 DEF s
  <2> QED BY <2>2, <2>7, <2>10, <2>11 DEF IsInjective
<1> QED BY <1>1, <1>2, <1>3 DEF BootCorrect

(* However many plugins, of whatever depth and kind, and with registrations, *)
(* failed loads and listen() in any order: each plugin is loaded once and    *)
(* after its parent, its whole subtree before its next sibling, and the      *)
(* engine's index leads to the handler of that route (loadPlugins, listen).  *)
(* Whatever the table: Allow names methods that would be found, an exact     *)
(* route is reached past any dynamic one, and a catch-all of another method  *)
(* changes nothing (resolve).                                                *)
THEOREM RoutesTheorem == Spec => []RoutesCorrect
<1>1. BootInv /\ [Next]_mcVars => BootInv' BY EachPart, BootKept
<1>2. RouterInv /\ [Next]_mcVars => RouterInv' BY EachPart, RouterKept
<1>3. BootInv /\ RouterInv => RoutesCorrect BY BootAnswers, RouterAnswers DEF RoutesCorrect
<1> QED BY <1>1, <1>2, <1>3, BootStarts, RouterStarts, PTL DEF Spec

-----------------------------------------------------------------------------
(* A request's way through its hooks: the plan that #compile makes of them,  *)
(* and how far along it the request is.                                      *)

Steps == [phase : HookPhases \cup {"handler"}, at : 1..3]

(* A chain runs the set S in the documented order. *)
Runs(s, S) ==
  /\ s \in Seq(Steps) /\ Range(s) = S
  /\ \A i, j \in DOMAIN s : i < j => Precedes(s[i], s[j])

LEMMA Joined ==
  ASSUME NEW s, NEW t, NEW S, NEW T, Runs(s, S), Runs(t, T),
         \A g \in S, h \in T : Precedes(g, h)
  PROVE  Runs(s \o t, S \cup T)
<1>1. /\ s \in Seq(Steps) /\ Range(s) = S /\ t \in Seq(Steps) /\ Range(t) = T
      /\ \A i, j \in DOMAIN s : i < j => Precedes(s[i], s[j])
      /\ \A i, j \in DOMAIN t : i < j => Precedes(t[i], t[j])
  BY DEF Runs
<1> DEFINE u == s \o t
<1>2. /\ u \in Seq(Steps) /\ Len(u) = Len(s) + Len(t) /\ DOMAIN u = 1..(Len(s) + Len(t))
      /\ Len(s) \in Nat /\ Len(t) \in Nat /\ DOMAIN s = 1..Len(s) /\ DOMAIN t = 1..Len(t)
  BY <1>1
<1>3. \A i \in 1..Len(s) : u[i] = s[i] BY <1>1
<1>4. \A i \in 1..Len(t) : u[Len(s) + i] = t[i] BY <1>1
<1>5. \A i \in DOMAIN u : i \in 1..Len(s) \/ (i - Len(s) \in 1..Len(t) /\ i = Len(s) + (i - Len(s)))
  BY <1>2
<1> HIDE DEF u
<1>6. Range(u) = S \cup T
  <2>1. ASSUME NEW i \in DOMAIN u PROVE u[i] \in S \cup T
    <3>1. CASE i \in 1..Len(s) BY <3>1, <1>1, <1>2, <1>3 DEF Range
    <3>2. CASE i - Len(s) \in 1..Len(t) /\ i = Len(s) + (i - Len(s))
      <4>1. u[i] = t[i - Len(s)] BY <3>2, <1>4
      <4> QED BY <3>2, <4>1, <1>1, <1>2 DEF Range
    <3> QED BY <1>5, <3>1, <3>2
  <2>2. ASSUME NEW g \in S PROVE g \in Range(u)
    <3>1. PICK i \in DOMAIN s : s[i] = g BY <1>1 DEF Range
    <3>2. u[i] = g /\ i \in DOMAIN u BY <3>1, <1>2, <1>3
    <3> QED BY <3>2 DEF Range
  <2>3. ASSUME NEW g \in T PROVE g \in Range(u)
    <3>1. PICK i \in DOMAIN t : t[i] = g BY <1>1 DEF Range
    <3>2. u[Len(s) + i] = g /\ Len(s) + i \in DOMAIN u BY <3>1, <1>2, <1>4
    <3> QED BY <3>2 DEF Range
  <2> QED BY <2>1, <2>2, <2>3 DEF Range
<1>7. ASSUME NEW i \in DOMAIN u, NEW j \in DOMAIN u, i < j PROVE Precedes(u[i], u[j])
  <2>0. i \in Nat /\ j \in Nat BY <1>2
  <2>1. CASE i \in 1..Len(s) /\ j \in 1..Len(s)
    <3>1. u[i] = s[i] /\ u[j] = s[j] /\ i \in DOMAIN s /\ j \in DOMAIN s BY <2>1, <1>2, <1>3
    <3> QED BY <3>1, <1>1, <1>7
  <2>2. CASE i \in 1..Len(s) /\ j - Len(s) \in 1..Len(t)
    <3>1. u[i] = s[i] /\ i \in DOMAIN s BY <2>2, <1>2, <1>3
    <3>2. u[j] = t[j - Len(s)] /\ j - Len(s) \in DOMAIN t BY <2>2, <1>2, <1>4, <2>0
    <3>3. u[i] \in S /\ u[j] \in T BY <3>1, <3>2, <1>1 DEF Range
    <3> QED BY <3>3
  <2>3. CASE i - Len(s) \in 1..Len(t) /\ j - Len(s) \in 1..Len(t)
    <3>1. u[i] = t[i - Len(s)] /\ i - Len(s) \in DOMAIN t BY <2>3, <1>2, <1>4, <2>0
    <3>2. u[j] = t[j - Len(s)] /\ j - Len(s) \in DOMAIN t BY <2>3, <1>2, <1>4, <2>0
    <3>3. i - Len(s) < j - Len(s) BY <1>7, <1>2, <2>0
    <3> QED BY <3>1, <3>2, <3>3, <1>1
  <2>4. CASE i - Len(s) \in 1..Len(t) /\ j \in 1..Len(s) BY <2>4, <1>7, <1>2, <2>0
  <2> QED BY <1>5, <2>1, <2>2, <2>3, <2>4
<1> QED BY <1>2, <1>6, <1>7 DEF Runs, u

(* Where a phase is in the documented order. *)
LEMMA Ranks ==
  ASSUME NEW h
  PROVE  \A i \in 1..11 : h.phase = Phases[i] => Rank(h) = i
<1>1. DOMAIN Phases = 1..11 BY DEF Phases
<1>2. \A i, j \in 1..11 : Phases[i] = Phases[j] => i = j BY DEF Phases
<1> QED BY <1>1, <1>2 DEF Rank

LEMMA InOrder ==
  ASSUME NEW g, NEW h, NEW i \in 1..11, NEW j \in 1..11, g.phase = Phases[i], h.phase = Phases[j],
         i < j \/ (i = j /\ g.at < h.at)
  PROVE  Precedes(g, h)
<1>1. Rank(g) = i /\ Rank(h) = j BY Ranks
<1> QED BY <1>1 DEF Precedes

LEMMA Single ==
  ASSUME NEW h \in Steps
  PROVE  Runs(<<h>>, {h})
<1>1. <<h>> \in Seq(Steps) /\ DOMAIN <<h>> = {1} /\ <<h>>[1] = h OBVIOUS
<1> QED BY <1>1 DEF Runs, Range

LEMMA NoHooks == Runs(<<>>, {})
<1>1. <<>> \in Seq(Steps) /\ DOMAIN <<>> = {} OBVIOUS
<1> QED BY <1>1 DEF Runs, Range

(* The hooks of one phase. *)
InPhase(f) == {h \in hooks : h.phase = f}

LEMMA OfRuns ==
  ASSUME hooks \subseteq Steps, NEW k \in 1..11, Phases[k] \in HookPhases
  PROVE  Runs(Of(Phases[k]), InPhase(Phases[k]))
<1> DEFINE f == Phases[k]
           one(p) == IF Hook(f, p) \in hooks THEN {Hook(f, p)} ELSE {}
<1>1. ASSUME NEW p \in 1..3 PROVE Runs(Registered(f, p), one(p))
  <2>1. Hook(f, p) \in Steps BY DEF Hook, Steps
  <2>2. CASE Hook(f, p) \in hooks BY <2>1, <2>2, Single DEF Registered
  <2>3. CASE Hook(f, p) \notin hooks BY <2>3, NoHooks DEF Registered
  <2> QED BY <2>2, <2>3
<1>2. ASSUME NEW p \in 1..3, NEW q \in 1..3, p < q, NEW g \in one(p), NEW h \in one(q)
      PROVE  Precedes(g, h)
  <2>1. g = Hook(f, p) /\ h = Hook(f, q) OBVIOUS
  <2>2. g.phase = f /\ h.phase = f /\ g.at = p /\ h.at = q BY <2>1 DEF Hook
  <2> QED BY <2>2, <1>2, InOrder
<1>3. Runs(Registered(f, 1) \o Registered(f, 2), one(1) \cup one(2))
  <2>1. \A g \in one(1), h \in one(2) : Precedes(g, h) BY <1>2
  <2>2. Runs(Registered(f, 1), one(1)) /\ Runs(Registered(f, 2), one(2)) BY <1>1
  <2> HIDE DEF one, f
  <2> QED BY <2>1, <2>2, Joined
<1>4. Runs((Registered(f, 1) \o Registered(f, 2)) \o Registered(f, 3), (one(1) \cup one(2)) \cup one(3))
  <2>1. \A g \in one(1) \cup one(2), h \in one(3) : Precedes(g, h) BY <1>2
  <2>2. Runs(Registered(f, 3), one(3)) BY <1>1
  <2> HIDE DEF one, f
  <2> QED BY <1>3, <2>1, <2>2, Joined
<1>5. (one(1) \cup one(2)) \cup one(3) = InPhase(f)
  <2>1. \A h \in Steps : h.phase = f => h.at \in {1, 2, 3} /\ h = Hook(f, h.at)
    BY DEF Steps, Hook
  <2>2. \A p \in 1..3 : Hook(f, p).phase = f BY DEF Hook
  <2> QED BY <2>1, <2>2 DEF InPhase
<1> QED BY <1>4, <1>5 DEF Of, Root, Leaf, Route

InPhases(F) == {h \in hooks : h.phase \in F}

(* One more phase behind those before it. *)
LEMMA PhaseBehind ==
  ASSUME hooks \subseteq Steps, NEW F, NEW s, Runs(s, InPhases(F)),
         NEW k \in 1..11, Phases[k] \in HookPhases,
         \A f \in F : \E i \in 1..11 : i < k /\ f = Phases[i]
  PROVE  Runs(s \o Of(Phases[k]), InPhases(F \cup {Phases[k]}))
<1>1. ASSUME NEW g \in InPhases(F), NEW h \in InPhase(Phases[k]) PROVE Precedes(g, h)
  <2>1. g.phase \in F /\ h.phase = Phases[k] BY DEF InPhases, InPhase
  <2>2. PICK i \in 1..11 : i < k /\ g.phase = Phases[i] BY <2>1
  <2> QED BY <2>1, <2>2, InOrder
<1>2. Runs(s \o Of(Phases[k]), InPhases(F) \cup InPhase(Phases[k])) BY <1>1, OfRuns, Joined
<1>3. InPhases(F) \cup InPhase(Phases[k]) = InPhases(F \cup {Phases[k]}) BY DEF InPhases, InPhase
<1> QED BY <1>2, <1>3


LEMMA HooksAreSteps == hooks \subseteq AllHooks => hooks \subseteq Steps /\ hooks \subseteq InPhases(HookPhases)
<1> SUFFICES ASSUME hooks \subseteq AllHooks, NEW h \in hooks PROVE h \in Steps /\ h.phase \in HookPhases
  BY DEF InPhases
<1>1. PICK f \in HookPhases : \E p \in Places(f) : h = Hook(f, p) BY DEF AllHooks
<1>2. PICK p \in Places(f) : h = Hook(f, p) BY <1>1
<1>3. p \in 1..3 BY DEF Places, Root, Leaf, Route
<1> QED BY <1>2, <1>3 DEF Steps, Hook

LEMMA PhaseNames ==
  /\ Phases[1] = "onRequest" /\ Phases[2] = "preParsing" /\ Phases[3] = "use" /\ Phases[4] = "group"
  /\ Phases[5] = "preValidation" /\ Phases[6] = "schema" /\ Phases[7] = "preHandler"
  /\ Phases[8] = "handler" /\ Phases[9] = "preSerialization" /\ Phases[10] = "onResponse"
  /\ Phases[11] = "onSend"
BY DEF Phases

LEMMA BeforeRuns == hooks \subseteq Steps => Runs(Before, InPhases(BeforePhases))
<1> SUFFICES ASSUME hooks \subseteq Steps PROVE Runs(Before, InPhases(BeforePhases))
  OBVIOUS
<1> DEFINE F1 == {"onRequest"}
           F2 == F1 \cup {"preParsing"}
           F3 == F2 \cup {"use"}
           F4 == F3 \cup {"group"}
           F5 == F4 \cup {"preValidation"}
           F6 == F5 \cup {"schema"}
           F7 == F6 \cup {"preHandler"}
           s1 == Of("onRequest")
           s2 == s1 \o Of("preParsing")
           s3 == s2 \o Of("use")
           s4 == s3 \o Of("group")
           s5 == s4 \o Of("preValidation")
           s6 == s5 \o Of("schema")
           s7 == s6 \o Of("preHandler")
<1>0. \A k \in 1..7 : Phases[k] \in HookPhases BY PhaseNames DEF HookPhases, BeforePhases
<1>f. /\ \A f \in F1 : \E i \in 1..11 : i < 2 /\ f = Phases[i]
      /\ \A f \in F2 : \E i \in 1..11 : i < 3 /\ f = Phases[i]
      /\ \A f \in F3 : \E i \in 1..11 : i < 4 /\ f = Phases[i]
      /\ \A f \in F4 : \E i \in 1..11 : i < 5 /\ f = Phases[i]
      /\ \A f \in F5 : \E i \in 1..11 : i < 6 /\ f = Phases[i]
      /\ \A f \in F6 : \E i \in 1..11 : i < 7 /\ f = Phases[i]
  <2>1. \A f \in F1 : f = Phases[1] BY PhaseNames
  <2>2. \A f \in F2 : f \in F1 \/ f = Phases[2] BY PhaseNames
  <2>3. \A f \in F3 : f \in F2 \/ f = Phases[3] BY PhaseNames
  <2>4. \A f \in F4 : f \in F3 \/ f = Phases[4] BY PhaseNames
  <2>5. \A f \in F5 : f \in F4 \/ f = Phases[5] BY PhaseNames
  <2>6. \A f \in F6 : f \in F5 \/ f = Phases[6] BY PhaseNames
  <2> HIDE DEF F1, F2, F3, F4, F5, F6
  <2> QED BY <2>1, <2>2, <2>3, <2>4, <2>5, <2>6
<1>1. Runs(s1, InPhases(F1))
  <2>1. Runs(Of(Phases[1]), InPhase(Phases[1])) BY <1>0, OfRuns
  <2>2. InPhase("onRequest") = InPhases(F1) BY DEF InPhase, InPhases
  <2> QED BY <2>1, <2>2, PhaseNames
<1>2. Runs(s2, InPhases(F2))
  <2> HIDE DEF F1, s1
  <2>1. Phases[2] \in HookPhases /\ 2 \in 1..11 BY <1>0
  <2>2. \A f \in F1 : \E i \in 1..11 : i < 2 /\ f = Phases[i] BY <1>f
  <2>3. Runs(s1 \o Of(Phases[2]), InPhases(F1 \cup {Phases[2]}))
    BY <2>1, <2>2, <1>1, PhaseBehind
  <2> QED BY <2>3, PhaseNames
<1>3. Runs(s3, InPhases(F3))
  <2> HIDE DEF F2, s2
  <2>1. Phases[3] \in HookPhases /\ 3 \in 1..11 BY <1>0
  <2>2. \A f \in F2 : \E i \in 1..11 : i < 3 /\ f = Phases[i] BY <1>f
  <2>3. Runs(s2 \o Of(Phases[3]), InPhases(F2 \cup {Phases[3]}))
    BY <2>1, <2>2, <1>2, PhaseBehind
  <2> QED BY <2>3, PhaseNames
<1>4. Runs(s4, InPhases(F4))
  <2> HIDE DEF F3, s3
  <2>1. Phases[4] \in HookPhases /\ 4 \in 1..11 BY <1>0
  <2>2. \A f \in F3 : \E i \in 1..11 : i < 4 /\ f = Phases[i] BY <1>f
  <2>3. Runs(s3 \o Of(Phases[4]), InPhases(F3 \cup {Phases[4]}))
    BY <2>1, <2>2, <1>3, PhaseBehind
  <2> QED BY <2>3, PhaseNames
<1>5. Runs(s5, InPhases(F5))
  <2> HIDE DEF F4, s4
  <2>1. Phases[5] \in HookPhases /\ 5 \in 1..11 BY <1>0
  <2>2. \A f \in F4 : \E i \in 1..11 : i < 5 /\ f = Phases[i] BY <1>f
  <2>3. Runs(s4 \o Of(Phases[5]), InPhases(F4 \cup {Phases[5]}))
    BY <2>1, <2>2, <1>4, PhaseBehind
  <2> QED BY <2>3, PhaseNames
<1>6. Runs(s6, InPhases(F6))
  <2> HIDE DEF F5, s5
  <2>1. Phases[6] \in HookPhases /\ 6 \in 1..11 BY <1>0
  <2>2. \A f \in F5 : \E i \in 1..11 : i < 6 /\ f = Phases[i] BY <1>f
  <2>3. Runs(s5 \o Of(Phases[6]), InPhases(F5 \cup {Phases[6]}))
    BY <2>1, <2>2, <1>5, PhaseBehind
  <2> QED BY <2>3, PhaseNames
<1>7. Runs(s7, InPhases(F7))
  <2> HIDE DEF F6, s6
  <2>1. Phases[7] \in HookPhases /\ 7 \in 1..11 BY <1>0
  <2>2. \A f \in F6 : \E i \in 1..11 : i < 7 /\ f = Phases[i] BY <1>f
  <2>3. Runs(s6 \o Of(Phases[7]), InPhases(F6 \cup {Phases[7]}))
    BY <2>1, <2>2, <1>6, PhaseBehind
  <2> QED BY <2>3, PhaseNames
<1>8. Before = s7 BY DEF Before
<1>9. BeforePhases = F7 BY DEF BeforePhases
<1> QED BY <1>7, <1>8, <1>9

LEMMA OthersRun ==
  hooks \subseteq Steps => /\ Runs(Serialization, InPhases({"preSerialization"}))
                           /\ Runs(After, InPhases(AfterPhases))
<1> SUFFICES ASSUME hooks \subseteq Steps
             PROVE  /\ Runs(Serialization, InPhases({"preSerialization"}))
                    /\ Runs(After, InPhases(AfterPhases))
  OBVIOUS
<1>0. \A k \in 9..11 : Phases[k] \in HookPhases BY PhaseNames DEF HookPhases, AfterPhases
<1>1. Runs(Serialization, InPhases({"preSerialization"}))
  <2>1. Runs(Of(Phases[9]), InPhase(Phases[9])) BY <1>0, OfRuns
  <2>2. InPhase("preSerialization") = InPhases({"preSerialization"}) BY DEF InPhase, InPhases
  <2> QED BY <2>1, <2>2, PhaseNames DEF Serialization
<1>2. Runs(Of("onResponse"), InPhases({"onResponse"}))
  <2>1. Runs(Of(Phases[10]), InPhase(Phases[10])) BY <1>0, OfRuns
  <2>2. InPhase("onResponse") = InPhases({"onResponse"}) BY DEF InPhase, InPhases
  <2> QED BY <2>1, <2>2, PhaseNames
<1>3. Runs(Of("onResponse") \o Of(Phases[11]), InPhases({"onResponse"} \cup {Phases[11]}))
  <2> DEFINE F == {"onResponse"}
  <2>1. \A f \in F : f = Phases[10] BY PhaseNames
  <2>2. \A f \in F : \E i \in 1..11 : i < 11 /\ f = Phases[i] BY <2>1
  <2>3. Phases[11] \in HookPhases /\ 11 \in 1..11 BY <1>0
  <2>4. Runs(Of("onResponse"), InPhases(F)) BY <1>2
  <2> HIDE DEF F
  <2>5. Runs(Of("onResponse") \o Of(Phases[11]), InPhases(F \cup {Phases[11]}))
    BY <2>2, <2>3, <2>4, PhaseBehind
  <2> QED BY <2>5 DEF F
<1>4. {"onResponse"} \cup {Phases[11]} = AfterPhases BY PhaseNames DEF AfterPhases
<1> QED BY <1>1, <1>3, <1>4, PhaseNames DEF After

(* The plan: its steps are the hooks and the handler, in order. *)
LEMMA PlanRuns ==
  ASSUME hooks \subseteq AllHooks
  PROVE  Runs(Plan, hooks \cup {Handler})
<1>0. hooks \subseteq Steps /\ hooks \subseteq InPhases(HookPhases) BY HooksAreSteps
<1>1. /\ Runs(Before, InPhases(BeforePhases)) /\ Runs(After, InPhases(AfterPhases))
      /\ Runs(Serialization, InPhases({"preSerialization"}))
  BY <1>0, BeforeRuns, OthersRun
<1>2. Handler \in Steps /\ Handler.phase = "handler" BY DEF Handler, Hook, Steps, Route
<1>3. Runs(<<Handler>>, {Handler}) BY <1>2, Single
<1>4. \A f \in BeforePhases : \E i \in 1..11 : i < 8 /\ f = Phases[i]
  <2>1. \A f \in BeforePhases : \E i \in 1..7 : f = Phases[i] BY PhaseNames DEF BeforePhases
  <2> QED BY <2>1
<1>5. \A g \in InPhases(BeforePhases) : Precedes(g, Handler)
  <2> SUFFICES ASSUME NEW g \in InPhases(BeforePhases) PROVE Precedes(g, Handler)
    OBVIOUS
  <2>1. PICK i \in 1..11 : i < 8 /\ g.phase = Phases[i] BY <1>4 DEF InPhases
  <2> QED BY <2>1, <1>2, InOrder, PhaseNames
<1>6. Runs(Before \o <<Handler>>, InPhases(BeforePhases) \cup {Handler}) BY <1>1, <1>3, <1>5, Joined
<1>7. \A g \in InPhases(BeforePhases) \cup {Handler} : \E i \in 1..11 : i < 9 /\ g.phase = Phases[i]
  <2>1. \A g \in InPhases(BeforePhases) : \E i \in 1..11 : i < 8 /\ g.phase = Phases[i]
    BY <1>4 DEF InPhases
  <2> QED BY <2>1, <1>2, PhaseNames
<1>8. \A g \in InPhases({"preSerialization"}) : g.phase = Phases[9] BY PhaseNames DEF InPhases
<1>9. \A g \in InPhases(BeforePhases) \cup {Handler} : \A h \in InPhases({"preSerialization"}) :
        Precedes(g, h)
  BY <1>7, <1>8, InOrder
<1>10. Runs((Before \o <<Handler>>) \o Serialization,
            (InPhases(BeforePhases) \cup {Handler}) \cup InPhases({"preSerialization"}))
  BY <1>1, <1>6, <1>9, Joined
<1>11. \A g \in (InPhases(BeforePhases) \cup {Handler}) \cup InPhases({"preSerialization"}) :
         \E i \in 1..11 : i < 10 /\ g.phase = Phases[i]
  <2>1. \A g \in InPhases(BeforePhases) \cup {Handler} : \E i \in 1..11 : i < 10 /\ g.phase = Phases[i]
    BY <1>7
  <2> QED BY <2>1, <1>8
<1>12. \A h \in InPhases(AfterPhases) : h.phase = Phases[10] \/ h.phase = Phases[11]
  BY PhaseNames DEF InPhases, AfterPhases
<1>13. \A g \in (InPhases(BeforePhases) \cup {Handler}) \cup InPhases({"preSerialization"}) :
         \A h \in InPhases(AfterPhases) : Precedes(g, h)
  <2> SUFFICES ASSUME NEW g \in (InPhases(BeforePhases) \cup {Handler}) \cup InPhases({"preSerialization"}),
                      NEW h \in InPhases(AfterPhases)
               PROVE  Precedes(g, h)
    OBVIOUS
  <2>1. PICK i \in 1..11 : i < 10 /\ g.phase = Phases[i] BY <1>11
  <2>2. PICK j \in 10..11 : h.phase = Phases[j] BY <1>12
  <2>3. i < j /\ j \in 1..11 BY <2>1, <2>2
  <2> QED BY <2>1, <2>2, <2>3, InOrder
<1>14. Runs(((Before \o <<Handler>>) \o Serialization) \o After,
            ((InPhases(BeforePhases) \cup {Handler}) \cup InPhases({"preSerialization"}))
              \cup InPhases(AfterPhases))
  BY <1>1, <1>10, <1>13, Joined
<1>15. ((InPhases(BeforePhases) \cup {Handler}) \cup InPhases({"preSerialization"}))
         \cup InPhases(AfterPhases) = hooks \cup {Handler}
  BY <1>0 DEF InPhases, HookPhases
<1> QED BY <1>14, <1>15 DEF Plan


LEMMA Concatenated ==
  ASSUME NEW x \in Seq(Steps), NEW y \in Seq(Steps)
  PROVE  /\ x \o y \in Seq(Steps) /\ Len(x \o y) = Len(x) + Len(y)
         /\ \A k \in 1..Len(x) : (x \o y)[k] = x[k]
         /\ \A k \in 1..Len(y) : (x \o y)[Len(x) + k] = y[k]
OBVIOUS

(* Where in the plan the steps of each kind are. *)
LEMMA Positions ==
  ASSUME hooks \subseteq AllHooks
  PROVE  /\ Plan \in Seq(Steps) /\ DOMAIN Plan = 1..(EndAt - 1)
         /\ HandlerAt \in Nat /\ SerialAt \in Nat /\ AfterAt \in Nat /\ EndAt \in Nat
         /\ 1 <= HandlerAt /\ HandlerAt < SerialAt /\ SerialAt <= AfterAt /\ AfterAt <= EndAt
         /\ \A i, j \in DOMAIN Plan : i < j => Precedes(Plan[i], Plan[j])
         /\ \A k \in 1..(EndAt - 1) : k = HandlerAt <=> Plan[k] = Handler
         /\ \A h \in InPhases(BeforePhases) : \E k \in 1..(HandlerAt - 1) : Plan[k] = h
         /\ \A h \in InPhases(AfterPhases) : \E k \in AfterAt..(EndAt - 1) : Plan[k] = h
<1>0. hooks \subseteq Steps BY HooksAreSteps
<1>1. /\ Runs(Before, InPhases(BeforePhases)) /\ Runs(After, InPhases(AfterPhases))
      /\ Runs(Serialization, InPhases({"preSerialization"}))
  BY <1>0, BeforeRuns, OthersRun
<1>2. /\ Before \in Seq(Steps) /\ After \in Seq(Steps) /\ Serialization \in Seq(Steps)
      /\ Range(Before) = InPhases(BeforePhases) /\ Range(After) = InPhases(AfterPhases)
      /\ Range(Serialization) = InPhases({"preSerialization"})
  BY <1>1 DEF Runs
<1>3. Runs(Plan, hooks \cup {Handler}) BY PlanRuns
<1>4. Plan \in Seq(Steps) /\ \A i, j \in DOMAIN Plan : i < j => Precedes(Plan[i], Plan[j])
  BY <1>3 DEF Runs
<1>5. <<Handler>> \in Seq(Steps) /\ Len(<<Handler>>) = 1 /\ <<Handler>>[1] = Handler
  BY DEF Handler, Hook, Steps, Route
<1> DEFINE b == Len(Before)
           s == Len(Serialization)
           a == Len(After)
<1>6. b \in Nat /\ s \in Nat /\ a \in Nat BY <1>2
<1>7. /\ Len(Plan) = b + 1 + s + a /\ \A k \in 1..b : Plan[k] = Before[k]
      /\ Plan[b + 1] = Handler /\ \A k \in 1..s : Plan[b + 1 + k] = Serialization[k]
      /\ \A k \in 1..a : Plan[b + 1 + s + k] = After[k]
  <2> DEFINE x == Before \o <<Handler>>
             y == x \o Serialization
  <2>1. x \in Seq(Steps) /\ Len(x) = b + 1 /\ (\A k \in 1..b : x[k] = Before[k]) /\ x[b + 1] = Handler
    BY <1>2, <1>5
  <2>2. Plan = y \o After BY DEF Plan
  <2> HIDE DEF x
  <2>3. /\ y \in Seq(Steps) /\ Len(y) = b + 1 + s /\ \A k \in 1..(b + 1) : y[k] = x[k]
        /\ \A k \in 1..s : y[b + 1 + k] = Serialization[k]
    <3>1. /\ y \in Seq(Steps) /\ Len(y) = Len(x) + s /\ \A k \in 1..Len(x) : y[k] = x[k]
          /\ \A k \in 1..s : y[Len(x) + k] = Serialization[k]
      BY <1>2, <2>1, Concatenated
    <3> QED BY <3>1, <2>1
  <2> HIDE DEF y
  <2>4. /\ Len(Plan) = b + 1 + s + a /\ \A k \in 1..(b + 1 + s) : Plan[k] = y[k]
        /\ \A k \in 1..a : Plan[b + 1 + s + k] = After[k]
    <3>1. /\ Len(Plan) = Len(y) + a /\ \A k \in 1..Len(y) : Plan[k] = y[k]
          /\ \A k \in 1..a : Plan[Len(y) + k] = After[k]
      BY <1>2, <2>2, <2>3, Concatenated
    <3> QED BY <3>1, <2>3
  <2>5. \A k \in 1..b : Plan[k] = Before[k]
    <3>1. \A k \in 1..b : k \in 1..(b + 1) /\ k \in 1..(b + 1 + s) BY <1>6
    <3> QED BY <3>1, <2>1, <2>3, <2>4
  <2>6. Plan[b + 1] = Handler
    <3>1. b + 1 \in 1..(b + 1) /\ b + 1 \in 1..(b + 1 + s) BY <1>6
    <3> QED BY <3>1, <2>1, <2>3, <2>4
  <2>7. \A k \in 1..s : Plan[b + 1 + k] = Serialization[k]
    <3>1. \A k \in 1..s : b + 1 + k \in 1..(b + 1 + s) BY <1>6
    <3> QED BY <3>1, <2>3, <2>4
  <2> QED BY <2>4, <2>5, <2>6, <2>7
<1>8. HandlerAt = b + 1 /\ SerialAt = b + 2 /\ AfterAt = b + 2 + s /\ EndAt = b + 2 + s + a
  BY <1>6, <1>7 DEF HandlerAt, SerialAt, AfterAt, EndAt
<1>9. DOMAIN Plan = 1..(EndAt - 1) BY <1>4, <1>6, <1>7, <1>8
<1>10. \A k \in 1..(EndAt - 1) : k = HandlerAt <=> Plan[k] = Handler
  <2> SUFFICES ASSUME NEW k \in 1..(EndAt - 1), k # HandlerAt PROVE Plan[k] # Handler
    BY <1>7, <1>8
  <2>0. Handler.phase = "handler" BY DEF Handler, Hook
  <2>1. CASE k \in 1..b
    <3>1. Plan[k] \in Range(Before) BY <2>1, <1>2, <1>7 DEF Range
    <3>2. Plan[k].phase \in BeforePhases BY <3>1, <1>2 DEF InPhases
    <3> QED BY <3>2, <2>0 DEF BeforePhases
  <2>2. CASE k - (b + 1) \in 1..s
    <3>1. k = b + 1 + (k - (b + 1)) BY <1>6
    <3>2. Plan[k] = Serialization[k - (b + 1)] BY <3>1, <2>2, <1>7
    <3>3. Plan[k] \in Range(Serialization) BY <3>2, <2>2, <1>2 DEF Range
    <3> QED BY <3>3, <1>2, <2>0 DEF InPhases
  <2>3. CASE k - (b + 1 + s) \in 1..a
    <3>1. k = b + 1 + s + (k - (b + 1 + s)) BY <1>6
    <3>2. Plan[k] = After[k - (b + 1 + s)] BY <3>1, <2>3, <1>7
    <3>3. Plan[k] \in Range(After) BY <3>2, <2>3, <1>2 DEF Range
    <3>4. Plan[k].phase \in AfterPhases BY <3>3, <1>2 DEF InPhases
    <3> QED BY <3>4, <2>0 DEF AfterPhases
  <2>4. k \in 1..b \/ k - (b + 1) \in 1..s \/ k - (b + 1 + s) \in 1..a BY <1>6, <1>8
  <2> QED BY <2>1, <2>2, <2>3, <2>4
<1>11. ASSUME NEW h \in InPhases(BeforePhases) PROVE \E k \in 1..(HandlerAt - 1) : Plan[k] = h
  <2>1. PICK k \in DOMAIN Before : Before[k] = h BY <1>2 DEF Range
  <2>2. k \in 1..b BY <1>2
  <2> QED BY <2>1, <2>2, <1>6, <1>7, <1>8
<1>12. ASSUME NEW h \in InPhases(AfterPhases) PROVE \E k \in AfterAt..(EndAt - 1) : Plan[k] = h
  <2>1. PICK k \in DOMAIN After : After[k] = h BY <1>2 DEF Range
  <2>2. k \in 1..a BY <1>2
  <2>3. b + 1 + s + k \in AfterAt..(EndAt - 1) BY <1>6, <1>8, <2>2
  <2> QED BY <2>1, <2>2, <2>3, <1>7
<1> HIDE DEF b, s, a
<1> QED BY <1>4, <1>6, <1>8, <1>9, <1>10, <1>11, <1>12

(* What has run when the step n is the last that has begun. *)
RanUpTo(r, n, res) ==
  /\ r \in Seq(Steps) /\ Len(r) <= n
  /\ \A i \in DOMAIN r : \E k \in 1..n : r[i] = Plan[k]
  /\ \A i, j \in DOMAIN r : i < j => Precedes(r[i], r[j])
  /\ res = "none" => \A k \in 1..n : Plan[k] \in Range(r)
  /\ Handler \in Range(r) => \A k \in 1..(HandlerAt - 1) : Plan[k] \in Range(r)
  /\ res \in {"plain", "reply"} => \A k \in AfterAt..n : Plan[k] \in Range(r)

(* How far a request with this result is. *)
ResultAt(res, n) ==
  /\ res \in Results \cup {"none", "error", "sent"} /\ n \in 1..EndAt
  /\ res = "none" <=> n <= HandlerAt
  /\ res = "plain" => SerialAt <= n
  /\ res = "reply" => AfterAt <= n
  /\ res \in {"stream", "error", "sent"} => n = EndAt

(* The timeout's answer is first or never. *)
Overtaken == IF timer = "fired" THEN <<"timeout">> ELSE <<>>

AnswersAre ==
  /\ timer \in {"off", "armed", "cleared", "fired"}
  /\ result # "sent" => answers = Overtaken /\ timer # "cleared"
  /\ result = "sent" =>
       /\ timer # "armed"
       /\ \E x \in {"reply", "stream", "error"} :
            /\ answers = Append(Overtaken, x)
            /\ x = "reply" => \A k \in AfterAt..(EndAt - 1) : Plan[k] \in Range(ran)

PipelineInv ==
  /\ hooks \subseteq AllHooks
  /\ waiting \in BOOLEAN /\ (waiting => at < EndAt)
  /\ timer # "off" => detached
  /\ ResultAt(result, at)
  /\ RanUpTo(ran, IF waiting THEN at ELSE at - 1, result)
  /\ AnswersAre


(* The plan is the route's. *)
LEMMA PlanStays ==
  hooks' = hooks => /\ Plan' = Plan /\ HandlerAt' = HandlerAt /\ SerialAt' = SerialAt
                    /\ AfterAt' = AfterAt /\ EndAt' = EndAt
<1> SUFFICES ASSUME hooks' = hooks
             PROVE  /\ Plan' = Plan /\ HandlerAt' = HandlerAt /\ SerialAt' = SerialAt
                    /\ AfterAt' = AfterAt /\ EndAt' = EndAt
  OBVIOUS
<1>1. \A f : Of(f)' = Of(f) BY DEF Of, Registered
<1>2. Before' = Before /\ Serialization' = Serialization /\ After' = After
  BY <1>1 DEF Before, Serialization, After
<1> QED BY <1>2 DEF Plan, HandlerAt, SerialAt, AfterAt, EndAt

(* The next step begins. *)
LEMMA StepBegins ==
  ASSUME hooks \subseteq AllHooks, ResultAt(result, at), at < EndAt, RanUpTo(ran, at - 1, result)
  PROVE  RanUpTo(Append(ran, Plan[at]), at, result)
<1> DEFINE r == Append(ran, Plan[at])
           n == Len(ran)
<1>0. /\ Plan \in Seq(Steps) /\ DOMAIN Plan = 1..(EndAt - 1)
      /\ HandlerAt \in Nat /\ SerialAt \in Nat /\ AfterAt \in Nat /\ EndAt \in Nat
      /\ 1 <= HandlerAt /\ HandlerAt < SerialAt /\ SerialAt <= AfterAt /\ AfterAt <= EndAt
      /\ \A i, j \in DOMAIN Plan : i < j => Precedes(Plan[i], Plan[j])
      /\ \A k \in 1..(EndAt - 1) : k = HandlerAt <=> Plan[k] = Handler
  BY Positions
<1>1. at \in 1..(EndAt - 1) /\ at \in DOMAIN Plan BY <1>0 DEF ResultAt
<1>2. Plan[at] \in Steps BY <1>0, <1>1
<1>3. /\ ran \in Seq(Steps) /\ n <= at - 1
      /\ \A i \in DOMAIN ran : \E k \in 1..(at - 1) : ran[i] = Plan[k]
      /\ \A i, j \in DOMAIN ran : i < j => Precedes(ran[i], ran[j])
      /\ result = "none" => \A k \in 1..(at - 1) : Plan[k] \in Range(ran)
      /\ Handler \in Range(ran) => \A k \in 1..(HandlerAt - 1) : Plan[k] \in Range(ran)
      /\ result \in {"plain", "reply"} => \A k \in AfterAt..(at - 1) : Plan[k] \in Range(ran)
  BY DEF RanUpTo
<1>4. /\ r \in Seq(Steps) /\ Len(r) = n + 1 /\ DOMAIN r = 1..(n + 1) /\ n \in Nat
      /\ DOMAIN ran = 1..n /\ r[n + 1] = Plan[at] /\ \A i \in 1..n : r[i] = ran[i]
  BY <1>2, <1>3
<1>5. Range(r) = Range(ran) \cup {Plan[at]}
  <2>1. \A i \in DOMAIN r : i \in 1..n \/ i = n + 1 BY <1>4
  <2>2. ASSUME NEW i \in DOMAIN r PROVE r[i] \in Range(ran) \cup {Plan[at]}
    BY <2>1, <1>4 DEF Range
  <2>3. ASSUME NEW g \in Range(ran) PROVE g \in Range(r)
    <3>1. PICK i \in 1..n : ran[i] = g BY <1>4 DEF Range
    <3>2. i \in DOMAIN r /\ r[i] = g BY <3>1, <1>4
    <3> QED BY <3>2 DEF Range
  <2>4. Plan[at] \in Range(r)
    <3>1. n + 1 \in DOMAIN r BY <1>4
    <3> QED BY <3>1, <1>4 DEF Range
  <2> QED BY <2>2, <2>3, <2>4 DEF Range
<1> HIDE DEF r, n
<1>6. \A i \in DOMAIN r : \E k \in 1..at : r[i] = Plan[k]
  <2> SUFFICES ASSUME NEW i \in DOMAIN r PROVE \E k \in 1..at : r[i] = Plan[k]
    OBVIOUS
  <2>1. CASE i = n + 1
    <3>1. at \in 1..at BY <1>1
    <3> QED BY <2>1, <3>1, <1>4
  <2>2. CASE i \in 1..n
    <3>1. PICK k \in 1..(at - 1) : ran[i] = Plan[k] BY <2>2, <1>3, <1>4
    <3>2. k \in 1..at BY <1>1, <3>1
    <3> QED BY <3>1, <3>2, <2>2, <1>4
  <2> QED BY <2>1, <2>2, <1>4
<1>7. \A i, j \in DOMAIN r : i < j => Precedes(r[i], r[j])
  <2> SUFFICES ASSUME NEW i \in DOMAIN r, NEW j \in DOMAIN r, i < j PROVE Precedes(r[i], r[j])
    OBVIOUS
  <2>1. i \in 1..n BY <1>4
  <2>2. CASE j = n + 1
    <3>1. PICK k \in 1..(at - 1) : ran[i] = Plan[k] BY <2>1, <1>3, <1>4
    <3>2. k \in DOMAIN Plan /\ k < at BY <3>1, <1>0, <1>1
    <3>3. Precedes(Plan[k], Plan[at]) BY <3>2, <1>0, <1>1
    <3> QED BY <3>1, <3>3, <2>1, <2>2, <1>4
  <2>3. CASE j \in 1..n BY <2>1, <2>3, <1>3, <1>4
  <2> QED BY <2>2, <2>3, <1>4
<1>8. result = "none" => \A k \in 1..at : Plan[k] \in Range(r)
  <2>1. \A k \in 1..at : k \in 1..(at - 1) \/ k = at BY <1>1
  <2> QED BY <2>1, <1>3, <1>5
<1>9. Handler \in Range(r) => \A k \in 1..(HandlerAt - 1) : Plan[k] \in Range(r)
  <2>1. CASE Handler \in Range(ran) BY <2>1, <1>3, <1>5
  <2>2. CASE Plan[at] = Handler
    <3>1. at = HandlerAt BY <2>2, <1>0, <1>1
    <3>2. result = "none" BY <3>1, <1>0 DEF ResultAt
    <3> QED BY <3>1, <3>2, <1>3, <1>5
  <2> QED BY <2>1, <2>2, <1>5
<1>10. result \in {"plain", "reply"} => \A k \in AfterAt..at : Plan[k] \in Range(r)
  <2>1. \A k \in AfterAt..at : k \in AfterAt..(at - 1) \/ k = at BY <1>0, <1>1
  <2> QED BY <2>1, <1>3, <1>5
<1>11. Len(r) <= at BY <1>1, <1>3, <1>4
<1> QED BY <1>4, <1>6, <1>7, <1>8, <1>9, <1>10, <1>11 DEF RanUpTo, r

(* The step that began is through. *)
LEMMA StepDone ==
  ASSUME hooks \subseteq AllHooks, ResultAt(result, at), at < EndAt, NEW r, RanUpTo(r, at, result),
         Outcome
  PROVE  /\ result' \in Results \cup {"none", "error"}
         /\ at' \in 1..EndAt
         /\ result' = "none" <=> at' <= HandlerAt
         /\ result' = "plain" => SerialAt <= at'
         /\ result' = "reply" => AfterAt <= at'
         /\ result' \in {"stream", "error"} => at' = EndAt
         /\ RanUpTo(r, at' - 1, result')
<1>0. /\ HandlerAt \in Nat /\ SerialAt \in Nat /\ AfterAt \in Nat /\ EndAt \in Nat
      /\ 1 <= HandlerAt /\ HandlerAt < SerialAt /\ SerialAt <= AfterAt /\ AfterAt <= EndAt
  BY Positions
<1>1. at \in 1..(EndAt - 1) BY <1>0 DEF ResultAt
<1>2. /\ r \in Seq(Steps) /\ Len(r) <= at
      /\ \A i \in DOMAIN r : \E k \in 1..at : r[i] = Plan[k]
      /\ \A i, j \in DOMAIN r : i < j => Precedes(r[i], r[j])
      /\ result = "none" => \A k \in 1..at : Plan[k] \in Range(r)
      /\ Handler \in Range(r) => \A k \in 1..(HandlerAt - 1) : Plan[k] \in Range(r)
      /\ result \in {"plain", "reply"} => \A k \in AfterAt..at : Plan[k] \in Range(r)
  BY DEF RanUpTo
<1>3. /\ result \in Results \cup {"none", "error", "sent"}
      /\ result = "none" <=> at <= HandlerAt
      /\ result = "plain" => SerialAt <= at
      /\ result = "reply" => AfterAt <= at
      /\ result \notin {"stream", "error", "sent"}
  BY <1>1 DEF ResultAt
<1>4. CASE at # HandlerAt /\ GoOn
  <2>1. at' = at + 1 /\ result' = result BY <1>4 DEF GoOn
  <2>2. at' - 1 = at BY <1>1, <2>1
  <2>3. RanUpTo(r, at' - 1, result') BY <2>1, <2>2
  <2>4. at' \in 1..EndAt /\ (at <= HandlerAt <=> at' <= HandlerAt) BY <1>0, <1>1, <1>4, <2>1
  <2>5. (SerialAt <= at => SerialAt <= at') /\ (AfterAt <= at => AfterAt <= at') BY <1>0, <1>1, <2>1
  <2> QED BY <1>3, <2>1, <2>3, <2>4, <2>5
<1>5. ASSUME NEW n \in 1..EndAt, NEW res, at < n, res # "none",
             res \in {"plain", "reply"} => n <= AfterAt
      PROVE  RanUpTo(r, n - 1, res)
  <2>a. at \in Nat /\ n \in Nat /\ at < n
    <3>1. \A k \in 1..EndAt : k \in Nat BY <1>0
    <3> QED BY <1>1, <1>5, <3>1
  <2>1. at <= n - 1 /\ n - 1 \in Nat BY <2>a
  <2>2. Len(r) <= n - 1
    <3>1. Len(r) \in Nat BY <1>2
    <3> QED BY <3>1, <2>1, <1>1, <1>2
  <2>3. \A k \in 1..at : k \in 1..(n - 1) BY <2>1, <1>1
  <2>4. \A i \in DOMAIN r : \E k \in 1..(n - 1) : r[i] = Plan[k] BY <2>3, <1>2
  <2>5. res \in {"plain", "reply"} => AfterAt..(n - 1) = {}
    <3> SUFFICES ASSUME n <= AfterAt PROVE AfterAt..(n - 1) = {}
      BY <1>5
    <3> QED BY <1>0, <2>a
  <2> QED BY <1>2, <1>5, <2>2, <2>4, <2>5 DEF RanUpTo
<1>6. ASSUME at <= HandlerAt, NEW v \in Results, Produces(v)
      PROVE  /\ result' \in Results \cup {"none", "error"}
             /\ at' \in 1..EndAt
             /\ result' = "none" <=> at' <= HandlerAt
             /\ result' = "plain" => SerialAt <= at'
             /\ result' = "reply" => AfterAt <= at'
             /\ result' \in {"stream", "error"} => at' = EndAt
             /\ RanUpTo(r, at' - 1, result')
  <2>1. result' = v BY <1>6 DEF Produces
  <2>2. v = "stream" => at' = EndAt BY <1>6 DEF Produces
  <2>3. v = "plain" => at' = SerialAt BY <1>6 DEF Produces
  <2>4. v = "reply" => at' = AfterAt BY <1>6 DEF Produces
  <2>5. v \in {"stream", "plain", "reply"} BY <1>6 DEF Results
  <2>6. at' \in 1..EndAt /\ at' > HandlerAt BY <1>0, <2>2, <2>3, <2>4, <2>5
  <2>7. at < at' BY <1>1, <1>6, <1>0, <2>6
  <2>8. v \in {"plain", "reply"} => at' <= AfterAt BY <1>0, <2>3, <2>4
  <2>9. RanUpTo(r, at' - 1, result') BY <1>5, <2>1, <2>5, <2>6, <2>7, <2>8
  <2>10. v = "plain" => SerialAt <= at' BY <1>0, <2>3
  <2>11. v = "reply" => AfterAt <= at' BY <1>0, <2>4
  <2>12. ~ at' <= HandlerAt BY <1>0, <2>6
  <2> QED BY <2>1, <2>2, <2>5, <2>6, <2>9, <2>10, <2>11, <2>12 DEF Results
<1>7. CASE Throws
  <2>1. result' = "error" /\ at' = EndAt BY <1>7 DEF Throws
  <2>2. at' \in 1..EndAt /\ at < at' /\ ~ at' <= HandlerAt BY <1>0, <1>1, <2>1
  <2>3. RanUpTo(r, at' - 1, result') BY <1>5, <2>1, <2>2
  <2> QED BY <2>1, <2>2, <2>3
<1> QED BY <1>4, <1>6, <1>7 DEF Outcome


LEMMA PipelineHolds ==
  ASSUME hooks \subseteq AllHooks, hooks' = hooks, waiting' \in BOOLEAN, waiting' => at' < EndAt,
         timer' # "off" => detached', ResultAt(result', at'),
         RanUpTo(ran', IF waiting' THEN at' ELSE at' - 1, result'), AnswersAre'
  PROVE  PipelineInv'
<1>1. /\ Plan' = Plan /\ HandlerAt' = HandlerAt /\ SerialAt' = SerialAt /\ AfterAt' = AfterAt
      /\ EndAt' = EndAt
  BY PlanStays
<1>2. hooks' \subseteq AllHooks'
  <2>1. AllHooks' = AllHooks BY DEF AllHooks
  <2> QED BY <2>1
<1>3. ResultAt(result, at)' BY <1>1 DEF ResultAt
<1>4. RanUpTo(ran, IF waiting THEN at ELSE at - 1, result)' BY <1>1 DEF RanUpTo
<1> QED BY <1>1, <1>2, <1>3, <1>4 DEF PipelineInv

LEMMA PipelineKept == PipelineInv /\ [PipelineStep]_appVars => PipelineInv'
<1> SUFFICES ASSUME PipelineInv, [PipelineStep]_appVars PROVE PipelineInv'
  OBVIOUS
<1>a. /\ hooks \subseteq AllHooks
      /\ waiting \in BOOLEAN /\ (waiting => at < EndAt)
      /\ timer # "off" => detached
      /\ ResultAt(result, at)
      /\ RanUpTo(ran, IF waiting THEN at ELSE at - 1, result)
      /\ AnswersAre
  BY DEF PipelineInv
<1>b. /\ timer \in {"off", "armed", "cleared", "fired"}
      /\ result # "sent" => answers = Overtaken /\ timer # "cleared"
      /\ result = "sent" =>
           /\ timer # "armed"
           /\ \E x \in {"reply", "stream", "error"} :
                /\ answers = Append(Overtaken, x)
                /\ x = "reply" => \A k \in AfterAt..(EndAt - 1) : Plan[k] \in Range(ran)
  BY <1>a DEF AnswersAre
<1>c. /\ HandlerAt \in Nat /\ SerialAt \in Nat /\ AfterAt \in Nat /\ EndAt \in Nat
      /\ 1 <= HandlerAt /\ HandlerAt < SerialAt /\ SerialAt <= AfterAt /\ AfterAt <= EndAt
  BY <1>a, Positions
<1>1. CASE StepRuns
  <2>1. /\ at < EndAt /\ ~ waiting /\ ran' = Append(ran, Plan[at])
        /\ hooks' = hooks /\ answers' = answers
    BY <1>1 DEF StepRuns
  <2>2. RanUpTo(ran', at, result) BY <1>a, <2>1, StepBegins
  <2>3. result # "sent" BY <1>a, <1>c, <2>1 DEF ResultAt
  <2>4. CASE Outcome /\ UNCHANGED <<waiting, detached, timer>>
    <3>1. /\ result' \in Results \cup {"none", "error"}
          /\ at' \in 1..EndAt
          /\ result' = "none" <=> at' <= HandlerAt
          /\ result' = "plain" => SerialAt <= at'
          /\ result' = "reply" => AfterAt <= at'
          /\ result' \in {"stream", "error"} => at' = EndAt
          /\ RanUpTo(ran', at' - 1, result')
      BY <1>a, <2>1, <2>2, <2>4, StepDone
    <3>2. result' # "sent" BY <3>1 DEF Results
    <3>3. ResultAt(result', at') BY <3>1, <3>2 DEF ResultAt
    <3>4. AnswersAre' BY <1>b, <2>1, <2>3, <2>4, <3>2 DEF AnswersAre, Overtaken
    <3>5. RanUpTo(ran', IF waiting' THEN at' ELSE at' - 1, result') BY <3>1, <2>1, <2>4
    <3> QED BY <1>a, <2>1, <2>4, <3>3, <3>4, <3>5, PipelineHolds
  <2>5. CASE waiting' = TRUE /\ detached' = TRUE /\ timer' = Armed /\ UNCHANGED <<at, result>>
    <3>1. timer' \in {"off", "armed", "fired"} /\ (timer' = "fired" <=> timer = "fired")
      BY <1>b, <2>3, <2>5 DEF Armed
    <3>2. AnswersAre' BY <1>b, <2>1, <2>3, <2>5, <3>1 DEF AnswersAre, Overtaken
    <3>3. RanUpTo(ran', IF waiting' THEN at' ELSE at' - 1, result') BY <2>2, <2>5
    <3>4. ResultAt(result', at') BY <1>a, <2>5
    <3>5. waiting' \in BOOLEAN BY <2>5
    <3> QED BY <1>a, <2>1, <2>5, <3>2, <3>3, <3>4, <3>5, PipelineHolds
  <2> QED BY <1>1, <2>4, <2>5 DEF StepRuns
<1>2. CASE StepSettles
  <2>1. /\ waiting /\ waiting' = FALSE /\ Outcome
        /\ UNCHANGED <<hooks, ran, detached, timer, answers>>
    BY <1>2 DEF StepSettles
  <2>2. at < EndAt /\ RanUpTo(ran, at, result) BY <1>a, <2>1
  <2>3. result # "sent" BY <1>a, <1>c, <2>2 DEF ResultAt
  <2>4. /\ result' \in Results \cup {"none", "error"}
        /\ at' \in 1..EndAt
        /\ result' = "none" <=> at' <= HandlerAt
        /\ result' = "plain" => SerialAt <= at'
        /\ result' = "reply" => AfterAt <= at'
        /\ result' \in {"stream", "error"} => at' = EndAt
        /\ RanUpTo(ran, at' - 1, result')
    BY <1>a, <2>1, <2>2, StepDone
  <2>5. result' # "sent" BY <2>4 DEF Results
  <2>6. ResultAt(result', at') BY <2>4, <2>5 DEF ResultAt
  <2>7. AnswersAre' BY <1>b, <2>1, <2>3, <2>5 DEF AnswersAre, Overtaken
  <2>8. RanUpTo(ran', IF waiting' THEN at' ELSE at' - 1, result') BY <2>4, <2>1
  <2>9. waiting' \in BOOLEAN /\ ~ waiting' BY <2>1
  <2> QED BY <1>a, <2>1, <2>6, <2>7, <2>8, <2>9, PipelineHolds
<1>3. CASE RequestEnds
  <2>1. /\ at = EndAt /\ ~ waiting /\ result # "sent" /\ result' = "sent"
        /\ timer' = (IF timer = "armed" THEN "cleared" ELSE timer)
        /\ answers' = Append(answers, Materialized(result))
        /\ UNCHANGED <<hooks, at, ran, waiting, detached>>
    BY <1>3 DEF RequestEnds
  <2>2. result \in {"plain", "reply", "stream", "error"}
    <3>1. result # "none" BY <1>a, <1>c, <2>1 DEF ResultAt
    <3> QED BY <1>a, <2>1, <3>1 DEF ResultAt, Results
  <2>3. RanUpTo(ran, at - 1, result) BY <1>a, <2>1
  <2>4. Materialized(result) \in {"reply", "stream", "error"} BY <2>2 DEF Materialized
  <2>5. Materialized(result) = "reply" => \A k \in AfterAt..(EndAt - 1) : Plan[k] \in Range(ran)
    <3>1. Materialized(result) = "reply" => result \in {"plain", "reply"} BY <2>2 DEF Materialized
    <3> QED BY <2>1, <2>3, <3>1 DEF RanUpTo
  <2>6. timer' \in {"off", "cleared", "fired"} /\ (timer' = "fired" <=> timer = "fired")
    BY <1>b, <2>1
  <2>7. Overtaken' = Overtaken BY <2>6 DEF Overtaken
  <2>8. /\ Plan' = Plan /\ AfterAt' = AfterAt /\ EndAt' = EndAt BY <2>1, PlanStays
  <2>9. answers' = Append(Overtaken', Materialized(result)) BY <1>b, <2>1, <2>7
  <2>10. Materialized(result) = "reply" =>
           \A k \in AfterAt'..(EndAt' - 1) : Plan'[k] \in Range(ran')
    BY <2>5, <2>8, <2>1
  <2>11. \E x \in {"reply", "stream", "error"} :
           /\ answers' = Append(Overtaken', x)
           /\ x = "reply" => \A k \in AfterAt'..(EndAt' - 1) : Plan'[k] \in Range(ran')
    BY <2>4, <2>9, <2>10
  <2>12. AnswersAre' BY <2>1, <2>6, <2>11 DEF AnswersAre
  <2>13. ResultAt(result', at') BY <1>a, <1>c, <2>1 DEF ResultAt
  <2>14. RanUpTo(ran', IF waiting' THEN at' ELSE at' - 1, result')
    <3>1. RanUpTo(ran, at - 1, "sent") BY <2>3, <2>2 DEF RanUpTo
    <3> QED BY <2>1, <3>1
  <2>15. waiting' \in BOOLEAN /\ ~ waiting' BY <1>a, <2>1
  <2>16. timer' # "off" => detached' BY <1>a, <2>1
  <2> QED BY <1>a, <2>1, <2>12, <2>13, <2>14, <2>15, <2>16, PipelineHolds
<1>4. CASE TimerFires
  <2>1. /\ timer = "armed" /\ timer' = "fired" /\ answers' = Append(answers, "timeout")
        /\ UNCHANGED <<hooks, at, ran, waiting, detached, result>>
    BY <1>4 DEF TimerFires
  <2>2. result # "sent" /\ answers = <<>> BY <1>b, <2>1 DEF Overtaken
  <2>3. answers' = <<"timeout">> BY <2>1, <2>2
  <2>4. AnswersAre' BY <2>1, <2>2, <2>3 DEF AnswersAre, Overtaken
  <2> QED BY <1>a, <2>1, <2>4, PipelineHolds
<1>5. CASE UNCHANGED appVars
  <2>1. UNCHANGED <<hooks, at, ran, waiting, detached, timer, result, answers>> BY <1>5 DEF appVars
  <2>2. Plan' = Plan /\ AfterAt' = AfterAt /\ EndAt' = EndAt BY <2>1, PlanStays
  <2>3. AnswersAre' BY <1>a, <2>1, <2>2 DEF AnswersAre, Overtaken
  <2> QED BY <1>a, <2>1, <2>3, PipelineHolds
<1> QED BY <1>1, <1>2, <1>3, <1>4, <1>5 DEF PipelineStep

LEMMA PipelineStarts == Init => PipelineInv
<1> SUFFICES ASSUME Init PROVE PipelineInv
  OBVIOUS
<1>1. /\ hooks \subseteq AllHooks /\ at = 1 /\ ran = <<>> /\ waiting = FALSE /\ detached = FALSE
      /\ timer = "off" /\ result = "none" /\ answers = <<>>
  <2>1. CASE part = "pipeline"
    <3>1. PipelineInit BY <2>1 DEF Init
    <3>2. hooks \subseteq AllHooks
      <4>1. PICK n \in 0..MaxHooks : hooks \in kSubset(n, AllHooks) BY <3>1 DEF PipelineInit
      <4> QED BY <4>1 DEF kSubset
    <3> QED BY <3>1, <3>2 DEF PipelineInit
  <2>2. CASE part # "pipeline"
    <3>1. /\ hooks = {} /\ at = 1 /\ ran = <<>> /\ waiting = FALSE /\ detached = FALSE
          /\ timer = "off" /\ result = "none" /\ answers = <<>>
      BY <2>2 DEF Init
    <3> QED BY <3>1
  <2> QED BY <2>1, <2>2
<1>2. /\ HandlerAt \in Nat /\ EndAt \in Nat /\ SerialAt \in Nat /\ AfterAt \in Nat
      /\ 1 <= HandlerAt /\ HandlerAt < SerialAt /\ SerialAt <= AfterAt /\ AfterAt <= EndAt
  BY <1>1, Positions
<1>3. ResultAt("none", 1) BY <1>2 DEF ResultAt
<1>4. RanUpTo(<<>>, 0, "none")
  <2>1. <<>> \in Seq(Steps) /\ Len(<<>>) = 0 /\ DOMAIN <<>> = {} /\ Range(<<>>) = {} BY DEF Range
  <2>2. 1..0 = {} OBVIOUS
  <2> QED BY <2>1, <2>2 DEF RanUpTo
<1>5. AnswersAre BY <1>1 DEF AnswersAre, Overtaken
<1>6. at - 1 = 0 BY <1>1
<1> QED BY <1>1, <1>3, <1>4, <1>5, <1>6 DEF PipelineInv

LEMMA PipelineAnswers == PipelineInv => PipelineSafe
<1> SUFFICES ASSUME PipelineInv PROVE PipelineSafe
  OBVIOUS
<1>a. /\ hooks \subseteq AllHooks
      /\ waiting \in BOOLEAN /\ (waiting => at < EndAt)
      /\ timer # "off" => detached
      /\ ResultAt(result, at)
      /\ RanUpTo(ran, IF waiting THEN at ELSE at - 1, result)
      /\ AnswersAre
  BY DEF PipelineInv
<1>0. /\ Plan \in Seq(Steps) /\ DOMAIN Plan = 1..(EndAt - 1)
      /\ HandlerAt \in Nat /\ SerialAt \in Nat /\ AfterAt \in Nat /\ EndAt \in Nat
      /\ 1 <= HandlerAt /\ HandlerAt < SerialAt /\ SerialAt <= AfterAt /\ AfterAt <= EndAt
      /\ \A h \in InPhases(BeforePhases) : \E k \in 1..(HandlerAt - 1) : Plan[k] = h
      /\ \A h \in InPhases(AfterPhases) : \E k \in AfterAt..(EndAt - 1) : Plan[k] = h
  BY <1>a, Positions
<1>1. PipelineTypeOK
  <2>1. at \in 1..EndAt BY <1>a DEF ResultAt
  <2>2. Len(ran) <= (IF waiting THEN at ELSE at - 1) /\ ran \in Seq(Steps) BY <1>a DEF RanUpTo
  <2>3. Len(Plan) = EndAt - 1 BY <1>0
  <2>4. Len(ran) \in Nat BY <2>2
  <2>5. Len(ran) <= EndAt - 1
    <3>1. CASE waiting
      <4>1. Len(ran) <= at /\ at < EndAt BY <3>1, <1>a, <2>2
      <4> QED BY <4>1, <2>1, <2>4, <1>0
    <3>2. CASE ~ waiting
      <4>1. Len(ran) <= at - 1 BY <3>2, <2>2
      <4> QED BY <4>1, <2>1, <2>4, <1>0
    <3> QED BY <3>1, <3>2
  <2>6. timer \in {"off", "armed", "cleared", "fired"} BY <1>a DEF AnswersAre
  <2>7. result \in Results \cup {"none", "error", "sent"} BY <1>a DEF ResultAt
  <2> QED BY <1>a, <2>1, <2>3, <2>5, <2>6, <2>7 DEF PipelineTypeOK
<1>2. HandlerIsGuarded
  <2>1. \A i, j \in DOMAIN ran : i < j => Precedes(ran[i], ran[j]) BY <1>a DEF RanUpTo
  <2>2. Handler \in Range(ran) => \A k \in 1..(HandlerAt - 1) : Plan[k] \in Range(ran)
    BY <1>a DEF RanUpTo
  <2>3. Handler \in Range(ran) => {h \in hooks : h.phase \in BeforePhases} \subseteq Range(ran)
    BY <2>2, <1>0 DEF InPhases
  <2> QED BY <2>1, <2>3 DEF HandlerIsGuarded
<1>3. /\ "reply" \in Range(answers) => \A k \in AfterAt..(EndAt - 1) : Plan[k] \in Range(ran)
      /\ TimeoutOnlyBefore
  <2>1. Overtaken = <<>> \/ Overtaken = <<"timeout">> BY DEF Overtaken
  <2>2. CASE result # "sent"
    <3>1. answers = <<>> \/ answers = <<"timeout">> BY <1>a, <2>1, <2>2 DEF AnswersAre
    <3>2. CASE answers = <<>> BY <3>2 DEF Range, TimeoutOnlyBefore
    <3>3. CASE answers = <<"timeout">> BY <3>3 DEF Range, TimeoutOnlyBefore
    <3> QED BY <3>1, <3>2, <3>3
  <2>3. CASE result = "sent"
    <3>1. PICK x \in {"reply", "stream", "error"} :
            /\ answers = Append(Overtaken, x)
            /\ x = "reply" => \A k \in AfterAt..(EndAt - 1) : Plan[k] \in Range(ran)
      BY <1>a, <2>3 DEF AnswersAre
    <3>2. \/ answers = <<x>>
          \/ /\ answers \in Seq({"timeout", "reply", "stream", "error"}) /\ Len(answers) = 2
             /\ answers[1] = "timeout" /\ answers[2] = x
      <4>1. CASE Overtaken = <<>> BY <4>1, <3>1
      <4>2. CASE Overtaken = <<"timeout">>
        <5>1. answers = Append(<<"timeout">>, x) BY <4>2, <3>1
        <5>2. <<"timeout">> \in Seq({"timeout", "reply", "stream", "error"}) /\ Len(<<"timeout">>) = 1 /\ <<"timeout">>[1] = "timeout"
          OBVIOUS
        <5>3. x \in {"timeout", "reply", "stream", "error"} BY <3>1
        <5> QED BY <5>1, <5>2, <5>3
      <4> QED BY <2>1, <4>1, <4>2
    <3>3. CASE answers = <<x>>
      <4>1. Len(answers) = 1 /\ Range(answers) = {x} BY <3>3 DEF Range
      <4>2. TimeoutOnlyBefore BY <4>1 DEF TimeoutOnlyBefore
      <4> QED BY <3>1, <4>1, <4>2
    <3>4. CASE /\ answers \in Seq({"timeout", "reply", "stream", "error"}) /\ Len(answers) = 2
               /\ answers[1] = "timeout" /\ answers[2] = x
      <4>1. Len(answers) = 2 /\ Range(answers) = {"timeout", x} /\ answers[2] = x
        <5>1. DOMAIN answers = {1, 2} BY <3>4
        <5> QED BY <5>1, <3>4 DEF Range
      <4>2. TimeoutOnlyBefore
        <5>1. \A i \in 2..2 : i = 2 OBVIOUS
        <5> QED BY <3>1, <4>1, <5>1 DEF TimeoutOnlyBefore
      <4> QED BY <3>1, <4>1, <4>2
    <3> QED BY <3>2, <3>3, <3>4
  <2> QED BY <2>2, <2>3
<1>4. ResponseHooksSee BY <1>0, <1>3 DEF ResponseHooksSee, InPhases
<1> QED BY <1>1, <1>2, <1>3, <1>4 DEF PipelineSafe

(* However many hooks a route has, and whichever of them answer, throw, wait *)
(* or are overtaken by the timeout: the handler runs only behind all that    *)
(* guard it, in their order; a reply has been seen by every response hook;   *)
(* and the timeout's answer is the first or none (runBefore, runAfter).      *)
THEOREM PipelineTheorem == Spec => []PipelineSafe
<1>1. PipelineInv /\ [Next]_mcVars => PipelineInv' BY EachPart, PipelineKept
<1> QED BY <1>1, PipelineStarts, PipelineAnswers, PTL DEF Spec
=============================================================================
