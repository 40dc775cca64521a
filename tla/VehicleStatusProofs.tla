------------------------ MODULE VehicleStatusProofs ------------------------
(***************************************************************************)
(* Theorems about the status of vehicles: Heartbeat, which keeps it, for   *)
(* every threshold, expiry, delay and latency and any number of faults;    *)
(* and FleetSummary, which counts the vehicles by it, for any finite set   *)
(* of vehicles and any number of moves, repeats and failures.              *)
(***************************************************************************)
EXTENDS Heartbeat, FleetSummary, FiniteSetTheorems, TLAPS

-----------------------------------------------------------------------------
(* Heartbeat: the inductive invariant                                      *)

\* Between checks, the clients differ from the stored status only because of a
\* fault that no repeated broadcast has been charged to yet.  While a status waits
\* to be broadcast, so do the repetition it will be and the SET that failed.
Broadcasts ==
    repeats + (IF pc \in {"idle", "judge"}
               THEN IF told = online THEN 0 ELSE 1
               ELSE (IF told = pc THEN 1 ELSE 0) + (IF online = pc THEN 0 ELSE 1)) =< faults

\* A check goes by the default threshold only because a load failed.
Loaded == limit # Threshold => faults > 0

\* The hash was written at most StateTTL - ttl ago, and the newest message is no
\* older than that write allows; what was written is at most MaxDelay older than
\* the newest message.
Ages ==
    /\ silent + ttl >= StateTTL
    /\ recv # NoState => recv =< silent + MaxDelay

\* The same of what a check has read, while both go on aging.
Judged ==
    pc = "judge" => IF got = NoState THEN quiet >= StateTTL ELSE got =< quiet + MaxDelay

HeartbeatInv == TypeOK /\ Broadcasts /\ Loaded /\ Ages /\ Judged

-----------------------------------------------------------------------------
(* Heartbeat: preservation                                                 *)

\* The constants, the bounds and the sentinel are numbers in the right order.
LEMMA ConstantFacts ==
    /\ Threshold \in Nat /\ DefaultThreshold \in Nat /\ StateTTL \in Nat \ {0}
    /\ MaxDelay \in Nat /\ MaxLatency \in Nat /\ MaxFaults \in Nat
    /\ Old \in Nat /\ Old > StateTTL /\ Old > Threshold /\ Old > DefaultThreshold
    /\ MaxDelay =< Threshold /\ NoState = -1
  BY HeartbeatAssumption DEF Old, Longer, NoState

\* A state writer resets the expiry of the hash.
LEMMA UpdateHolds ==
    ASSUME HeartbeatInv, NEW d \in 0..MaxDelay, PipelineStateUpdate(d)
    PROVE  HeartbeatInv'
<1> USE ConstantFacts DEF HeartbeatInv
<1>1. TypeOK'
  BY DEF TypeOK, PipelineStateUpdate
<1>2. Broadcasts' /\ Judged' /\ Loaded'
  BY DEF Broadcasts, Judged, Loaded, PipelineStateUpdate
<1>3. Ages'
  BY DEF Ages, TypeOK, PipelineStateUpdate
<1> QED BY <1>1, <1>2, <1>3

\* Ages grow together until they are saturated.
LEMMA TickHolds ==
    ASSUME HeartbeatInv, Tick
    PROVE  HeartbeatInv'
<1> USE ConstantFacts DEF HeartbeatInv
<1>1. TypeOK'
  BY DEF TypeOK, Tick, Older
<1>2. Broadcasts' /\ Loaded'
  BY DEF Broadcasts, Loaded, Tick
<1>3. Judged'
  BY DEF Judged, TypeOK, Tick, Older
<1>4. Ages'
  BY DEF Ages, TypeOK, Tick, Older
<1> QED BY <1>1, <1>2, <1>3, <1>4

\* A check reads what the invariant says of the hash.
LEMMA CheckHolds ==
    ASSUME HeartbeatInv, Check
    PROVE  HeartbeatInv'
<1> USE ConstantFacts DEF HeartbeatInv
<1>1. /\ faults' \in 0..MaxFaults /\ faults =< faults' /\ limit' \in {Threshold, DefaultThreshold}
      /\ limit' # Threshold => faults' > 0
  BY DEF TypeOK, Check, LoadFleetThresholds
<1>2. TypeOK'
  BY <1>1 DEF TypeOK, Check
<1>3. Broadcasts' /\ Ages' /\ Loaded'
  BY <1>1 DEF Broadcasts, Ages, Loaded, TypeOK, Check
<1>4. Judged'
  BY DEF Judged, Ages, TypeOK, Check
<1> QED BY <1>2, <1>3, <1>4

\* A status that is set waits to be told, and is stored or a call failed.
LEMMA PublishHolds ==
    ASSUME HeartbeatInv, pc = "judge", NEW status \in {"online", "offline"}, Publish(status)
    PROVE  HeartbeatInv'
<1> USE ConstantFacts DEF HeartbeatInv
<1>1. PICK getFails \in BOOLEAN, setFails \in BOOLEAN :
         LET current == IF getFails THEN "none" ELSE online
             skip    == current = status
             f       == (IF getFails THEN 1 ELSE 0) + (IF setFails THEN 1 ELSE 0)
         IN  /\ faults + f =< MaxFaults
             /\ skip => ~setFails
             /\ faults' = faults + f
             /\ online' = IF skip \/ setFails THEN online ELSE status
             /\ pc' = IF skip THEN "idle" ELSE status
             /\ UNCHANGED <<silent, recv, ttl, limit, got, waited, quiet, told, repeats>>
  BY DEF Publish
<1>2. /\ online \in {"none", "online", "offline"} /\ told \in {"none", "online", "offline"}
      /\ faults \in 0..MaxFaults /\ repeats \in Nat
  BY DEF TypeOK
<1>3. /\ online' \in {"none", "online", "offline"} /\ pc' \in {"idle", "online", "offline"}
      /\ faults' \in 0..MaxFaults /\ faults =< faults'
  BY <1>1, <1>2
<1>4. TypeOK' /\ Loaded' /\ Ages' /\ Judged'
  BY <1>1, <1>2, <1>3 DEF TypeOK, Loaded, Ages, Judged
<1>5. Broadcasts'
  BY <1>1, <1>2 DEF Broadcasts
<1> QED BY <1>4, <1>5

\* The end of a check: the clients are told, or a fault keeps it from them.
LEMMA BroadcastHolds ==
    ASSUME HeartbeatInv, Broadcast \/ Restart
    PROVE  HeartbeatInv'
<1> USE ConstantFacts DEF HeartbeatInv
<1>1. /\ pc' = "idle" /\ UNCHANGED <<silent, recv, ttl, online, limit, got, waited, quiet>>
      /\ told' \in {told, pc} /\ told' \in {"none", "online", "offline"} /\ repeats' \in Nat
      /\ faults' \in 0..MaxFaults /\ faults =< faults'
  BY DEF TypeOK, Broadcast, Restart
<1>2. TypeOK' /\ Loaded' /\ Ages' /\ Judged'
  BY <1>1 DEF TypeOK, Loaded, Ages, Judged
<1>3. /\ faults \in Nat /\ repeats \in Nat /\ pc # "idle"
  BY DEF TypeOK, Broadcast, Restart
<1> DEFINE Settled == repeats' + (IF told' = online' THEN 0 ELSE 1) =< faults'
<1> HIDE DEF HeartbeatInv
<1>4. repeats =< faults
  BY <1>3 DEF HeartbeatInv, Broadcasts
<1>5. ASSUME faults' = faults + 1, repeats' = repeats
      PROVE  Settled
  BY <1>3, <1>4, <1>5
<1>6. ASSUME pc \in {"online", "offline"}, told' = pc, faults' = faults,
             repeats' = IF told = pc THEN repeats + 1 ELSE repeats
      PROVE  Settled
  <2>1. repeats + ((IF told = pc THEN 1 ELSE 0) + (IF online = pc THEN 0 ELSE 1)) =< faults
    BY <1>6 DEF HeartbeatInv, Broadcasts
  <2>2. online' = online
    BY <1>1
  <2> QED BY <1>3, <1>6, <2>1, <2>2
<1>7. Settled
  <2> HIDE DEF Settled
  <2> QED BY <1>5, <1>6 DEF Broadcast, Restart
<1>8. Broadcasts'
  BY <1>1, <1>7 DEF Broadcasts
<1> QED BY <1>2, <1>8 DEF HeartbeatInv

\* Every step preserves the invariant.
LEMMA HeartbeatStep ==
    ASSUME HeartbeatInv, [Next]_vars
    PROVE  HeartbeatInv'
<1>1. CASE UNCHANGED vars
  BY <1>1 DEF HeartbeatInv, TypeOK, Broadcasts, Loaded, Ages, Judged, vars
<1>2. CASE SetOffline \/ SetOnline
  BY <1>2, PublishHolds DEF SetOffline, SetOnline
<1> QED BY <1>1, <1>2, UpdateHolds, TickHolds, CheckHolds, BroadcastHolds DEF Next, Monitor

\* The invariant holds at any time.
LEMMA HeartbeatAlways == Spec => []HeartbeatInv
<1>1. Init => HeartbeatInv
  BY ConstantFacts DEF Init, HeartbeatInv, TypeOK, Broadcasts, Loaded, Ages, Judged
<1>2. HeartbeatInv /\ [Next]_vars => HeartbeatInv'
  BY HeartbeatStep
<1> QED BY <1>1, <1>2, PTL DEF Spec

-----------------------------------------------------------------------------
(* Heartbeat: theorems                                                     *)

\* The hash has a received_at exactly while it has not expired, and no age
\* leaves its range.
THEOREM TypeCorrect == Spec => []TypeOK
<1>1. HeartbeatInv => TypeOK
  BY DEF HeartbeatInv
<1> QED BY <1>1, HeartbeatAlways, PTL

\* However GETs, SETs, loads and broadcasts fail and the service restarts between a
\* SET and its broadcast: the monitor repeats itself, or leaves the clients with
\* another status than the stored one, at most once for each of these faults.
THEOREM RepeatsExplained == Spec => []RepeatsAreFaults
<1>1. HeartbeatInv => RepeatsAreFaults
  BY DEF HeartbeatInv, Broadcasts, RepeatsAreFaults, TypeOK
<1> QED BY <1>1, HeartbeatAlways, PTL

\* However the expiry of the hash, the delay of messages, the age of what a check
\* has read and the two thresholds relate: the monitor marks a vehicle offline only
\* after it was silent for the time one of them allows, and goes by the default
\* only after a load of the thresholds failed.
THEOREM OfflineHasReason == Spec => NotOfflineTooEarly
<1> DEFINE Reason == \/ quiet >= StateTTL
                     \/ quiet > Threshold - MaxDelay
                     \/ limit # Threshold /\ faults > 0 /\ quiet > DefaultThreshold - MaxDelay
<1>1. ASSUME HeartbeatInv, Next, online # "offline", online' = "offline"
      PROVE  Reason
  <2>1. SetOffline
    BY <1>1 DEF Next, Monitor, PipelineStateUpdate, Tick, Check, SetOnline, Publish, Broadcast, Restart
  <2>2. pc = "judge" /\ (got = NoState \/ got > limit)
    BY <2>1 DEF SetOffline, IsStale
  <2>3. quiet \in Int /\ got \in Int /\ limit \in {Threshold, DefaultThreshold}
    BY <1>1, ConstantFacts DEF HeartbeatInv, TypeOK
  <2> QED BY <1>1, <2>2, <2>3, ConstantFacts DEF HeartbeatInv, Judged, Loaded
<1>2. HeartbeatInv /\ [Next]_vars => [online # "offline" /\ online' = "offline" => Reason]_vars
  BY <1>1
<1> QED BY <1>2, HeartbeatAlways, PTL DEF Spec, NotOfflineTooEarly

-----------------------------------------------------------------------------
(* FleetSummary                                                            *)
(*                                                                         *)
(* SummaryCounted speaks of the end of a request.  On the way there, the   *)
(* vehicles whose keys SCAN has returned and that have been read are       *)
(* accounted for: no more are counted than are known to belong to a class, *)
(* and no fewer than those that never left it.                             *)

\* Of the scanned keys S, those in K are still to be read, and a keys were returned
\* again: n counts at most the vehicles of E.
CountsAtMost(n, E, K, S, a) == n + Cardinality(K \cap E) <= Cardinality(S \cap E) + a

\* n counts at least the vehicles of E, but for f failures.
CountsAtLeast(n, E, K, S, f) == Cardinality((S \cap E) \ K) <= n + f

EverLive == {v \in Member : was[v] # {}}
Kept == always \cap Member

SummaryTypes ==
    /\ registered \subseteq Member /\ always \subseteq Vehicle
    /\ keys \subseteq scanned /\ scanned \subseteq Vehicle
    /\ was \in [Vehicle -> SUBSET Class] /\ count \in [Class -> Nat]
    /\ vehicles \in Nat /\ again \in Nat /\ failures \in Nat
    /\ DOMAIN hash = Vehicle

\* The histories of the vehicles go with their hashes.
HistoryKept == \A v \in Vehicle : /\ Classes(hash, v) \subseteq was[v]
                                  /\ v \in always => hash[v] # NoHash

\* What each stage of the request has done.
Progress ==
    /\ step \notin {"vehicles", "error"} => vehicles = Cardinality(registered)
    /\ step \in {"vehicles", "scan", "rest", "ok"} => keys = {}
    /\ step \in {"rest", "ok"} \/ (step = "read" /\ last) => always \subseteq scanned

Accounted ==
    /\ \A c \in Class : /\ CountsAtMost(count[c], Ever(c), keys, scanned, again)
                        /\ CountsAtLeast(count[c], Steady(c), keys, scanned, failures)
    /\ CountsAtMost(LiveCount, EverLive, keys, scanned, again)
    /\ CountsAtLeast(LiveCount, Kept, keys, scanned, failures)

\* The inductive invariant of SummaryCounted.
SummaryInv == SummaryTypes /\ HistoryKept /\ Progress /\ Accounted

\* Sets of vehicles are finite.
LEMMA VehiclesFinite ==
    ASSUME NEW S \in SUBSET Vehicle
    PROVE  IsFiniteSet(S) /\ Cardinality(S) \in Nat
<1>1. IsFiniteSet(S)
  BY SummaryAssumption, FS_Subset
<1> QED BY <1>1, FS_CardinalityType

\* A larger set has no fewer vehicles.
LEMMA MoreVehicles ==
    ASSUME NEW S \in SUBSET Vehicle, NEW T \in SUBSET S
    PROVE  /\ Cardinality(T) \in Nat /\ Cardinality(S) \in Nat
           /\ Cardinality(T) <= Cardinality(S)
<1>1. IsFiniteSet(S) /\ T \in SUBSET Vehicle
  BY VehiclesFinite
<1> QED BY <1>1, VehiclesFinite, FS_Subset

\* SCAN returns the keys B, some of them again.
LEMMA AtMostScan ==
    ASSUME NEW n \in Nat, NEW a \in Nat, NEW E \in SUBSET Vehicle, NEW S \in SUBSET Vehicle,
           NEW B \in SUBSET Vehicle, CountsAtMost(n, E, {}, S, a)
    PROVE  CountsAtMost(n, E, B, S \cup B, a + Cardinality(B \cap S))
<1> DEFINE SE == S \cap E
           BE == B \cap E
<1>1. /\ Cardinality({} \cap E) = 0 /\ {} \cap E = {}
  BY FS_EmptySet
<1>2. n <= Cardinality(SE) + a
  <2>1. Cardinality(SE) \in Nat
    BY VehiclesFinite
  <2> QED BY <1>1, <2>1 DEF CountsAtMost
<1>3. /\ IsFiniteSet(SE) /\ Cardinality(SE) \in Nat /\ IsFiniteSet(BE) /\ Cardinality(BE) \in Nat
  BY VehiclesFinite
<1>4. /\ Cardinality(SE \cap BE) \in Nat /\ Cardinality(B \cap S) \in Nat
      /\ Cardinality(SE \cap BE) <= Cardinality(B \cap S)
  BY MoreVehicles
<1>5. (S \cup B) \cap E = SE \cup BE
  OBVIOUS
<1> HIDE DEF SE, BE
<1>6. Cardinality(SE \cup BE) = Cardinality(SE) + Cardinality(BE) - Cardinality(SE \cap BE)
  BY <1>3, FS_Union
<1>7. n + Cardinality(BE) <= Cardinality(SE \cup BE) + (a + Cardinality(B \cap S))
  BY <1>2, <1>3, <1>4, <1>6
<1> QED BY <1>5, <1>7 DEF CountsAtMost, BE

\* The key v is read, and counted only if it belongs to E.
LEMMA AtMostRead ==
    ASSUME NEW n \in Nat, NEW m \in Nat, NEW a \in Nat, NEW E \in SUBSET Vehicle,
           NEW K \in SUBSET Vehicle, NEW S \in SUBSET Vehicle, NEW v \in K,
           CountsAtMost(n, E, K, S, a), m = n \/ (v \in E /\ m = n + 1)
    PROVE  CountsAtMost(m, E, K \ {v}, S, a)
<1> DEFINE KE == K \cap E
<1>1. /\ IsFiniteSet(KE) /\ Cardinality(KE) \in Nat /\ Cardinality(S \cap E) \in Nat
      /\ Cardinality(KE \ {v}) \in Nat
  BY VehiclesFinite
<1>2. (K \ {v}) \cap E = KE \ {v} /\ (v \in E <=> v \in KE)
  OBVIOUS
<1> HIDE DEF KE
<1>3. Cardinality(KE \ {v}) = IF v \in KE THEN Cardinality(KE) - 1 ELSE Cardinality(KE)
  BY <1>1, FS_RemoveElement
<1>4. n + Cardinality(KE) <= Cardinality(S \cap E) + a
  BY DEF CountsAtMost, KE
<1>5. m + Cardinality(KE \ {v}) <= Cardinality(S \cap E) + a
  BY <1>1, <1>2, <1>3, <1>4
<1> QED BY <1>2, <1>5 DEF CountsAtMost

\* More vehicles belong to E.
LEMMA AtMostGrow ==
    ASSUME NEW n \in Nat, NEW a \in Nat, NEW E \in SUBSET Vehicle, NEW F \in SUBSET Vehicle,
           E \subseteq F, NEW S \in SUBSET Vehicle, NEW K \in SUBSET S,
           CountsAtMost(n, E, K, S, a)
    PROVE  CountsAtMost(n, F, K, S, a)
<1>1. ASSUME NEW X \in SUBSET Vehicle
      PROVE  /\ Cardinality(X \cap F) = Cardinality(X \cap E) + Cardinality((X \cap F) \ E)
             /\ Cardinality(X \cap E) \in Nat /\ Cardinality(X \cap F) \in Nat
             /\ Cardinality((X \cap F) \ E) \in Nat
  <2>1. /\ IsFiniteSet(X \cap F) /\ Cardinality(X \cap F) \in Nat /\ Cardinality(X \cap E) \in Nat
        /\ Cardinality((X \cap F) \ E) \in Nat
    BY VehiclesFinite
  <2>2. Cardinality((X \cap F) \ E) = Cardinality(X \cap F) - Cardinality((X \cap F) \cap E)
    BY <2>1, FS_Difference
  <2>3. (X \cap F) \cap E = X \cap E
    OBVIOUS
  <2>4. Cardinality((X \cap F) \ E) = Cardinality(X \cap F) - Cardinality(X \cap E)
    BY <2>2, <2>3, Zenon
  <2>5. \A i, j, k \in Nat : i = j - k => j = k + i
    OBVIOUS
  <2> QED BY <2>1, <2>4, <2>5, Zenon
<1>2. Cardinality((K \cap F) \ E) <= Cardinality((S \cap F) \ E)
  <2>1. (K \cap F) \ E \in SUBSET ((S \cap F) \ E) /\ (S \cap F) \ E \in SUBSET Vehicle
    OBVIOUS
  <2> QED BY <2>1, MoreVehicles
<1>3. n + Cardinality(K \cap E) <= Cardinality(S \cap E) + a
  BY DEF CountsAtMost
<1>4. K \in SUBSET Vehicle
  OBVIOUS
<1> DEFINE kE == Cardinality(K \cap E)
           kF == Cardinality(K \cap F)
           kD == Cardinality((K \cap F) \ E)
           sE == Cardinality(S \cap E)
           sF == Cardinality(S \cap F)
           sD == Cardinality((S \cap F) \ E)
<1>5. kF = kE + kD /\ kE \in Nat /\ kF \in Nat /\ kD \in Nat
  BY <1>1, <1>4, Zenon
<1>6. sF = sE + sD /\ sE \in Nat /\ sF \in Nat /\ sD \in Nat
  BY <1>1, Zenon
<1>7. n + kE <= sE + a /\ kD <= sD
  BY <1>2, <1>3, Zenon
<1> HIDE DEF kE, kF, kD, sE, sF, sD
<1>8. n + kF <= sF + a
  BY <1>5, <1>6, <1>7
<1> QED BY <1>8 DEF CountsAtMost, kF, sF

\* A scan, a failure or vehicles that leave E only lower what must be counted.
LEMMA AtLeastLess ==
    ASSUME NEW n \in Nat, NEW f \in Nat, NEW g \in Nat, f <= g,
           NEW E \in SUBSET Vehicle, NEW S \in SUBSET Vehicle, NEW K, NEW F, NEW T, NEW L,
           (T \cap F) \ L \subseteq (S \cap E) \ K,
           CountsAtLeast(n, E, K, S, f)
    PROVE  CountsAtLeast(n, F, L, T, g)
<1>1. (S \cap E) \ K \in SUBSET Vehicle /\ (T \cap F) \ L \in SUBSET ((S \cap E) \ K)
  OBVIOUS
<1>2. /\ Cardinality((T \cap F) \ L) \in Nat /\ Cardinality((S \cap E) \ K) \in Nat
      /\ Cardinality((T \cap F) \ L) <= Cardinality((S \cap E) \ K)
  BY <1>1, MoreVehicles
<1> QED BY <1>2 DEF CountsAtLeast

\* The key v is read: if it belongs to E it is counted, or the call fails.
LEMMA AtLeastRead ==
    ASSUME NEW n \in Nat, NEW m \in Nat, NEW f \in Nat, NEW g \in Nat, NEW E \in SUBSET Vehicle,
           NEW K \in SUBSET Vehicle, NEW S \in SUBSET Vehicle, NEW v \in K,
           CountsAtLeast(n, E, K, S, f), n <= m, f <= g, v \in E => n + f + 1 <= m + g
    PROVE  CountsAtLeast(m, E, K \ {v}, S, g)
<1> DEFINE U == (S \cap E) \ K
           W == (S \cap E) \ (K \ {v})
<1>1. W \in SUBSET (U \cup {v}) /\ (v \notin E => W \in SUBSET U)
  OBVIOUS
<1>2. U \in SUBSET Vehicle /\ U \cup {v} \in SUBSET Vehicle
  OBVIOUS
<1>3. Cardinality(U) <= n + f
  BY DEF CountsAtLeast
<1> HIDE DEF U, W
<1>4. Cardinality(U \cup {v}) <= Cardinality(U) + 1
  BY <1>2, VehiclesFinite, FS_AddElement
<1>5. /\ Cardinality(W) \in Nat /\ Cardinality(U) \in Nat /\ Cardinality(U \cup {v}) \in Nat
      /\ Cardinality(W) <= Cardinality(U \cup {v})
      /\ v \notin E => Cardinality(W) <= Cardinality(U)
  BY <1>1, <1>2, MoreVehicles
<1>6. Cardinality(W) <= m + g
  BY <1>3, <1>4, <1>5
<1> QED BY <1>6 DEF CountsAtLeast, W

-----------------------------------------------------------------------------

\* What the invariant counts are finite sets of vehicles and numbers.
LEMMA SummarySets ==
    ASSUME SummaryTypes
    PROVE  /\ \A c \in Class : Ever(c) \in SUBSET Vehicle /\ Steady(c) \in SUBSET Vehicle
           /\ EverLive \in SUBSET Vehicle /\ Kept \in SUBSET Vehicle
           /\ keys \in SUBSET Vehicle /\ scanned \in SUBSET Vehicle
           /\ \A c \in Class : count[c] \in Nat
           /\ LiveCount \in Nat /\ again \in Nat /\ failures \in Nat
<1>1. {"moving", "idle", "parked"} \subseteq Class
  BY DEF Class
<1> QED BY <1>1, SummaryAssumption DEF SummaryTypes, Ever, Steady, EverLive, Kept, LiveCount

\* A hash has one class, and no hash none.
LEMMA ClassesFacts ==
    ASSUME NEW h, NEW v
    PROVE  \/ h[v] = NoHash /\ Classes(h, v) = {}
           \/ h[v] # NoHash /\ \E c \in Class : Classes(h, v) = {c}
<1>1. ClassOf(h[v]) \in Class
  BY DEF ClassOf, Class
<1> QED BY <1>1 DEF Classes

\* The stages that neither scan nor read disturb nothing; a failure only excuses more.
LEMMA StageAccounts ==
    ASSUME SummaryInv, UNCHANGED <<hash, registered, always, was, scanned, again, keys, count>>,
           failures' \in {failures, failures + 1}, vehicles' \in Nat
    PROVE  SummaryTypes' /\ HistoryKept' /\ Accounted'
<1>1. SummaryTypes'
  BY DEF SummaryInv, SummaryTypes
<1>2. HistoryKept'
  BY DEF SummaryInv, HistoryKept, Classes
<1>3. failures \in Nat /\ failures' \in Nat /\ failures <= failures'
  BY DEF SummaryInv, SummaryTypes
<1>4. /\ \A c \in Class : Ever(c)' = Ever(c) /\ Steady(c)' = Steady(c)
      /\ EverLive' = EverLive /\ Kept' = Kept /\ LiveCount' = LiveCount
  BY DEF Ever, Steady, EverLive, Kept, LiveCount
<1>5. ASSUME NEW n \in Nat, NEW E \in SUBSET Vehicle, CountsAtLeast(n, E, keys, scanned, failures)
      PROVE  CountsAtLeast(n, E, keys, scanned, failures')
  BY <1>3, <1>5, AtLeastLess, SummarySets DEF SummaryInv
<1>6. /\ \A c \in Class : CountsAtMost(count[c], Ever(c), keys, scanned, again)
      /\ \A c \in Class : CountsAtLeast(count[c], Steady(c), keys, scanned, failures')
      /\ CountsAtMost(LiveCount, EverLive, keys, scanned, again)
      /\ CountsAtLeast(LiveCount, Kept, keys, scanned, failures')
  BY <1>5, SummarySets DEF SummaryInv, Accounted
<1>7. Accounted'
  BY <1>4, <1>6, Zenon DEF Accounted
<1> QED BY <1>1, <1>2, <1>7

\* SCAN returns keys: each is new, or counted as returned again.
LEMMA ScanAccounts ==
    ASSUME SummaryInv, keys = {}, NEW batch \in SUBSET Vehicle,
           scanned' = scanned \cup batch, again' = again + Cardinality(batch \cap scanned),
           keys' = batch, UNCHANGED <<hash, registered, always, was, count, vehicles, failures>>
    PROVE  SummaryTypes' /\ HistoryKept' /\ Accounted'
<1>1. SummaryTypes /\ Accounted
  BY DEF SummaryInv
<1>2. batch \cap scanned \in SUBSET Vehicle
  OBVIOUS
<1>3. SummaryTypes'
  BY <1>1, <1>2, VehiclesFinite DEF SummaryTypes
<1>4. HistoryKept'
  BY DEF SummaryInv, HistoryKept, Classes
<1>5. /\ \A c \in Class : Ever(c)' = Ever(c) /\ Steady(c)' = Steady(c)
      /\ EverLive' = EverLive /\ Kept' = Kept /\ LiveCount' = LiveCount
  BY DEF Ever, Steady, EverLive, Kept, LiveCount
<1>6. ASSUME NEW n \in Nat, NEW E \in SUBSET Vehicle, CountsAtMost(n, E, keys, scanned, again)
      PROVE  CountsAtMost(n, E, keys', scanned', again')
  BY <1>1, <1>6, AtMostScan, SummarySets
<1>7. ASSUME NEW n \in Nat, NEW E \in SUBSET Vehicle, CountsAtLeast(n, E, keys, scanned, failures)
      PROVE  CountsAtLeast(n, E, keys', scanned', failures)
  <2>1. (scanned' \cap E) \ keys' \subseteq (scanned \cap E) \ keys
    OBVIOUS
  <2>2. failures \in Nat /\ failures <= failures /\ scanned \in SUBSET Vehicle
    BY <1>1, SummarySets
  <2> QED BY <1>7, <2>1, <2>2, AtLeastLess
<1>8. /\ \A c \in Class : CountsAtMost(count[c], Ever(c), keys', scanned', again')
      /\ \A c \in Class : CountsAtLeast(count[c], Steady(c), keys', scanned', failures)
      /\ CountsAtMost(LiveCount, EverLive, keys', scanned', again')
      /\ CountsAtLeast(LiveCount, Kept, keys', scanned', failures)
  BY <1>1, <1>6, <1>7, SummarySets DEF Accounted
<1>9. Accounted'
  BY <1>5, <1>8, Zenon DEF Accounted
<1> QED BY <1>3, <1>4, <1>9

\* One class of the three gets one more, if the vehicle has a hash and belongs to
\* the fleet.
LEMMA ReadCounts ==
    ASSUME SummaryTypes, NEW v \in Vehicle,
           count' = [c \in Class |->
                       IF v \in Member /\ c \in Classes(hash, v) THEN count[c] + 1 ELSE count[c]]
    PROVE  /\ count' \in [Class -> Nat]
           /\ \A c \in Class : count'[c] = IF v \in Member /\ c \in Classes(hash, v)
                                           THEN count[c] + 1 ELSE count[c]
           /\ LiveCount' = IF v \in Member /\ hash[v] # NoHash THEN LiveCount + 1 ELSE LiveCount
<1>1. count \in [Class -> Nat]
  BY DEF SummaryTypes
<1>2. \A c \in Class : count'[c] = IF v \in Member /\ c \in Classes(hash, v)
                                   THEN count[c] + 1 ELSE count[c]
  OBVIOUS
<1>3. count' \in [Class -> Nat]
  BY <1>1
<1>4. "moving" \in Class /\ "idle" \in Class /\ "parked" \in Class
      /\ \A c \in Class : c = "moving" \/ c = "idle" \/ c = "parked"
  BY DEF Class
<1>5. CASE v \in Member /\ hash[v] # NoHash
  <2>1. PICK d \in Class : Classes(hash, v) = {d}
    BY <1>5, ClassesFacts
  <2>2. \A c \in Class : count'[c] = IF c = d THEN count[c] + 1 ELSE count[c]
    BY <1>2, <1>5, <2>1
  <2> QED BY <1>1, <1>2, <1>3, <1>4, <1>5, <2>2 DEF LiveCount
<1>6. CASE ~(v \in Member /\ hash[v] # NoHash)
  <2>1. \A c \in Class : count'[c] = count[c]
    BY <1>2, <1>6, ClassesFacts
  <2> QED BY <1>2, <1>3, <1>4, <1>6, <2>1 DEF LiveCount
<1> QED BY <1>5, <1>6, <1>2, <1>3

\* A key is read: the vehicle is counted in the class it is in, or the call fails,
\* or there is nothing to count.
LEMMA ReadAccounts ==
    ASSUME SummaryInv, NEW v \in Vehicle, ReadHash(v)
    PROVE  SummaryTypes' /\ HistoryKept' /\ Accounted'
<1>1. SummaryTypes /\ HistoryKept /\ Accounted
  BY DEF SummaryInv
<1>2. /\ UNCHANGED <<hash, registered, always, was, scanned, again, vehicles>>
      /\ v \in keys /\ keys' = keys \ {v}
  BY DEF ReadHash, worldVars, historyVars
<1>3. HistoryKept'
  BY <1>1, <1>2 DEF HistoryKept, Classes
<1>4. /\ \A c \in Class : Ever(c)' = Ever(c) /\ Steady(c)' = Steady(c)
      /\ EverLive' = EverLive /\ Kept' = Kept
  BY <1>2 DEF Ever, Steady, EverLive, Kept
<1> DEFINE counted == v \in Member /\ hash[v] # NoHash
<1>5. /\ count' \in [Class -> Nat] /\ failures' \in Nat /\ failures <= failures'
      /\ \A c \in Class :
            \/ count'[c] = count[c]
            \/ v \in Member /\ c \in Classes(hash, v) /\ count'[c] = count[c] + 1
      /\ LiveCount' = LiveCount \/ (counted /\ LiveCount' = LiveCount + 1)
      /\ \/ failures' = failures + 1
         \/ /\ \A c \in Class : v \in Member /\ c \in Classes(hash, v) => count'[c] = count[c] + 1
            /\ counted => LiveCount' = LiveCount + 1
  <2>1. CASE CallFails /\ UNCHANGED count
    <3>1. failures' \in Nat /\ failures <= failures' /\ failures' = failures + 1
      BY <1>1, <2>1 DEF CallFails, SummaryTypes
    <3>2. LiveCount' = LiveCount
      BY <2>1, Zenon DEF LiveCount
    <3> QED BY <1>1, <2>1, <3>1, <3>2, Zenon DEF SummaryTypes
  <2>2. CASE ~(CallFails /\ UNCHANGED count)
    <3>1. /\ count' = [c \in Class |->
                         IF v \in Member /\ c \in Classes(hash, v) THEN count[c] + 1 ELSE count[c]]
          /\ UNCHANGED failures
      BY <2>2 DEF ReadHash
    <3> QED BY <1>1, <3>1, ReadCounts DEF SummaryTypes
  <2> QED BY <2>1, <2>2
<1>6. SummaryTypes'
  BY <1>1, <1>2, <1>5 DEF SummaryTypes
<1>7. /\ \A c \in Class : v \in Member /\ c \in Classes(hash, v) => v \in Ever(c)
      /\ \A c \in Class : v \in Steady(c) => v \in Member /\ c \in Classes(hash, v)
      /\ counted => v \in EverLive
      /\ v \in Kept => counted
  <2>1. Classes(hash, v) \subseteq was[v] /\ (v \in always => hash[v] # NoHash)
    BY <1>1 DEF HistoryKept
  <2> QED BY <2>1, ClassesFacts DEF Ever, Steady, EverLive, Kept
<1> HIDE DEF counted
<1>8. /\ keys \in SUBSET Vehicle /\ scanned \in SUBSET Vehicle /\ again \in Nat /\ failures \in Nat
      /\ LiveCount \in Nat /\ LiveCount' \in Nat
      /\ EverLive \in SUBSET Vehicle /\ Kept \in SUBSET Vehicle
  <2>1. LiveCount \in Nat
    BY <1>1, SummarySets
  <2> QED BY <1>1, <1>5, <2>1, SummarySets
<1>9. ASSUME NEW c \in Class
      PROVE  /\ CountsAtMost(count'[c], Ever(c), keys', scanned, again)
             /\ CountsAtLeast(count'[c], Steady(c), keys', scanned, failures')
  <2>1. /\ count[c] \in Nat /\ count'[c] \in Nat
        /\ Ever(c) \in SUBSET Vehicle /\ Steady(c) \in SUBSET Vehicle
    BY <1>1, <1>5, SummarySets
  <2>2. count'[c] = count[c] \/ (v \in Ever(c) /\ count'[c] = count[c] + 1)
    BY <1>5, <1>7
  <2>3. v \in Steady(c) => count[c] + failures + 1 <= count'[c] + failures'
    BY <1>5, <1>7, <1>8, <2>1
  <2>4. count[c] <= count'[c]
    BY <2>1, <2>2
  <2>5. /\ CountsAtMost(count[c], Ever(c), keys, scanned, again)
        /\ CountsAtLeast(count[c], Steady(c), keys, scanned, failures)
    BY <1>1 DEF Accounted
  <2>6. CountsAtMost(count'[c], Ever(c), keys \ {v}, scanned, again)
    BY <1>2, <1>8, <2>1, <2>2, <2>5, AtMostRead
  <2>7. CountsAtLeast(count'[c], Steady(c), keys \ {v}, scanned, failures')
    BY <1>2, <1>5, <1>8, <2>1, <2>3, <2>4, <2>5, AtLeastRead
  <2> QED BY <1>2, <2>6, <2>7
<1>10. CountsAtMost(LiveCount', EverLive, keys', scanned, again)
  <2>1. LiveCount' = LiveCount \/ (v \in EverLive /\ LiveCount' = LiveCount + 1)
    BY <1>5, <1>7
  <2>2. CountsAtMost(LiveCount, EverLive, keys, scanned, again)
    BY <1>1 DEF Accounted
  <2> QED BY <1>2, <1>8, <2>1, <2>2, AtMostRead
<1>11. CountsAtLeast(LiveCount', Kept, keys', scanned, failures')
  <2>1. LiveCount <= LiveCount'
    BY <1>5, <1>8
  <2>2. v \in Kept => LiveCount + failures + 1 <= LiveCount' + failures'
    <3>1. v \in Kept => failures' = failures + 1 \/ LiveCount' = LiveCount + 1
      BY <1>5, <1>7, Zenon
    <3>2. failures' \in Nat /\ failures <= failures'
      BY <1>5, Zenon
    <3>3. \A i, j, k, l \in Nat : i <= k /\ j <= l /\ (l = j + 1 \/ k = i + 1) => i + j + 1 <= k + l
      OBVIOUS
    <3> QED BY <1>8, <2>1, <3>1, <3>2, <3>3, Zenon
  <2>3. CountsAtLeast(LiveCount, Kept, keys, scanned, failures)
    BY <1>1 DEF Accounted
  <2> QED BY <1>2, <1>5, <1>8, <2>1, <2>2, <2>3, AtLeastRead
<1>12. Accounted'
  BY <1>2, <1>4, <1>9, <1>10, <1>11, Zenon DEF Accounted
<1> QED BY <1>3, <1>6, <1>12

\* A hash changes: a vehicle enters a class for good, and leaves the steady ones.
LEMMA HashAccounts ==
    ASSUME SummaryInv, NEW v \in Member, HashChanges(v)
    PROVE  SummaryTypes' /\ HistoryKept' /\ Accounted' /\ always' \subseteq always
<1>1. SummaryTypes /\ HistoryKept /\ Accounted
  BY DEF SummaryInv
<1>2. /\ UNCHANGED <<registered, vehicles, keys, count, scanned, again, failures>>
      /\ \E h : hash' = [hash EXCEPT ![v] = h]
      /\ always' = always \cap Live(hash')
      /\ was' = [was EXCEPT ![v] = @ \cup Classes(hash', v)]
  BY DEF HashChanges, historyVars
<1>3. v \in Vehicle
  BY SummaryAssumption
<1>4. \A w \in Vehicle : Classes(hash', w) \in SUBSET Class
  BY ClassesFacts, Zenon
<1>5. /\ was' \in [Vehicle -> SUBSET Class]
      /\ \A w \in Vehicle : was'[w] = IF w = v THEN was[w] \cup Classes(hash', v) ELSE was[w]
  <2>1. was \in [Vehicle -> SUBSET Class]
    BY <1>1 DEF SummaryTypes
  <2> QED BY <1>2, <1>3, <1>4, <2>1
<1>6. SummaryTypes'
  BY <1>1, <1>2, <1>5 DEF SummaryTypes
<1>7. always' \subseteq always /\ \A w \in always' : hash'[w] # NoHash
  BY <1>2 DEF Live
<1>8. HistoryKept'
  <2>1. \A w \in Vehicle \ {v} : hash'[w] = hash[w]
    BY <1>1, <1>2 DEF SummaryTypes
  <2>2. \A w \in Vehicle \ {v} : Classes(hash', w) \subseteq was'[w]
    BY <1>1, <1>5, <2>1 DEF HistoryKept, Classes
  <2>3. Classes(hash', v) \subseteq was'[v]
    BY <1>3, <1>5
  <2>4. \A w \in Vehicle : Classes(hash', w) \subseteq was'[w] /\ (w \in always' => hash'[w] # NoHash)
    BY <1>7, <2>2, <2>3
  <2> QED BY <2>4, Zenon DEF HistoryKept, Classes
<1>9. \A w \in always : was[w] # {}
  <2>1. ASSUME NEW w \in always PROVE was[w] # {}
    <3>1. w \in Vehicle /\ hash[w] # NoHash /\ Classes(hash, w) \subseteq was[w]
      BY <1>1 DEF SummaryTypes, HistoryKept
    <3> QED BY <3>1, ClassesFacts
  <2> QED BY <2>1
<1>10. /\ \A c \in Class : Ever(c) \subseteq Ever(c)' /\ Steady(c)' \subseteq Steady(c)
       /\ EverLive \subseteq EverLive' /\ Kept' \subseteq Kept /\ LiveCount' = LiveCount
  <2>1. \A w \in Vehicle : was[w] \subseteq was'[w]
    BY <1>5
  <2>2. \A c \in Class : Ever(c) \subseteq Ever(c)'
    BY <2>1, SummaryAssumption DEF Ever
  <2>3. \A c \in Class : Steady(c)' \subseteq Steady(c)
    <3>1. ASSUME NEW c \in Class, NEW w \in always' \cap Member, was'[w] = {c}
          PROVE  w \in always \cap Member /\ was[w] = {c}
      <4>1. w \in always /\ w \in Vehicle /\ was[w] # {} /\ was[w] \subseteq {c}
        BY <1>7, <1>9, <2>1, <3>1, SummaryAssumption
      <4> QED BY <4>1
    <3> QED BY <3>1 DEF Steady
  <2>4. EverLive \subseteq EverLive'
    BY <2>1, SummaryAssumption DEF EverLive
  <2> QED BY <1>2, <1>7, <2>2, <2>3, <2>4 DEF Kept, LiveCount
<1>11. /\ keys \in SUBSET scanned /\ scanned \in SUBSET Vehicle /\ again \in Nat /\ failures \in Nat
       /\ failures <= failures /\ LiveCount \in Nat /\ \A c \in Class : count[c] \in Nat
  <2>1. keys \in SUBSET scanned
    BY <1>1 DEF SummaryTypes
  <2> QED BY <1>1, <2>1, SummarySets
<1>12. /\ \A c \in Class : Ever(c) \in SUBSET Vehicle /\ Steady(c) \in SUBSET Vehicle
       /\ EverLive \in SUBSET Vehicle /\ Kept \in SUBSET Vehicle
  BY <1>1, SummarySets
<1>13. (\A c \in Class : Ever(c)' \in SUBSET Vehicle) /\ EverLive' \in SUBSET Vehicle
  BY SummaryAssumption DEF Ever, EverLive
<1>14. ASSUME NEW n \in Nat, NEW E \in SUBSET Vehicle, NEW F \in SUBSET Vehicle, E \subseteq F,
              CountsAtMost(n, E, keys, scanned, again)
       PROVE  CountsAtMost(n, F, keys, scanned, again)
  BY <1>11, <1>14, AtMostGrow
<1>15. ASSUME NEW n \in Nat, NEW E \in SUBSET Vehicle, NEW F, F \subseteq E,
              CountsAtLeast(n, E, keys, scanned, failures)
       PROVE  CountsAtLeast(n, F, keys, scanned, failures)
  <2>1. (scanned \cap F) \ keys \subseteq (scanned \cap E) \ keys
    BY <1>15
  <2> QED BY <1>11, <1>15, <2>1, AtLeastLess
<1>16. /\ \A c \in Class : /\ CountsAtMost(count[c], Ever(c)', keys, scanned, again)
                           /\ CountsAtLeast(count[c], Steady(c)', keys, scanned, failures)
       /\ CountsAtMost(LiveCount, EverLive', keys, scanned, again)
       /\ CountsAtLeast(LiveCount, Kept', keys, scanned, failures)
  BY <1>1, <1>10, <1>11, <1>12, <1>13, <1>14, <1>15, Zenon DEF Accounted
<1>17. Accounted'
  BY <1>2, <1>10, <1>16, Zenon DEF Accounted
<1> QED BY <1>6, <1>7, <1>8, <1>17

-----------------------------------------------------------------------------

\* A request begins with nothing scanned.
LEMMA SummaryStarts == SummaryInit => SummaryInv
<1> SUFFICES ASSUME SummaryInit PROVE SummaryInv
  OBVIOUS
<1>1. \A v \in Vehicle : Classes(hash, v) \in SUBSET Class
  BY ClassesFacts, Zenon
<1>2. SummaryTypes
  BY <1>1 DEF SummaryInit, SummaryTypes, Live
<1>3. HistoryKept
  BY DEF SummaryInit, HistoryKept, Live
<1>4. Progress
  BY DEF SummaryInit, Progress
<1>5. ASSUME NEW E PROVE CountsAtMost(0, E, {}, {}, 0) /\ CountsAtLeast(0, E, {}, {}, 0)
  <2>1. {} \cap E = {} /\ ({} \cap E) \ {} = {} /\ Cardinality({}) = 0
    BY FS_EmptySet
  <2> QED BY <2>1 DEF CountsAtMost, CountsAtLeast
<1>6. /\ keys = {} /\ scanned = {} /\ again = 0 /\ failures = 0
      /\ (\A c \in Class : count[c] = 0) /\ LiveCount = 0
  BY DEF SummaryInit, LiveCount, Class
<1>7. Accounted
  BY <1>5, <1>6, Zenon DEF Accounted
<1> QED BY <1>2, <1>3, <1>4, <1>7 DEF SummaryInv

\* Every step of the request and of the vehicles keeps the invariant.
LEMMA SummaryStep ==
    ASSUME SummaryInv, [SummaryNext]_summaryVars
    PROVE  SummaryInv'
<1>1. SummaryTypes /\ Progress
  BY DEF SummaryInv
<1>2. failures \in Nat /\ vehicles \in Nat /\ Cardinality(registered) \in Nat
  <2>1. registered \in SUBSET Vehicle
    BY <1>1, SummaryAssumption DEF SummaryTypes
  <2> QED BY <1>1, <2>1, VehiclesFinite DEF SummaryTypes
<1>3. CASE CountVehicles
  <2>1. SummaryTypes' /\ HistoryKept' /\ Accounted'
    BY <1>2, <1>3, StageAccounts DEF CountVehicles, CallFails, worldVars, historyVars
  <2>2. Progress'
    BY <1>1, <1>3 DEF CountVehicles, Progress, worldVars
  <2> QED BY <2>1, <2>2 DEF SummaryInv
<1>4. CASE Scan
  <2>1. keys = {}
    BY <1>1, <1>4 DEF Scan, Progress
  <2>2. CASE CallFails /\ step' = "error" /\ UNCHANGED <<historyVars, keys, last>>
    <3>1. SummaryTypes' /\ HistoryKept' /\ Accounted'
      BY <1>2, <1>4, <2>2, StageAccounts DEF Scan, CallFails, worldVars, historyVars
    <3>2. Progress'
      BY <2>2 DEF Progress
    <3> QED BY <3>1, <3>2 DEF SummaryInv
  <2>3. CASE ~(CallFails /\ step' = "error" /\ UNCHANGED <<historyVars, keys, last>>)
    <3>1. PICK batch \in SUBSET Live(hash), end \in BOOLEAN :
             /\ end => always \subseteq scanned \cup batch
             /\ scanned' = scanned \cup batch
             /\ again' = again + Cardinality(batch \cap scanned)
             /\ keys' = batch /\ last' = end /\ step' = "read"
             /\ UNCHANGED failures
      BY <1>4, <2>3 DEF Scan
    <3>2. batch \in SUBSET Vehicle
      BY DEF Live
    <3>3. UNCHANGED <<hash, registered, always, was, count, vehicles>>
      BY <1>4 DEF Scan, worldVars
    <3>4. SummaryTypes' /\ HistoryKept' /\ Accounted'
      BY <2>1, <3>1, <3>2, <3>3, ScanAccounts
    <3>5. step = "scan"
      BY <1>4 DEF Scan
    <3>6. Progress'
      BY <1>1, <3>1, <3>3, <3>5 DEF Progress
    <3> QED BY <3>4, <3>6 DEF SummaryInv
  <2> QED BY <2>2, <2>3
<1>5. CASE BatchDone \/ CountRest
  <2>1. SummaryTypes' /\ HistoryKept' /\ Accounted'
    BY <1>2, <1>5, StageAccounts DEF BatchDone, CountRest, CallFails, worldVars, historyVars
  <2>2. Progress'
    BY <1>1, <1>5 DEF BatchDone, CountRest, Progress, worldVars, historyVars
  <2> QED BY <2>1, <2>2 DEF SummaryInv
<1>6. ASSUME NEW v \in Vehicle, ReadHash(v) PROVE SummaryInv'
  <2>1. SummaryTypes' /\ HistoryKept' /\ Accounted'
    BY <1>6, ReadAccounts
  <2>2. Progress'
    BY <1>1, <1>6 DEF ReadHash, Progress, worldVars, historyVars
  <2> QED BY <2>1, <2>2 DEF SummaryInv
<1>7. ASSUME NEW v \in Member, HashChanges(v) PROVE SummaryInv'
  <2>1. SummaryTypes' /\ HistoryKept' /\ Accounted' /\ always' \subseteq always
    BY <1>7, HashAccounts
  <2>2. UNCHANGED <<registered, step, vehicles, keys, last, scanned>>
    BY <1>7 DEF HashChanges, historyVars
  <2>3. Progress'
    BY <1>1, <2>1, <2>2 DEF Progress
  <2> QED BY <2>1, <2>3 DEF SummaryInv
<1>8. CASE UNCHANGED summaryVars
  <2>1. SummaryTypes' /\ HistoryKept' /\ Accounted'
    BY <1>2, <1>8, StageAccounts DEF summaryVars
  <2>2. Progress'
    BY <1>1, <1>8 DEF summaryVars, Progress
  <2> QED BY <2>1, <2>2 DEF SummaryInv
<1> QED BY <1>3, <1>4, <1>5, <1>6, <1>7, <1>8 DEF SummaryNext

\* At the end of a request the accounts are what SummaryCounted says.
LEMMA SummaryEnds ==
    ASSUME SummaryInv
    PROVE  SummaryCounted
<1> SUFFICES ASSUME step = "ok" PROVE SummaryCounted
  BY DEF SummaryCounted
<1>1. SummaryTypes /\ Progress /\ Accounted
  BY DEF SummaryInv
<1>2. keys = {} /\ always \subseteq scanned /\ vehicles = Cardinality(registered)
  BY <1>1 DEF Progress
<1>3. /\ \A c \in Class : /\ Ever(c) \in SUBSET Vehicle /\ Steady(c) \in SUBSET Vehicle
                          /\ count[c] \in Nat
      /\ EverLive \in SUBSET Vehicle /\ Kept \in SUBSET Vehicle /\ scanned \in SUBSET Vehicle
      /\ LiveCount \in Nat /\ again \in Nat /\ failures \in Nat
  BY <1>1, SummarySets
<1>4. ASSUME NEW n \in Nat, NEW E \in SUBSET Vehicle, CountsAtMost(n, E, keys, scanned, again)
      PROVE  n <= Cardinality(E) + again
  <2>1. keys \cap E = {} /\ Cardinality({}) = 0 /\ scanned \cap E \in SUBSET E
    BY <1>2, FS_EmptySet
  <2>2. n + 0 <= Cardinality(scanned \cap E) + again
    BY <1>4, <2>1 DEF CountsAtMost
  <2>3. /\ Cardinality(scanned \cap E) \in Nat /\ Cardinality(E) \in Nat
        /\ Cardinality(scanned \cap E) <= Cardinality(E)
    BY <2>1, MoreVehicles
  <2> QED BY <1>3, <2>2, <2>3
<1>5. ASSUME NEW n \in Nat, NEW E \in SUBSET Vehicle, E \subseteq always,
             CountsAtLeast(n, E, keys, scanned, failures)
      PROVE  Cardinality(E) <= n + failures
  <2>1. (scanned \cap E) \ keys = E
    BY <1>2, <1>5
  <2> QED BY <1>5, <2>1 DEF CountsAtLeast
<1>6. \A c \in Class : /\ Cardinality(Steady(c)) <= count[c] + failures
                       /\ count[c] <= Cardinality(Ever(c)) + again
  <2>1. \A c \in Class : Steady(c) \subseteq always
    BY DEF Steady
  <2> QED BY <1>1, <1>3, <1>4, <1>5, <2>1 DEF Accounted
<1>7. LiveCount <= Cardinality(EverLive) + again
  BY <1>1, <1>3, <1>4 DEF Accounted
<1>8. Cardinality(Kept) <= LiveCount + failures
  BY <1>1, <1>3, <1>5 DEF Accounted, Kept
<1>9. registered \in SUBSET Vehicle /\ registered \subseteq Member
  BY <1>1, SummaryAssumption DEF SummaryTypes
<1>10. ASSUME NEW S \in SUBSET Vehicle, NEW T
       PROVE  /\ Cardinality(S) = Cardinality(S \ T) + Cardinality(S \cap T)
              /\ Cardinality(S) \in Nat /\ Cardinality(S \ T) \in Nat /\ Cardinality(S \cap T) \in Nat
  <2>1. /\ IsFiniteSet(S) /\ Cardinality(S) \in Nat
        /\ Cardinality(S \ T) \in Nat /\ Cardinality(S \cap T) \in Nat
    BY VehiclesFinite
  <2>2. Cardinality(S \ T) = Cardinality(S) - Cardinality(S \cap T)
    BY <2>1, FS_Difference
  <2>3. \A i, j, k \in Nat : i = j - k => j = i + k
    OBVIOUS
  <2> QED BY <2>1, <2>2, <2>3, Zenon
<1> DEFINE reg == Cardinality(registered)
           gone == Cardinality(registered \ always)
           stay == Cardinality(registered \cap always)
           never == Cardinality(registered \ EverLive)
           both == Cardinality(registered \cap EverLive)
           extra == Cardinality(EverLive \ registered)
           live == Cardinality(EverLive)
           kept == Cardinality(Kept)
<1>11. /\ reg = gone + stay /\ reg = never + both /\ live = extra + both
       /\ {reg, gone, stay, never, both, extra, live} \subseteq Nat
  <2>1. reg = gone + stay /\ reg \in Nat /\ gone \in Nat /\ stay \in Nat
    BY <1>9, <1>10, Zenon
  <2>2. reg = never + both /\ never \in Nat /\ both \in Nat
    BY <1>9, <1>10, Zenon
  <2>3. live = extra + Cardinality(EverLive \cap registered) /\ live \in Nat /\ extra \in Nat
    BY <1>3, <1>10, Zenon
  <2>4. EverLive \cap registered = registered \cap EverLive
    OBVIOUS
  <2>5. live = extra + both
    BY <2>3, <2>4, Zenon
  <2> HIDE DEF reg, gone, stay, never, both, extra, live
  <2> QED BY <2>1, <2>2, <2>3, <2>5
<1>12. stay <= kept /\ kept \in Nat
  <2>1. registered \cap always \in SUBSET Kept
    BY <1>9 DEF Kept
  <2> QED BY <1>3, <2>1, MoreVehicles
<1>13. vehicles = reg /\ LiveCount <= live + again /\ kept <= LiveCount + failures
  BY <1>2, <1>7, <1>8
<1> HIDE DEF reg, gone, stay, never, both, extra, live, kept
<1>14. Offline <= gone + failures /\ Offline >= never - extra - again /\ Offline >= 0
  BY <1>3, <1>11, <1>12, <1>13 DEF Offline
<1> QED BY <1>6, <1>14 DEF SummaryCounted, EverLive, gone, never, extra

\* For any vehicles, and however they come, go and change while a summary is put
\* together, whatever SCAN returns again and whichever calls fail, its counts and
\* the vehicles it reports as offline are off by no more than SummaryCounted allows.
THEOREM SummariesAddUp == SummarySpec => []SummaryCounted
<1>1. SummaryInv /\ [SummaryNext]_summaryVars => SummaryInv'
  BY SummaryStep
<1>2. SummaryInv => SummaryCounted
  BY SummaryEnds
<1> QED BY <1>1, <1>2, SummaryStarts, PTL DEF SummarySpec

=============================================================================
