-------------------------- MODULE TripViewsProofs --------------------------
(***************************************************************************)
(* Theorems about TripStops and TripViews, for every number of stops, every *)
(* set of stops with a row, and any number of faults and announcements.    *)
(***************************************************************************)
EXTENDS TripViews, WellFoundedInduction, TLAPS

-----------------------------------------------------------------------------
(* The inductive invariant of the stop detector                            *)
(*                                                                         *)
(* A tick decides from statuses it loaded at its beginning.  The detector  *)
(* is the only writer of progress, and it writes each stop only when its   *)
(* loop is there; so what was loaded is still true of the stops to come,   *)
(* and what was visited then is still visited.                             *)

SnapshotHolds ==
    /\ pc = "position" => snap = progress
    /\ pc \in {"loop", "announce"} =>
           /\ i \in Stop
           /\ \A s \in Stop : s > i => snap[s] = progress[s]
           /\ Visited(snap) \subseteq Visited(progress)
    /\ pc = "loop" => snap[i] = progress[i]
    /\ pc = "complete" => i = N

\* Each arrival found was recorded or its mark lost, and it was announced, is about
\* to be, or its announcement was lost.
Announcing(s) == pc = "announce" /\ i = s
ArrivalsCounted ==
    \A s \in Tracked :
        arrivals[s] + unsaid[s] + (IF Announcing(s) THEN 1 ELSE 0) =
            (IF s \in Visited(progress) THEN 1 ELSE 0) + unmarked[s]

\* The final stop is reached only together with the completion of the trip,
\* which is still to come, was made, or was lost.
AtFinal == pc = "complete" \/ Announcing(N)
ReachedCompletes ==
    N \in Visited(progress) => AtFinal \/ tripStatus # "IN_PROGRESS" \/ incomplete

\* The final stop is recorded as visited, or has no row, or the update was lost.
FinalRecorded ==
    N \in Visited(progress) \/ N \notin Tracked \/ unmarked[N] > 0

CompletedAfterFinal == AtFinal \/ tripStatus = "COMPLETED" => FinalRecorded

StopsInv ==
    /\ TypeOK /\ SnapshotHolds /\ MissedWasPassed
    /\ ArrivalsCounted /\ ReachedCompletes /\ CompletedAfterFinal

-----------------------------------------------------------------------------
(* The inductive invariant of the readers                                  *)

\* The estimator's choice is not undone before it is stored, either.
NoPendingBeforeNext == \A s \in Stop : s < next => progress[s] # "PENDING"

\* A request that has read COMPLETED finds the final stop recorded when it comes
\* to read the stops, and shows what it found.
DetailFindsFinal ==
    vpc = "detail" => /\ view.final = "none"
                      /\ view.status = "COMPLETED" => FinalRecorded

ViewsInv ==
    /\ ViewsTypeOK /\ NoPendingBeforeEta /\ NoPendingBeforeNext
    /\ DetailFindsFinal /\ CompletedShowsArrival

-----------------------------------------------------------------------------
(* Facts about the operators of the detector                               *)

\* A set of stops that is not empty has a last one.
LEMMA LastExists ==
    ASSUME NEW V \in SUBSET Stop, V # {}
    PROVE  \E m \in V : \A s \in V : s =< m
<1> DEFINE D == {N - s : s \in V}
<1>1. N \in Nat /\ \A s \in V : s \in Nat /\ N - s \in Nat
  BY StopsAssumption DEF Stop
<1>2. D \subseteq Nat /\ D # {}
  BY <1>1
<1>3. \E x \in D : \A y \in D : ~(<<y, x>> \in OpToRel(<, Nat))
  BY <1>2, NatLessThanWellFounded, WFMin
<1>4. PICK x \in D : \A y \in D : ~(y < x)
  BY <1>2, <1>3 DEF OpToRel
<1>5. PICK m \in V : x = N - m
  BY <1>4
<1>6. \A s \in V : ~(N - s < N - m)
  BY <1>4, <1>5
<1>7. \A s \in V : s =< m
  BY <1>1, <1>6
<1> QED BY <1>7

\* What maxArrivedSeq returns is 0 or a stop that was visited when the tick began.
LEMMA MaxArrivedSeqVisited ==
    MaxArrivedSeq = 0 \/ MaxArrivedSeq \in Visited(snap)
<1>1. Visited(snap) \in SUBSET Stop
  BY DEF Visited
<1> QED BY <1>1, LastExists DEF MaxArrivedSeq

\* What the switch decides follows from the status that was loaded: a stop is
\* given up only behind a visited one, and statuses only move forward.
LEMMA VerdictFacts ==
    ASSUME TypeOK, NEW s \in Stop
    PROVE  /\ Verdict(s) \in {"none", "MISSED", "ARRIVED", "DEPARTED"}
           /\ Verdict(s) # "none" => Later(snap[s], Verdict(s))
           /\ Verdict(s) = "MISSED" => \E v \in Visited(snap) : v > s
           /\ Verdict(s) = "ARRIVED" => snap[s] = "PENDING"
<1>1. s \in Int /\ s > 0
  BY StopsAssumption DEF Stop
<1>2. Visited(snap) \subseteq Int
  BY StopsAssumption DEF Visited, Stop
<1>3. CASE snap[s] = "PENDING" /\ s < MaxArrivedSeq
  <2>1. Verdict(s) = "MISSED"
    BY <1>1, <1>2, <1>3, MaxArrivedSeqVisited DEF Verdict
  <2>2. MaxArrivedSeq \in Visited(snap) /\ MaxArrivedSeq > s
    BY <1>1, <1>2, <1>3, MaxArrivedSeqVisited
  <2> QED BY <1>3, <2>1, <2>2 DEF Later
<1>4. CASE snap[s] = "PENDING" /\ ~(s < MaxArrivedSeq)
  <2>1. Verdict(s) \in {"none", "ARRIVED"}
    BY <1>1, <1>2, <1>4, MaxArrivedSeqVisited DEF Verdict
  <2> QED BY <1>4, <2>1 DEF Later
<1>5. CASE snap[s] # "PENDING"
  <2>1. Verdict(s) = (IF snap[s] = "ARRIVED" /\ s \notin at THEN "DEPARTED" ELSE "none")
    BY <1>5 DEF Verdict
  <2> QED BY <2>1 DEF Later
<1> QED BY <1>3, <1>4, <1>5

\* The part of the type invariant that is about faults.
LossTypes ==
    /\ faults \in 0..MaxFaults
    /\ unmarked \in [Stop -> Nat] /\ unsaid \in [Stop -> Nat] /\ incomplete \in BOOLEAN

\* markStop changes the status of one stop, forward, or is counted as lost.
LEMMA MarkFacts ==
    ASSUME StopsInv, pc = "loop", NEW v \in {"MISSED", "ARRIVED", "DEPARTED"},
           Verdict(i) = v, MarkStop(i, v)
    PROVE  /\ progress' \in [Stop -> Status] /\ LossTypes' /\ UNCHANGED <<unsaid, incomplete>>
           /\ \A s \in Stop \ {i} : progress'[s] = progress[s] /\ unmarked'[s] = unmarked[s]
           /\ Later(progress[i], v)
           /\ \/ progress'[i] = v /\ unmarked'[i] = unmarked[i]
              \/ progress'[i] = progress[i] /\ unmarked'[i] = unmarked[i] /\ i \notin Tracked
              \/ /\ progress'[i] = progress[i]
                 /\ unmarked'[i] = IF v = "ARRIVED" THEN unmarked[i] + 1 ELSE unmarked[i]
           /\ Visited(progress) \subseteq Visited(progress')
<1> USE DEF StopsInv, TypeOK
<1>1. i \in Stop /\ progress[i] = snap[i]
  BY DEF SnapshotHolds
<1>2. Later(progress[i], v)
  BY <1>1, VerdictFacts
<1>3. v \in Status
  BY DEF Status
<1> DEFINE Marked == \/ progress'[i] = v /\ unmarked'[i] = unmarked[i]
                     \/ progress'[i] = progress[i] /\ unmarked'[i] = unmarked[i] /\ i \notin Tracked
                     \/ /\ progress'[i] = progress[i]
                        /\ unmarked'[i] = IF v = "ARRIVED" THEN unmarked[i] + 1 ELSE unmarked[i]
           Apart == \A s \in Stop \ {i} : progress'[s] = progress[s] /\ unmarked'[s] = unmarked[s]
<1>4. /\ progress' \in [Stop -> Status] /\ LossTypes' /\ UNCHANGED <<unsaid, incomplete>>
      /\ Marked /\ Apart
  <2>1. CASE /\ progress' = [progress EXCEPT ![i] = IF i \in Tracked THEN v ELSE @]
             /\ UNCHANGED losses
    <3>1. LossTypes' /\ UNCHANGED <<unmarked, unsaid, incomplete>>
      BY <2>1 DEF losses, LossTypes
    <3>2. CASE i \in Tracked
      <4>1. progress' = [progress EXCEPT ![i] = v]
        BY <2>1, <3>2
      <4> QED BY <1>1, <1>3, <3>1, <4>1
    <3>3. CASE i \notin Tracked
      <4>1. progress' = progress
        BY <1>1, <2>1, <3>3
      <4> QED BY <3>1, <3>3, <4>1
    <3> QED BY <3>2, <3>3
  <2>2. CASE /\ Fault
             /\ unmarked' = [unmarked EXCEPT ![i] = IF v = "ARRIVED" THEN @ + 1 ELSE @]
             /\ UNCHANGED <<progress, unsaid, incomplete>>
    <3>1. faults' \in 0..MaxFaults
      BY <2>2, StopsAssumption DEF Fault
    <3>2. /\ unmarked' \in [Stop -> Nat]
          /\ unmarked'[i] = IF v = "ARRIVED" THEN unmarked[i] + 1 ELSE unmarked[i]
          /\ \A s \in Stop \ {i} : unmarked'[s] = unmarked[s]
      <4>1. (IF v = "ARRIVED" THEN unmarked[i] + 1 ELSE unmarked[i]) \in Nat
        BY <1>1
      <4> QED BY <1>1, <2>2, <4>1
    <3> QED BY <2>2, <3>1, <3>2 DEF LossTypes
  <2> QED BY <2>1, <2>2 DEF MarkStop
<1>5. progress[i] \in {"ARRIVED", "DEPARTED"} => progress'[i] \in {"ARRIVED", "DEPARTED"}
  BY <1>2, <1>4 DEF Later
<1>6. Visited(progress) \subseteq Visited(progress')
  BY <1>1, <1>4, <1>5 DEF Visited
<1> QED BY <1>2, <1>4, <1>6

-----------------------------------------------------------------------------
(* Preservation by the steps of the detector                               *)

\* Steps that write no status preserve what is said of it.
LEMMA WritesNothing ==
    ASSUME StopsInv, TypeOK', SnapshotHolds', ArrivalsCounted',
           UNCHANGED <<progress, unmarked>>, incomplete => incomplete',
           tripStatus = "IN_PROGRESS" \/ tripStatus' # "IN_PROGRESS",
           tripStatus' = "COMPLETED" => tripStatus = "COMPLETED" \/ AtFinal,
           AtFinal => AtFinal' \/ tripStatus' # "IN_PROGRESS" \/ incomplete',
           AtFinal' => AtFinal
    PROVE  StopsInv'
<1> USE DEF StopsInv
<1>1. MissedWasPassed'
  BY DEF MissedWasPassed, Visited
<1>2. ReachedCompletes'
  BY DEF ReachedCompletes, Visited
<1>3. FinalRecorded => FinalRecorded'
  BY DEF FinalRecorded, Visited
<1>4. CompletedAfterFinal'
  BY <1>3 DEF CompletedAfterFinal
<1> QED BY <1>1, <1>2, <1>4

\* Steps that touch neither marks nor announcements leave them counted.
LEMMA CountsNothing ==
    ASSUME StopsInv, UNCHANGED <<progress, arrivals, unmarked, unsaid>>,
           pc = "announce" <=> pc' = "announce", pc = "announce" => i' = i
    PROVE  ArrivalsCounted'
  BY DEF StopsInv, ArrivalsCounted, Announcing, Visited

\* So do steps that do nothing of it at all, outside the end of the loop.
LEMMA Harmless ==
    ASSUME StopsInv, TypeOK', SnapshotHolds', UNCHANGED <<progress, arrivals, losses>>,
           tripStatus' \in {tripStatus, "CANCELLED"}, tripStatus = "IN_PROGRESS" \/ UNCHANGED tripStatus,
           UNCHANGED <<pc, i>> \/ {pc, pc'} \subseteq {"idle", "stops", "position", "loop"}
    PROVE  StopsInv'
<1>1. UNCHANGED <<unmarked, unsaid, incomplete>>
  BY DEF losses
<1>2. ArrivalsCounted'
  BY <1>1, CountsNothing
<1>3. AtFinal' <=> AtFinal
  BY DEF AtFinal, Announcing
<1>4. /\ tripStatus = "IN_PROGRESS" \/ tripStatus' # "IN_PROGRESS"
      /\ tripStatus' = "COMPLETED" => tripStatus = "COMPLETED"
  OBVIOUS
<1> QED BY <1>1, <1>2, <1>3, <1>4, WritesNothing

\* Everything that ends a tick leaves nothing to hold of its snapshot.
LEMMA TickOverFacts ==
    ASSUME TickOver
    PROVE  /\ SnapshotHolds' /\ pc' = "idle"
           /\ snap' \in [Stop -> Status] /\ at' \subseteq Stop /\ i' \in 0..N
  BY StopsAssumption DEF TickOver, SnapshotHolds, Unread, Status

LEMMA LoadHolds ==
    ASSUME StopsInv, LoadActiveTrips \/ LoadTripStops \/ ReadPosition
    PROVE  StopsInv'
<1> USE DEF StopsInv
<1>1. CASE LoadActiveTrips
  <2>1. TypeOK' /\ SnapshotHolds'
    BY <1>1 DEF LoadActiveTrips, TypeOK, SnapshotHolds, losses
  <2> QED BY <1>1, <2>1, Harmless DEF LoadActiveTrips
<1>2. CASE LoadTripStops
  <2>1. TypeOK'
    BY <1>2, TickOverFacts DEF LoadTripStops, TypeOK, losses
  <2>2. SnapshotHolds'
    BY <1>2, TickOverFacts DEF LoadTripStops, SnapshotHolds
  <2> QED BY <1>2, <2>1, <2>2, Harmless DEF LoadTripStops, TickOver
<1>3. CASE ReadPosition
  <2>1. TypeOK'
    BY <1>3, TickOverFacts, StopsAssumption DEF ReadPosition, TypeOK, losses
  <2>2. SnapshotHolds'
    <3>1. CASE TickOver
      BY <3>1, TickOverFacts
    <3>2. CASE i' = 1 /\ pc' = "loop" /\ UNCHANGED snap
      BY <1>3, <3>2, StopsAssumption DEF ReadPosition, SnapshotHolds, Stop, Visited
    <3> QED BY <1>3, <3>1, <3>2 DEF ReadPosition
  <2> QED BY <1>3, <2>1, <2>2, Harmless DEF ReadPosition, TickOver
<1> QED BY <1>1, <1>2, <1>3

\* The loop goes on with a snapshot that is still true of the stops to come.
LEMMA NextStopFacts ==
    ASSUME StopsInv, NextStop, pc \in {"loop", "announce"},
           \A s \in Stop \ {i} : progress'[s] = progress[s],
           Visited(progress) \subseteq Visited(progress')
    PROVE  /\ SnapshotHolds' /\ pc' \in {"idle", "loop"}
           /\ snap' \in [Stop -> Status] /\ at' \subseteq Stop /\ i' \in 0..N
<1>1. i \in Stop /\ i \in Int /\ N \in Int
  BY StopsAssumption DEF StopsInv, SnapshotHolds, Stop
<1>2. CASE i = N
  BY <1>2, TickOverFacts DEF NextStop
<1>3. CASE i # N
  <2>1. pc' = "loop" /\ i' = i + 1 /\ UNCHANGED <<snap, at>>
    BY <1>3 DEF NextStop
  <2>2. i' \in Stop /\ i' \in 0..N
    BY <1>1, <1>3, <2>1 DEF Stop
  <2>3. \A s \in Stop : s >= i' => snap'[s] = progress'[s]
    <3>1. ASSUME NEW s \in Stop, s >= i' PROVE snap'[s] = progress'[s]
      <4>1. s \in Int /\ s # i /\ s > i
        BY <1>1, <2>1, <3>1 DEF Stop
      <4> QED BY <2>1, <4>1 DEF StopsInv, SnapshotHolds
    <3> QED BY <3>1
  <2>4. Visited(snap)' \subseteq Visited(progress)'
    BY <2>1 DEF StopsInv, SnapshotHolds, Visited
  <2>5. \A s \in Stop : s > i' => s >= i'
    BY <2>2 DEF Stop
  <2>6. i' >= i'
    BY <2>2 DEF Stop
  <2> QED BY <2>1, <2>2, <2>3, <2>4, <2>5, <2>6 DEF SnapshotHolds, StopsInv, TypeOK
<1> QED BY <1>2, <1>3

\* A stop that is given up has a visited one behind it, now and after the update.
LEMMA MissedHolds ==
    ASSUME StopsInv, pc = "loop", NEW v \in {"MISSED", "ARRIVED", "DEPARTED"},
           Verdict(i) = v, MarkStop(i, v)
    PROVE  MissedWasPassed'
<1>1. i \in Stop
  BY DEF StopsInv, SnapshotHolds
<1>2. Visited(progress)' = Visited(progress')
  BY DEF Visited
<1>3. ASSUME NEW s \in Stop, progress'[s] = "MISSED"
      PROVE  \E w \in Visited(progress') : w > s
  <2>1. CASE progress[s] = "MISSED"
    BY <2>1, MarkFacts DEF StopsInv, MissedWasPassed
  <2>2. CASE progress[s] # "MISSED"
    <3>1. s = i /\ v = "MISSED"
      BY <1>3, <2>2, MarkFacts
    <3>2. PICK w \in Visited(snap) : w > i
      BY <1>1, <3>1, VerdictFacts DEF StopsInv
    <3>3. w \in Visited(progress')
      BY <3>2, MarkFacts DEF StopsInv, SnapshotHolds
    <3> QED BY <3>1, <3>2, <3>3
  <2> QED BY <2>1, <2>2
<1> QED BY <1>2, <1>3 DEF MissedWasPassed

\* Nothing is written, or a missed stop or a departure.
LEMMA PassHolds ==
    ASSUME StopsInv, Pass
    PROVE  StopsInv'
<1> USE DEF StopsInv
<1>1. /\ pc = "loop" /\ i \in Stop /\ NextStop /\ UNCHANGED <<tripStatus, arrivals>>
      /\ Verdict(i) # "ARRIVED"
  BY DEF Pass, SnapshotHolds
<1>2. CASE Verdict(i) = "none"
  <2>1. UNCHANGED <<progress, losses>>
    BY <1>2 DEF Pass
  <2>2. /\ SnapshotHolds' /\ pc' \in {"idle", "loop"}
        /\ snap' \in [Stop -> Status] /\ at' \subseteq Stop /\ i' \in 0..N
    BY <1>1, <2>1, NextStopFacts
  <2>3. TypeOK'
    BY <1>1, <2>1, <2>2 DEF TypeOK, losses
  <2> QED BY <1>1, <2>1, <2>2, <2>3, Harmless
<1>3. CASE Verdict(i) # "none"
  <2> DEFINE v == Verdict(i)
  <2>1. v \in {"MISSED", "DEPARTED"} /\ MarkStop(i, v)
    BY <1>1, <1>3, VerdictFacts DEF Pass
  <2> HIDE DEF v
  <2>2. /\ progress' \in [Stop -> Status] /\ LossTypes' /\ UNCHANGED <<unsaid, incomplete>>
        /\ \A s \in Stop \ {i} : progress'[s] = progress[s] /\ unmarked'[s] = unmarked[s]
        /\ Later(progress[i], v) /\ progress'[i] \in {v, progress[i]}
        /\ unmarked'[i] = unmarked[i]
        /\ Visited(progress) \subseteq Visited(progress')
    BY <1>1, <2>1, MarkFacts DEF v
  <2>3. /\ SnapshotHolds' /\ pc' \in {"idle", "loop"}
        /\ snap' \in [Stop -> Status] /\ at' \subseteq Stop /\ i' \in 0..N
    BY <1>1, <2>2, NextStopFacts
  <2>4. TypeOK'
    BY <1>1, <2>2, <2>3 DEF TypeOK, LossTypes
  <2>5. MissedWasPassed'
    BY <1>1, <2>1, MissedHolds DEF v
  <2>6. Visited(progress)' = Visited(progress)
    BY <1>1, <2>1, <2>2 DEF Visited, Later
  <2>7. UNCHANGED unmarked
    BY <2>2 DEF TypeOK, LossTypes
  <2>8. ArrivalsCounted'
    BY <1>1, <2>2, <2>3, <2>6, <2>7 DEF ArrivalsCounted, Announcing
  <2>9. ~AtFinal /\ ~AtFinal'
    BY <1>1, <2>3 DEF AtFinal, Announcing
  <2>10. ReachedCompletes'
    BY <1>1, <2>2, <2>6, <2>9 DEF ReachedCompletes
  <2>11. CompletedAfterFinal'
    BY <1>1, <2>6, <2>7, <2>9 DEF CompletedAfterFinal, FinalRecorded
  <2> QED BY <2>3, <2>4, <2>5, <2>8, <2>10, <2>11
<1> QED BY <1>2, <1>3

\* An arrival is recorded, or its mark is counted as lost; it is to be announced
\* next, and at the final stop the completion of the trip comes after that.
LEMMA ArriveHolds ==
    ASSUME StopsInv, Arrive
    PROVE  StopsInv'
<1> USE DEF StopsInv
<1>1. /\ pc = "loop" /\ i \in Stop /\ Verdict(i) = "ARRIVED" /\ MarkStop(i, "ARRIVED")
      /\ pc' = "announce" /\ UNCHANGED <<tripStatus, snap, at, i, arrivals>>
  BY DEF Arrive, SnapshotHolds
<1>2. progress[i] = "PENDING" /\ i \notin Visited(progress)
  BY <1>1, VerdictFacts, StopsAssumption DEF SnapshotHolds, Stop, Visited
<1>3. /\ progress' \in [Stop -> Status] /\ LossTypes' /\ UNCHANGED <<unsaid, incomplete>>
      /\ \A s \in Stop \ {i} : progress'[s] = progress[s] /\ unmarked'[s] = unmarked[s]
      /\ Visited(progress) \subseteq Visited(progress')
  BY <1>1, MarkFacts
<1>4. \/ i \in Visited(progress)' /\ unmarked'[i] = unmarked[i]
      \/ i \notin Visited(progress)' /\ unmarked'[i] = unmarked[i] /\ i \notin Tracked
      \/ i \notin Visited(progress)' /\ unmarked'[i] = unmarked[i] + 1
  BY <1>1, <1>2, MarkFacts DEF Visited
<1>5. \A s \in Stop \ {i} : s \in Visited(progress)' <=> s \in Visited(progress)
  BY <1>3 DEF Visited
<1>6. SnapshotHolds'
  <2>1. \A s \in Stop : s > i => s # i
    BY DEF Stop
  <2>2. Visited(snap)' \subseteq Visited(progress)'
    BY <1>1, <1>3 DEF SnapshotHolds, Visited
  <2> QED BY <1>1, <1>3, <2>1, <2>2 DEF SnapshotHolds
<1>7. TypeOK'
  BY <1>1, <1>3 DEF TypeOK, LossTypes
<1>8. MissedWasPassed'
  BY <1>1, MissedHolds
<1>9. ArrivalsCounted'
  <2>1. ASSUME NEW s \in Tracked
        PROVE  arrivals'[s] + unsaid'[s] + (IF Announcing(s)' THEN 1 ELSE 0) =
                   (IF s \in Visited(progress)' THEN 1 ELSE 0) + unmarked'[s]
    <3>1. s \in Stop /\ arrivals[s] \in Int /\ unsaid[s] \in Int /\ unmarked[s] \in Int
      BY StopsAssumption DEF TypeOK, Stop
    <3>2. arrivals[s] + unsaid[s] = (IF s \in Visited(progress) THEN 1 ELSE 0) + unmarked[s]
      BY <1>1, <3>1 DEF ArrivalsCounted, Announcing
    <3>3. CASE s = i
      <4>1. Announcing(s)'
        BY <1>1, <3>3 DEF Announcing
      <4> QED BY <1>1, <1>2, <1>3, <1>4, <3>1, <3>2, <3>3, <4>1
    <3>4. CASE s # i
      <4>1. ~Announcing(s)'
        BY <1>1, <3>4 DEF Announcing
      <4> QED BY <1>1, <1>3, <1>5, <3>1, <3>2, <3>4, <4>1
    <3> QED BY <3>3, <3>4
  <2> QED BY <2>1 DEF ArrivalsCounted
<1>10. ~AtFinal /\ (AtFinal' <=> i = N)
  BY <1>1 DEF AtFinal, Announcing
<1>11. N \in Stop
  BY StopsAssumption DEF Stop
<1>12. ReachedCompletes'
  BY <1>1, <1>3, <1>5, <1>10, <1>11 DEF ReachedCompletes
<1>13. CompletedAfterFinal'
  <2>1. CASE i = N
    <3>1. unmarked[N] \in Nat
      BY <1>11 DEF TypeOK
    <3>2. FinalRecorded'
      BY <1>4, <2>1, <3>1 DEF FinalRecorded
    <3> QED BY <3>2 DEF CompletedAfterFinal
  <2>2. CASE i # N
    <3>1. FinalRecorded => FinalRecorded'
      BY <1>3, <1>5, <1>11, <2>2 DEF FinalRecorded
    <3> QED BY <1>1, <1>10, <2>2, <3>1 DEF CompletedAfterFinal
  <2> QED BY <2>1, <2>2
<1> QED BY <1>6, <1>7, <1>8, <1>9, <1>12, <1>13

\* The announcement is made or counted as lost.
LEMMA AnnounceHolds ==
    ASSUME StopsInv, Announce
    PROVE  StopsInv'
<1> USE DEF StopsInv
<1>1. /\ pc = "announce" /\ i \in Stop /\ UNCHANGED <<tripStatus, progress, unmarked, incomplete>>
      /\ IF i = N THEN pc' = "complete" /\ UNCHANGED <<i, snap, at>> ELSE NextStop
  BY DEF Announce, SnapshotHolds, losses
<1>2. /\ arrivals' \in [Stop -> 0..MaxArrivals] /\ unsaid' \in [Stop -> Nat]
      /\ faults' \in 0..MaxFaults
      /\ \A s \in Stop \ {i} : arrivals'[s] = arrivals[s] /\ unsaid'[s] = unsaid[s]
      /\ arrivals'[i] + unsaid'[i] = arrivals[i] + unsaid[i] + 1
  <2>1. CASE /\ arrivals[i] < MaxArrivals /\ arrivals' = [arrivals EXCEPT ![i] = @ + 1]
             /\ UNCHANGED losses
    <3>1. arrivals[i] \in Int /\ unsaid[i] \in Int /\ arrivals[i] + 1 \in 0..MaxArrivals
      BY <1>1, <2>1, StopsAssumption DEF TypeOK
    <3>2. UNCHANGED <<unsaid, faults>>
      BY <2>1 DEF losses
    <3> QED BY <1>1, <2>1, <3>1, <3>2 DEF TypeOK
  <2>2. CASE /\ Fault /\ unsaid' = [unsaid EXCEPT ![i] = @ + 1]
             /\ UNCHANGED <<arrivals, unmarked, incomplete>>
    <3>1. arrivals[i] \in Int /\ unsaid[i] \in Int /\ unsaid[i] + 1 \in Nat
      BY <1>1, StopsAssumption DEF TypeOK
    <3>2. faults' \in 0..MaxFaults
      BY <2>2, StopsAssumption DEF Fault, TypeOK
    <3> QED BY <1>1, <2>2, <3>1, <3>2 DEF TypeOK
  <2> QED BY <2>1, <2>2 DEF Announce
<1>3. /\ SnapshotHolds' /\ pc' \in {"idle", "loop", "complete"}
      /\ pc' = "complete" <=> i = N
      /\ snap' \in [Stop -> Status] /\ at' \subseteq Stop /\ i' \in 0..N
  <2>1. CASE i = N
    BY <1>1, <2>1 DEF SnapshotHolds, TypeOK
  <2>2. CASE i # N
    BY <1>1, <2>2, NextStopFacts
  <2> QED BY <2>1, <2>2
<1>4. TypeOK'
  BY <1>1, <1>2, <1>3 DEF TypeOK
<1>5. ArrivalsCounted'
  <2>1. ASSUME NEW s \in Tracked
        PROVE  arrivals'[s] + unsaid'[s] + (IF Announcing(s)' THEN 1 ELSE 0) =
                   (IF s \in Visited(progress)' THEN 1 ELSE 0) + unmarked'[s]
    <3>1. s \in Stop /\ unmarked[s] \in Int
          /\ {arrivals[s], unsaid[s], arrivals'[s], unsaid'[s]} \subseteq Int
      BY <1>2, StopsAssumption DEF TypeOK, Stop
    <3>2. arrivals[s] + unsaid[s] + (IF s = i THEN 1 ELSE 0)
              = (IF s \in Visited(progress) THEN 1 ELSE 0) + unmarked[s]
      BY <1>1, <3>1 DEF ArrivalsCounted, Announcing
    <3>3. ~Announcing(s)'
      BY <1>3 DEF Announcing
    <3>4. Visited(progress)' = Visited(progress) /\ unmarked' = unmarked
      BY <1>1 DEF Visited
    <3> QED BY <1>2, <3>1, <3>2, <3>3, <3>4
  <2> QED BY <2>1 DEF ArrivalsCounted
<1>6. AtFinal' <=> AtFinal
  BY <1>1, <1>3 DEF AtFinal, Announcing
<1> QED BY <1>1, <1>3, <1>4, <1>5, <1>6, WritesNothing

\* The completion of the trip is made or lost; both end the tick.
LEMMA CompleteHolds ==
    ASSUME StopsInv, CompleteTrip
    PROVE  StopsInv'
<1> USE DEF StopsInv
<1>1. pc = "complete" /\ i = N /\ TickOver /\ UNCHANGED <<progress, arrivals, unmarked, unsaid>>
  BY DEF CompleteTrip, SnapshotHolds, NextStop, losses
<1>2. /\ faults' \in 0..MaxFaults /\ incomplete' \in BOOLEAN /\ (incomplete => incomplete')
      /\ tripStatus' \in {"COMPLETED", tripStatus}
      /\ tripStatus' = "COMPLETED" \/ incomplete'
  <2>1. faults' \in 0..MaxFaults
    BY StopsAssumption DEF CompleteTrip, Fault, TypeOK, losses
  <2>2. incomplete' \in BOOLEAN /\ (incomplete => incomplete')
    <3>1. incomplete' = TRUE \/ incomplete' = incomplete
      BY DEF CompleteTrip, losses
    <3>2. incomplete \in BOOLEAN
      BY DEF TypeOK
    <3>3. CASE incomplete' = TRUE
      BY <3>3
    <3>4. CASE incomplete' = incomplete
      BY <3>2, <3>4
    <3> QED BY <3>1, <3>3, <3>4
  <2>3. /\ tripStatus' \in {"COMPLETED", tripStatus}
        /\ tripStatus' = "COMPLETED" \/ incomplete'
    BY ZenonT(30) DEF CompleteTrip
  <2> QED BY <2>1, <2>2, <2>3
<1>3. SnapshotHolds' /\ TypeOK' /\ pc' = "idle"
  BY <1>1, <1>2, TickOverFacts DEF TypeOK
<1>4. ArrivalsCounted'
  BY <1>1, <1>3, CountsNothing
<1>5. AtFinal /\ ~AtFinal'
  BY <1>1, <1>3 DEF AtFinal, Announcing
<1> QED BY <1>1, <1>2, <1>3, <1>4, <1>5, WritesNothing

\* A restart ends the tick; what it was about to announce and to complete is lost.
LEMMA RestartHolds ==
    ASSUME StopsInv, Restart
    PROVE  StopsInv'
<1> USE DEF StopsInv
<1>1. TickOver /\ UNCHANGED <<tripStatus, progress, arrivals, unmarked>>
  BY DEF Restart
<1>2. /\ faults' \in 0..MaxFaults /\ incomplete' \in BOOLEAN /\ (incomplete => incomplete')
      /\ AtFinal => incomplete'
  <2>1. faults' \in 0..MaxFaults
    BY StopsAssumption DEF Restart, Fault, TypeOK
  <2>2. incomplete' \in BOOLEAN /\ (incomplete => incomplete') /\ (AtFinal => incomplete')
    BY ZenonT(30) DEF Restart, AtFinal, Announcing
  <2> QED BY <2>1, <2>2
<1>3. /\ unsaid' \in [Stop -> Nat]
      /\ \A s \in Stop : unsaid'[s] = unsaid[s] + (IF Announcing(s) THEN 1 ELSE 0)
  <2>1. CASE pc = "announce"
    <3>1. i \in Stop /\ unsaid[i] + 1 \in Nat /\ unsaid' = [unsaid EXCEPT ![i] = @ + 1]
      BY <2>1 DEF SnapshotHolds, Restart, TypeOK
    <3> QED BY <2>1, <3>1 DEF TypeOK, Announcing
  <2>2. CASE pc # "announce"
    <3>1. unsaid' = unsaid
      BY <2>2 DEF Restart
    <3> QED BY <2>2, <3>1 DEF TypeOK, Announcing
  <2> QED BY <2>1, <2>2
<1>4. SnapshotHolds' /\ TypeOK' /\ pc' = "idle"
  BY <1>1, <1>2, <1>3, TickOverFacts DEF TypeOK
<1>5. ArrivalsCounted'
  <2>1. ASSUME NEW s \in Tracked
        PROVE  arrivals'[s] + unsaid'[s] + (IF Announcing(s)' THEN 1 ELSE 0) =
                   (IF s \in Visited(progress)' THEN 1 ELSE 0) + unmarked'[s]
    <3>1. s \in Stop /\ arrivals[s] \in Int /\ unsaid[s] \in Int /\ unmarked[s] \in Int
      BY StopsAssumption DEF TypeOK, Stop
    <3>2. ~Announcing(s)'
      BY <1>4 DEF Announcing
    <3>3. Visited(progress)' = Visited(progress)
      BY <1>1 DEF Visited
    <3> QED BY <1>1, <1>3, <3>1, <3>2, <3>3 DEF ArrivalsCounted
  <2> QED BY <2>1 DEF ArrivalsCounted
<1>6. ~AtFinal'
  BY <1>4 DEF AtFinal, Announcing
<1> QED BY <1>1, <1>2, <1>4, <1>5, <1>6, WritesNothing

\* A cancellation changes nothing else.
LEMMA CancelHolds ==
    ASSUME StopsInv, Cancel
    PROVE  StopsInv'
<1> USE DEF StopsInv
<1>1. TypeOK' /\ SnapshotHolds'
  BY DEF Cancel, TypeOK, SnapshotHolds, losses
<1> QED BY <1>1, Harmless DEF Cancel

\* Every step preserves the invariant.
LEMMA StopsStep ==
    ASSUME StopsInv, [Next]_vars
    PROVE  StopsInv'
<1>1. CASE UNCHANGED vars
  <2>1. TypeOK' /\ SnapshotHolds'
    BY <1>1 DEF StopsInv, TypeOK, SnapshotHolds, vars, losses
  <2> QED BY <1>1, <2>1, Harmless DEF vars
<1> QED BY <1>1, LoadHolds, PassHolds, ArriveHolds, AnnounceHolds, CompleteHolds, RestartHolds,
        CancelHolds DEF Next, Detector

\* The invariant holds when the trip begins.
LEMMA StopsInit ==
    ASSUME Init
    PROVE  StopsInv
<1>1. TypeOK
  <2>1. incomplete \in BOOLEAN
    BY ZenonT(30) DEF Init
  <2> QED BY <2>1, StopsAssumption DEF Init, TypeOK, Unread, Status
<1>2. SnapshotHolds /\ MissedWasPassed
  BY DEF Init, SnapshotHolds, MissedWasPassed
<1>3. ArrivalsCounted
  BY StopsAssumption DEF Init, ArrivalsCounted, Announcing, Visited, Stop
<1>4. ReachedCompletes /\ CompletedAfterFinal
  BY DEF Init, ReachedCompletes, CompletedAfterFinal, AtFinal, Announcing, Visited
<1> QED BY <1>1, <1>2, <1>3, <1>4 DEF StopsInv

-----------------------------------------------------------------------------
(* Statuses only move forward                                              *)

\* No step takes a status back, and none forgets a lost update.
LEMMA ForwardStep ==
    ASSUME StopsInv, [Next]_vars
    PROVE  /\ \A s \in Stop : progress'[s] # progress[s] => Later(progress[s], progress'[s])
           /\ \A s \in Stop : unmarked[s] > 0 => unmarked'[s] > 0
<1>1. CASE Pass \/ Arrive
  <2>1. pc = "loop" /\ i \in Stop
    BY <1>1 DEF Pass, Arrive, StopsInv, SnapshotHolds
  <2>2. CASE Pass /\ Verdict(i) = "none"
    BY <2>2 DEF Pass, losses
  <2>3. CASE Arrive \/ Verdict(i) # "none"
    <3> DEFINE v == Verdict(i)
    <3>1. v \in {"MISSED", "ARRIVED", "DEPARTED"} /\ MarkStop(i, v)
      BY <1>1, <2>1, <2>3, VerdictFacts DEF Pass, Arrive, StopsInv
    <3> HIDE DEF v
    <3>2. unmarked \in [Stop -> Nat]
      BY DEF StopsInv, TypeOK
    <3> QED BY <2>1, <3>1, <3>2, MarkFacts DEF v
  <2> QED BY <1>1, <2>2, <2>3
<1>2. CASE ~(Pass \/ Arrive)
  <2>1. UNCHANGED progress
    BY <1>2 DEF Next, Detector, LoadActiveTrips, LoadTripStops, ReadPosition, Announce,
       CompleteTrip, Restart, Cancel, vars
  <2>2. UNCHANGED unmarked
    BY <1>2 DEF Next, Detector, LoadActiveTrips, LoadTripStops, ReadPosition, Announce,
       CompleteTrip, Restart, Cancel, vars, losses
  <2> QED BY <2>1, <2>2
<1> QED BY <1>1, <1>2

\* So what is not pending stays so, and what was recorded or lost at the final
\* stop stays recorded or lost.
LEMMA StableStep ==
    ASSUME StopsInv, [Next]_vars
    PROVE  /\ \A s \in Stop : progress[s] # "PENDING" => progress'[s] # "PENDING"
           /\ FinalRecorded => FinalRecorded'
<1>1. \A s \in Stop : progress[s] # "PENDING" => progress'[s] # "PENDING"
  BY ForwardStep DEF Later
<1>2. Visited(progress) \subseteq Visited(progress)'
  BY ForwardStep DEF Visited, Later
<1>3. N \in Stop
  BY StopsAssumption DEF Stop
<1> QED BY <1>1, <1>2, <1>3, ForwardStep DEF FinalRecorded

\* A trip that is cancelled between two ticks is not loaded by the next one.
LEMMA CancelledStays ==
    ASSUME tripStatus = "CANCELLED" /\ pc = "idle", [Next]_vars
    PROVE  tripStatus' = "CANCELLED" /\ pc' = "idle"
  BY DEF Next, Detector, LoadActiveTrips, LoadTripStops, ReadPosition, Pass, Arrive,
     Announce, CompleteTrip, Restart, Cancel, vars

-----------------------------------------------------------------------------
(* Theorems about the stop detector                                        *)

\* The invariant holds at any time.
LEMMA StopsAlways == Spec => []StopsInv
<1>1. Init => StopsInv
  BY StopsInit
<1>2. StopsInv /\ [Next]_vars => StopsInv'
  BY StopsStep
<1> QED BY <1>1, <1>2, PTL DEF Spec

\* However late, interrupted or failed the ticks are: the detector gives a stop
\* up as MISSED only if it has recorded a visit of a later one.
THEOREM MissedStopsWerePassed == Spec => []MissedWasPassed
<1>1. StopsInv => MissedWasPassed
  BY DEF StopsInv
<1> QED BY <1>1, StopsAlways, PTL

\* Clients hear of an arrival at a tracked stop exactly once for the recorded one and
\* once for each whose mark was lost, less the announcements that were lost.
THEOREM ArrivalsAnnounced == Spec => []ArrivalsAnnouncedOnce
<1>1. ASSUME StopsInv PROVE ArrivalsAnnouncedOnce
  <2>1. ASSUME NEW s \in Tracked, ~(pc = "announce" /\ i = s)
        PROVE  arrivals[s] + unsaid[s] = (IF s \in Visited(progress) THEN 1 ELSE 0) + unmarked[s]
    <3>1. arrivals[s] \in Int /\ unsaid[s] \in Int
      BY <1>1, StopsAssumption DEF StopsInv, TypeOK, Stop
    <3> QED BY <1>1, <2>1, <3>1 DEF StopsInv, ArrivalsCounted, Announcing
  <2> QED BY <2>1 DEF ArrivalsAnnouncedOnce
<1> QED BY <1>1, StopsAlways, PTL

\* A tick that records the arrival at the final stop completes the trip, or its
\* completion was lost.
THEOREM ReachedTripsComplete == Spec => []ReachedIsCompleted
<1>1. StopsInv => ReachedIsCompleted
  BY DEF StopsInv, ReachedCompletes, ReachedIsCompleted, AtFinal, Announcing
<1> QED BY <1>1, StopsAlways, PTL

\* markStop and completeTrip overwrite without looking and yet undo nothing.
THEOREM NothingIsUndone == Spec => UpdatesUndoNothing
<1>1. StopsInv /\ [Next]_vars =>
        [\A s \in Stop : progress'[s] # progress[s] => Later(progress[s], progress'[s])]_vars
  BY ForwardStep
<1>2. Spec => [][\A s \in Stop : progress'[s] # progress[s] => Later(progress[s], progress'[s])]_vars
  BY <1>1, StopsAlways, PTL DEF Spec
<1>3. (tripStatus = "CANCELLED" /\ pc = "idle") /\ [Next]_vars =>
        (tripStatus = "CANCELLED" /\ pc = "idle")'
  BY CancelledStays
<1>4. Spec => [](tripStatus = "CANCELLED" /\ pc = "idle" => [](tripStatus = "CANCELLED"))
  BY <1>3, PTL DEF Spec
<1> QED BY <1>2, <1>4 DEF UpdatesUndoNothing

-----------------------------------------------------------------------------
(* The readers                                                             *)

\* Seen without its readers, a step is one of the detector and its environment,
\* or changes nothing.
LEMMA ViewsStepIsStopsStep == [ViewsNext]_allVars => [Next]_vars
  BY DEF ViewsNext, RestartAll, Estimator, EtaTick, ComputeAndStore, ExpireEta, DetailTrip,
     DetailStops, DetailAnswer, PanelTrip, PanelStops, PanelAnswer, Reads, Next, allVars, vars

\* The estimator and the requests only read: the trip behaves as if they were
\* not there, so that all theorems about Spec hold in their company.
THEOREM ReadersDoNotInterfere == ViewsSpec => Spec
<1>1. ViewsInit => Init
  BY DEF ViewsInit
<1> QED BY <1>1, ViewsStepIsStopsStep, PTL DEF ViewsSpec, Spec

\* Steps of the detector keep what the readers rely on.
LEMMA DetectorKeepsViews ==
    ASSUME StopsInv, StopsInv', ViewsInv, [Next]_vars,
           UNCHANGED <<followed, etaVars, viewVars>>
    PROVE  ViewsInv'
<1> USE DEF ViewsInv, etaVars, viewVars
<1>1. ViewsTypeOK'
  BY DEF ViewsTypeOK, StopsInv
<1>2. NoPendingBeforeEta' /\ NoPendingBeforeNext'
  BY StableStep DEF NoPendingBeforeEta, NoPendingBeforeNext
<1>3. DetailFindsFinal'
  BY StableStep DEF DetailFindsFinal
<1>4. CompletedShowsArrival'
  <2>1. N \in Stop
    BY StopsAssumption DEF Stop
  <2> QED BY <2>1, ForwardStep DEF CompletedShowsArrival
<1> QED BY <1>1, <1>2, <1>3, <1>4

\* A restart drops what the estimator and a request had read.
LEMMA RestartKeepsViews ==
    ASSUME StopsInv, StopsInv', ViewsInv, RestartAll, UNCHANGED followed
    PROVE  ViewsInv'
<1> USE DEF ViewsInv
<1>1. /\ UNCHANGED <<eta, progress>> /\ epc' = "idle" /\ next' = 0
      /\ vpc' = "idle" /\ view' = NoView
  BY DEF RestartAll, Restart
<1>2. ViewsTypeOK'
  BY <1>1, StopsAssumption DEF ViewsTypeOK, StopsInv, NoView
<1>3. NoPendingBeforeEta' /\ NoPendingBeforeNext'
  BY <1>1, StopsAssumption DEF NoPendingBeforeEta, NoPendingBeforeNext, Stop
<1>4. DetailFindsFinal' /\ CompletedShowsArrival'
  BY <1>1 DEF DetailFindsFinal, CompletedShowsArrival
<1> QED BY <1>2, <1>3, <1>4

\* The estimator stores the first pending stop, perhaps late.
LEMMA EstimatorKeepsViews ==
    ASSUME StopsInv, ViewsInv, Estimator \/ ExpireEta, UNCHANGED followed
    PROVE  ViewsInv'
<1> USE DEF ViewsInv
<1>1. UNCHANGED <<vars, vpc, view>>
  BY DEF Estimator, EtaTick, ComputeAndStore, ExpireEta, viewVars
<1>2. DetailFindsFinal' /\ CompletedShowsArrival'
  BY <1>1 DEF DetailFindsFinal, CompletedShowsArrival, FinalRecorded, Visited, vars, losses
<1>3. TypeOK'
  BY <1>1 DEF StopsInv, TypeOK, vars, losses
<1>4. UNCHANGED progress
  BY <1>1 DEF vars
<1>5. CASE EtaTick
  <2>1. PICK s \in Stop : FirstPending(s) /\ next' = s
    BY <1>5 DEF EtaTick
  <2>2. s \in 1..N /\ N \in Nat
    BY StopsAssumption DEF Stop
  <2>3. ViewsTypeOK'
    BY <1>1, <1>3, <1>5, <2>1, <2>2 DEF EtaTick, ViewsTypeOK
  <2>4. NoPendingBeforeNext'
    BY <1>4, <2>1, <2>2 DEF NoPendingBeforeNext, FirstPending, Pending, Stop
  <2>5. NoPendingBeforeEta'
    BY <1>4, <1>5 DEF EtaTick, NoPendingBeforeEta
  <2> QED BY <1>2, <2>3, <2>4, <2>5
<1>6. CASE ComputeAndStore \/ ExpireEta
  <2>1. /\ eta' \in {0, next, eta}
        /\ (epc' = "idle" /\ next' = 0) \/ UNCHANGED <<epc, next>>
    BY <1>6 DEF ComputeAndStore, ExpireEta
  <2>2. ViewsTypeOK'
    BY <1>1, <1>3, <2>1, StopsAssumption DEF ViewsTypeOK
  <2>3. NoPendingBeforeEta' /\ NoPendingBeforeNext'
    BY <1>4, <2>1, StopsAssumption DEF NoPendingBeforeEta, NoPendingBeforeNext, Stop
  <2> QED BY <1>2, <2>2, <2>3
<1> QED BY <1>5, <1>6 DEF Estimator

\* A request reads the status of the trip before the statuses of its stops.
LEMMA RequestKeepsViews ==
    ASSUME StopsInv, ViewsInv, UNCHANGED followed,
           \/ DetailTrip \/ DetailStops \/ DetailAnswer
           \/ PanelTrip \/ PanelStops \/ PanelAnswer
    PROVE  ViewsInv'
<1> USE DEF ViewsInv
<1>1. UNCHANGED <<vars, etaVars>>
  BY DEF DetailTrip, DetailStops, DetailAnswer, PanelTrip, PanelStops, PanelAnswer, Reads
<1>2. NoPendingBeforeEta' /\ NoPendingBeforeNext'
  BY <1>1 DEF NoPendingBeforeEta, NoPendingBeforeNext, vars, etaVars
<1>3. TypeOK' /\ (FinalRecorded => FinalRecorded')
  BY <1>1 DEF StopsInv, TypeOK, FinalRecorded, Visited, vars, losses
<1>4. N \in Stop /\ progress[N] \in Status
  BY StopsAssumption DEF StopsInv, TypeOK, Stop
<1>5. NoView \in [status : {"none", "IN_PROGRESS", "COMPLETED", "CANCELLED"},
                  final : {"none"} \cup Status]
  BY DEF NoView
<1>6. view' \in [status : {"none", "IN_PROGRESS", "COMPLETED", "CANCELLED"},
                 final : {"none"} \cup Status]
  BY <1>4, <1>5 DEF DetailTrip, DetailStops, DetailAnswer, PanelTrip, PanelStops, PanelAnswer,
     ViewsTypeOK, StopsInv, TypeOK
<1>7. vpc' \in {"idle", "detail", "detailAnswer", "panel", "panelAnswer"}
  BY DEF DetailTrip, DetailStops, DetailAnswer, PanelTrip, PanelStops, PanelAnswer, Reads
<1>8. ViewsTypeOK'
  BY <1>1, <1>3, <1>6, <1>7 DEF ViewsTypeOK, etaVars
<1>9. CASE DetailTrip
  <2>1. vpc' = "detail" /\ view'.status = tripStatus /\ view'.final = "none"
    BY <1>9 DEF DetailTrip, Reads, NoView
  <2> QED BY <1>2, <1>3, <1>8, <2>1 DEF DetailFindsFinal, CompletedShowsArrival, StopsInv,
         CompletedAfterFinal
<1>10. CASE DetailStops
  <2>1. /\ vpc = "detail" /\ vpc' = "detailAnswer" /\ view'.status = view.status
        /\ view'.final = progress[N] \/ view' = view
    BY <1>10 DEF DetailStops, Reads, ViewsTypeOK
  <2>2. UNCHANGED <<unmarked, progress>>
    BY <1>1 DEF vars, losses
  <2>3. CompletedShowsArrival'
    BY <2>1, <2>2 DEF DetailFindsFinal, CompletedShowsArrival, FinalRecorded, Visited
  <2>4. DetailFindsFinal'
    BY <2>1 DEF DetailFindsFinal
  <2> QED BY <1>2, <1>8, <2>3, <2>4
<1>11. CASE DetailAnswer \/ PanelTrip \/ PanelStops \/ PanelAnswer
  <2>1. vpc' \in {"idle", "panel", "panelAnswer"}
    BY <1>11 DEF DetailAnswer, PanelTrip, PanelStops, PanelAnswer, Reads
  <2> QED BY <1>2, <1>8, <2>1 DEF DetailFindsFinal, CompletedShowsArrival
<1> QED BY <1>9, <1>10, <1>11

\* Every step preserves the invariant of the readers.
LEMMA ViewsStep ==
    ASSUME StopsInv, StopsInv', ViewsInv, [ViewsNext]_allVars
    PROVE  ViewsInv'
<1>1. CASE UNCHANGED allVars
  <2>1. UNCHANGED <<vars, followed, etaVars, viewVars>>
    BY <1>1 DEF allVars
  <2> QED BY <2>1, DetectorKeepsViews
<1>2. CASE (Detector \/ Cancel) /\ UNCHANGED <<etaVars, viewVars>> /\ UNCHANGED followed
  BY <1>2, DetectorKeepsViews DEF Next
<1> QED BY <1>1, <1>2, RestartKeepsViews, EstimatorKeepsViews, RequestKeepsViews DEF ViewsNext

\* Both invariants hold at any time.
LEMMA ViewsAlways == ViewsSpec => [](StopsInv /\ ViewsInv)
<1>1. ViewsInit => StopsInv
  BY StopsInit DEF ViewsInit
<1>2. ASSUME ViewsInit PROVE ViewsInv
  <2>1. TypeOK
    BY <1>1, <1>2 DEF StopsInv
  <2>2. ViewsTypeOK
    BY <1>2, <2>1, StopsAssumption DEF ViewsInit, ViewsTypeOK, NoView
  <2>3. NoPendingBeforeEta /\ NoPendingBeforeNext
    BY <1>2, StopsAssumption DEF ViewsInit, NoPendingBeforeEta, NoPendingBeforeNext, Stop
  <2>4. DetailFindsFinal /\ CompletedShowsArrival
    BY <1>2 DEF ViewsInit, DetailFindsFinal, CompletedShowsArrival
  <2> QED BY <2>2, <2>3, <2>4 DEF ViewsInv
<1>3. StopsInv /\ ViewsInv /\ [ViewsNext]_allVars => StopsInv' /\ ViewsInv'
  BY ViewsStepIsStopsStep, StopsStep, ViewsStep
<1> QED BY <1>1, <1>2, <1>3, PTL DEF ViewsSpec

\* The jobs and the requests keep to the states and statuses the code has.
THEOREM ViewsTypeCorrect == ViewsSpec => []ViewsTypeOK
<1>1. ViewsInv => ViewsTypeOK
  BY DEF ViewsInv
<1> QED BY <1>1, ViewsAlways, PTL

\* The ETA of a trip is about a stop before which none is pending, although the
\* estimator stores it some time after it chose the stop and the key lives on.
THEOREM EtaIsOfNextStop == ViewsSpec => []NoPendingBeforeEta
<1>1. ViewsInv => NoPendingBeforeEta
  BY DEF ViewsInv
<1> QED BY <1>1, ViewsAlways, PTL

\* A trip detail that says COMPLETED shows the final stop as visited, or an
\* update or a read failed.
THEOREM CompletedDetailShowsArrival == ViewsSpec => []CompletedShowsArrival
<1>1. ViewsInv => CompletedShowsArrival
  BY DEF ViewsInv
<1> QED BY <1>1, ViewsAlways, PTL

=============================================================================
