----------------------------- MODULE TripStops -----------------------------
(***************************************************************************)
(* The stop detector and one trip: the progress of its stops, and its      *)
(* completion.                                                             *)
(*                                                                         *)
(* Trips do not share rows, so one is enough.  Distances are abstracted to *)
(* the set of stops within whose radius the vehicle is.  A tick loads the  *)
(* stops once, reads the position once and then updates stop after stop,   *)
(* each update on its own: it may fail, the service may stop in between,   *)
(* and the trip may be cancelled meanwhile.                                *)
(***************************************************************************)
EXTENDS Integers, FiniteSets

CONSTANTS
    N,          \* number of stops of the route: stop_sequence is 1..N
    Tracked,    \* stops with a row in trip_stop_progress
    MaxFaults,  \* bound: failed calls and restarts
    MaxArrivals \* bound: announcements of one stop

ASSUME StopsAssumption ==
    /\ N \in Nat \ {0} /\ MaxFaults \in Nat /\ MaxArrivals \in Nat
    /\ Tracked \subseteq 1..N

Stop == 1..N
Status == {"PENDING", "ARRIVED", "DEPARTED", "MISSED"}

VARIABLES
    tripStatus,\* trip.status
    progress,  \* trip_stop_progress.status
    pc,        \* control state of the detector
    snap,      \* the statuses loadTripStops returned
    at,        \* the stops the position that was read is near to
    i,         \* the stop the loop is at
    arrivals,  \* how often StopArrived was broadcast
    faults,    \* number of faults
    unmarked,  \* history: how often the mark of an arrival was lost
    unsaid,    \* history: how often its announcement was lost
    incomplete \* history: a completion of the trip was lost

losses == <<faults, unmarked, unsaid, incomplete>>
vars == <<tripStatus, progress, pc, snap, at, i, arrivals, losses>>

Unread == [s \in Stop |-> "PENDING"]

Init ==
    /\ tripStatus = "IN_PROGRESS"
    /\ progress = [s \in Stop |-> "PENDING"]
    /\ pc = "idle"
    /\ snap = Unread /\ at = {} /\ i = 0
    /\ arrivals = [s \in Stop |-> 0]
    /\ faults = 0
    /\ unmarked = [s \in Stop |-> 0] /\ unsaid = [s \in Stop |-> 0]
    /\ incomplete = FALSE

Visited(p) == {s \in Stop : p[s] \in {"ARRIVED", "DEPARTED"}}

\* The tick is over, and with it what it has read.
TickOver == pc' = "idle" /\ i' = 0 /\ snap' = Unread /\ at' = {}

\* The loop goes on, or the tick is over.
NextStop == IF i = N THEN TickOver
                     ELSE pc' = "loop" /\ i' = i + 1 /\ UNCHANGED <<snap, at>>

Fault == faults < MaxFaults /\ faults' = faults + 1

-----------------------------------------------------------------------------
(* StopDetector                                                            *)

\* tick finds the trip among the active ones, or nothing to do.
LoadActiveTrips ==
    /\ pc = "idle"
    /\ pc' = IF tripStatus = "IN_PROGRESS" THEN "stops" ELSE "idle"
    /\ UNCHANGED <<tripStatus, progress, snap, at, i, arrivals, losses>>

\* Fault: a failed query is taken for stops without a row.
LoadTripStopsOrNone ==
    /\ pc = "stops"
    /\ snap' \in {progress, Unread} /\ pc' = "position"
    /\ UNCHANGED <<tripStatus, progress, at, i, arrivals, losses>>

\* loadTripStops; a stop without a row counts as PENDING.  The query may fail.
LoadTripStops ==
    /\ pc = "stops"
    /\ \/ snap' = progress /\ pc' = "position" /\ UNCHANGED <<at, i>>
       \/ TickOver
    /\ UNCHANGED <<tripStatus, progress, arrivals, losses>>

\* The position is read; without one, or if Redis fails, the tick is over.
ReadPosition ==
    /\ pc = "position"
    /\ \/ at' \in SUBSET Stop /\ i' = 1 /\ pc' = "loop" /\ UNCHANGED snap
       \/ TickOver
    /\ UNCHANGED <<tripStatus, progress, arrivals, losses>>

\* Fault: the stops visited are taken from the position.
MaxArrivedSeqFromPosition ==
    IF at = {} THEN 0 ELSE CHOOSE m \in at : \A s \in at : s =< m

\* The last stop that was visited when the tick began, 0 for none.
MaxArrivedSeq ==
    LET v == Visited(snap)
    IN  IF v = {} THEN 0 ELSE CHOOSE m \in v : \A s \in v : s =< m

\* What the switch does with stop s: the new status, or "none".
Verdict(s) ==
    CASE snap[s] = "PENDING" /\ s < MaxArrivedSeq -> "MISSED"
      [] snap[s] = "PENDING" /\ s >= MaxArrivedSeq /\ s \in at -> "ARRIVED"
      [] snap[s] = "ARRIVED" /\ s \notin at -> "DEPARTED"
      [] OTHER -> "none"

\* markStop: the update touches the row if there is one; errors are logged.
MarkStop(s, status) ==
    \/ /\ progress' = [progress EXCEPT ![s] = IF s \in Tracked THEN status ELSE @]
       /\ UNCHANGED losses
    \/ /\ Fault
       /\ unmarked' = [unmarked EXCEPT ![s] = IF status = "ARRIVED" THEN @ + 1 ELSE @]
       /\ UNCHANGED <<progress, unsaid, incomplete>>

\* Fault: the row is written when there is nothing to write.
PassMarksAlways ==
    /\ pc = "loop"
    /\ Verdict(i) # "ARRIVED"
    /\ MarkStop(i, Verdict(i))
    /\ NextStop
    /\ UNCHANGED <<tripStatus, arrivals>>

\* Nothing to do, a missed stop or a departure.
Pass ==
    /\ pc = "loop"
    /\ Verdict(i) # "ARRIVED"
    /\ IF Verdict(i) = "none" THEN UNCHANGED <<progress, losses>>
                              ELSE MarkStop(i, Verdict(i))
    /\ NextStop
    /\ UNCHANGED <<tripStatus, arrivals>>

\* Fault: the arrival is announced and not recorded.
ArriveUnrecorded ==
    /\ pc = "loop"
    /\ Verdict(i) = "ARRIVED"
    /\ pc' = "announce"
    /\ UNCHANGED <<tripStatus, progress, snap, at, i, arrivals, losses>>

\* Arrival: the stop is marked, and announced next whether or not the mark failed.
Arrive ==
    /\ pc = "loop"
    /\ Verdict(i) = "ARRIVED"
    /\ MarkStop(i, "ARRIVED")
    /\ pc' = "announce"
    /\ UNCHANGED <<tripStatus, snap, at, i, arrivals>>

\* BroadcastStopArrived: the clients are told, or the channel of the hub is full and
\* the event is dropped.
Announce ==
    /\ pc = "announce"
    /\ \/ /\ arrivals[i] < MaxArrivals
          /\ arrivals' = [arrivals EXCEPT ![i] = @ + 1]
          /\ UNCHANGED losses
       \/ /\ Fault
          /\ unsaid' = [unsaid EXCEPT ![i] = @ + 1]
          /\ UNCHANGED <<arrivals, unmarked, incomplete>>
    /\ IF i = N THEN pc' = "complete" /\ UNCHANGED <<i, snap, at>> ELSE NextStop
    /\ UNCHANGED <<tripStatus, progress>>

\* Fault: without any call failing, the final stop is at times not taken for it and the
\* trip stays in progress.
CompleteTripUnnoticed ==
    /\ pc = "complete"
    /\ tripStatus' \in {"COMPLETED", tripStatus}
    /\ NextStop
    /\ UNCHANGED <<progress, arrivals, losses>>

\* completeTrip at the final stop, whatever the status of the trip is by then.
CompleteTrip ==
    /\ pc = "complete"
    /\ \/ tripStatus' = "COMPLETED" /\ UNCHANGED losses
       \/ Fault /\ incomplete' = TRUE /\ UNCHANGED <<tripStatus, unmarked, unsaid>>
    /\ NextStop
    /\ UNCHANGED <<progress, arrivals>>

-----------------------------------------------------------------------------
(* The environment                                                         *)

\* The service stops, and starts again, between two calls of a tick.
Restart ==
    /\ pc # "idle"
    /\ Fault
    /\ unsaid' = IF pc = "announce" THEN [unsaid EXCEPT ![i] = @ + 1] ELSE unsaid
    /\ incomplete' = (incomplete \/ pc = "complete" \/ (pc = "announce" /\ i = N))
    /\ TickOver
    /\ UNCHANGED <<tripStatus, progress, arrivals, unmarked>>

\* The trip is cancelled (by who manages trips, not by this repository).
Cancel ==
    /\ tripStatus = "IN_PROGRESS"
    /\ tripStatus' = "CANCELLED"
    /\ UNCHANGED <<progress, pc, snap, at, i, arrivals, losses>>

Detector ==
    \/ LoadActiveTrips \/ LoadTripStops \/ ReadPosition
    \/ Pass \/ Arrive \/ Announce \/ CompleteTrip

Next == Detector \/ Restart \/ Cancel

Spec == Init /\ [][Next]_vars

-----------------------------------------------------------------------------
(* Properties                                                              *)

\* The statuses are the ones the check constraints of the tables allow.
TypeOK ==
    /\ at \subseteq Stop
    /\ tripStatus \in {"IN_PROGRESS", "COMPLETED", "CANCELLED"}
    /\ progress \in [Stop -> Status] /\ snap \in [Stop -> Status]
    /\ pc \in {"idle", "stops", "position", "loop", "announce", "complete"}
    /\ i \in 0..N
    /\ arrivals \in [Stop -> 0..MaxArrivals]
    /\ faults \in 0..MaxFaults
    /\ unmarked \in [Stop -> Nat] /\ unsaid \in [Stop -> Nat] /\ incomplete \in BOOLEAN

\* A stop is MISSED only if a later one was visited: the snapshot a tick works
\* from is never so old that a stop is given up with no later arrival recorded.
MissedWasPassed ==
    \A s \in Stop : progress[s] = "MISSED" => \E v \in Visited(progress) : v > s

\* An arrival at a stop that has a row is announced to the clients once: a
\* recorded arrival never again, by no later tick and after no restart, and one
\* whose recording was lost once each time.  Only announcements that were lost, by a
\* full channel of the hub or a restart after the recording, are missing.
ArrivalsAnnouncedOnce ==
    \A s \in Tracked :
        ~(pc = "announce" /\ i = s) =>
            arrivals[s] + unsaid[s] =
                (IF s \in Visited(progress) THEN 1 ELSE 0) + unmarked[s]

\* A trip whose final stop was reached is not left in progress after the tick,
\* unless exactly its completion was lost: no later tick completes it then,
\* because the stop is not PENDING any more.
ReachedIsCompleted ==
    pc = "idle" /\ N \in Visited(progress) => tripStatus # "IN_PROGRESS" \/ incomplete

\* The order in which a stop passes through its statuses.
Later(a, b) == <<a, b>> \in {<<"PENDING", "ARRIVED">>, <<"PENDING", "MISSED">>,
                             <<"ARRIVED", "DEPARTED">>}

\* markStop and completeTrip overwrite whatever is there, from statuses that were
\* loaded earlier, and undo nothing by it.  A stop only moves forward: no tick,
\* however old its snapshot, lost or cut short the ones before it, makes a
\* departure an arrival again or revives a missed stop.  And a trip cancelled
\* between two ticks stays cancelled; only one cancelled during a tick may be
\* completed by it.
UpdatesUndoNothing ==
    /\ [][\A s \in Stop : progress'[s] # progress[s] => Later(progress[s], progress'[s])]_vars
    /\ [](tripStatus = "CANCELLED" /\ pc = "idle" => [](tripStatus = "CANCELLED"))

\* Missed stops are detected: when a trip is over and no tick is under way, no
\* stop before one that was visited is still PENDING.
MissedStopsDetected ==
    pc = "idle" /\ tripStatus = "COMPLETED" /\ faults = 0 =>
        \A s \in Tracked : \A v \in Visited(progress) : s < v => progress[s] # "PENDING"

=============================================================================
