---------------------------- MODULE RouteAlerts ----------------------------
(***************************************************************************)
(* Route-deviation alerts of one vehicle: the deviation detector, the      *)
(* operators' acknowledge, unacknowledge and resolve requests, and the     *)
(* exclusion constraint and Redis keys between them.                       *)
(*                                                                         *)
(* Vehicles do not share alerts, flags or keys, so one is enough.  Time is *)
(* kept as the age of the rows, up to the window of the exclusion          *)
(* constraint, and the time the dedup keys have left.  A row that is       *)
(* resolved and older than the window has no effect and leaves its slot.   *)
(***************************************************************************)
EXTENDS Integers, FiniteSets

CONSTANTS
    Trip,      \* the trips of the vehicle
    Slot,      \* bound: rows of vehicle_alerts that can have an effect
    Window,    \* five minutes: the exclusion constraint
    KeyTTL,    \* ten minutes: the dedup key of fireAlert
    MaxFaults  \* bound: failed calls

ASSUME RouteAssumption ==
    /\ Window \in Nat \ {0} /\ KeyTTL \in Nat \ {0} /\ MaxFaults \in Nat

\* No row, or the age of the row and the nullable columns of the workflow.
Free == [used |-> FALSE, age |-> 0, acked |-> FALSE, resolved |-> FALSE]
Row == [used : BOOLEAN, age : 0..Window, acked : BOOLEAN, resolved : BOOLEAN]

VARIABLES
    where,    \* per trip: the vehicle is "in" or "out" of the corridor, or
              \* "unknown" (its state has expired)
    active,   \* trips IN_PROGRESS
    flag,     \* vehicle:<id>:deviation: "none", "true" or "false"
    dedup,    \* per trip: time left of deviation:<id>:<trip>, 0 when absent
    alerts,   \* the ROUTE_DEVIATION rows of the vehicle
    todo,     \* trips loaded by the tick that are still to be checked
    pc, trip, \* control state of the detector, and the trip it is at
    faults,   \* number of failed calls
    undone    \* history: a call of the last check failed

dbVars == <<active, alerts>>
redisVars == <<where, flag, dedup>>
jobVars == <<todo, pc, trip>>
vars == <<where, active, flag, dedup, alerts, todo, pc, trip, faults, undone>>

Init ==
    /\ where \in [Trip -> {"in", "out", "unknown"}]
    /\ active = Trip
    /\ flag = "none"
    /\ dedup = [t \in Trip |-> 0]
    /\ alerts = [a \in Slot |-> Free]
    /\ todo = {} /\ pc = "idle"
    /\ trip \in Trip
    /\ faults = 0 /\ undone = FALSE

Open(a) == alerts[a].used /\ ~alerts[a].resolved

\* A call to Redis or to the database goes well, or fails.
Works == UNCHANGED <<faults, undone>>
Fails ==
    /\ faults < MaxFaults
    /\ faults' = faults + 1
    /\ undone' = TRUE

-----------------------------------------------------------------------------
(* DeviationDetector                                                       *)

\* tick: loadActiveTrips.  A trip may end before it is checked.
LoadActiveTrips ==
    /\ pc = "idle" /\ todo = {}
    /\ active # {}
    /\ todo' = active
    /\ UNCHANGED <<redisVars, dbVars, pc, trip, faults, undone>>

\* checkTrip reads the position: without one there is nothing to do.
CheckTrip(t) ==
    /\ pc = "idle" /\ t \in todo
    /\ todo' = todo \ {t}
    /\ trip' = t
    /\ pc' = CASE where[t] = "out" -> "deviates"
               [] where[t] = "in" -> "follows"
               [] where[t] = "unknown" -> "idle"
    /\ undone' = (IF where[t] = "unknown" THEN undone ELSE FALSE)
    /\ UNCHANGED <<redisVars, dbVars, faults>>

\* The flag is set; an error of Redis is not looked at.
SetFlag ==
    /\ pc \in {"deviates", "follows"}
    /\ \/ Works /\ flag' = (IF pc = "deviates" THEN "true" ELSE "false")
       \/ Fails /\ UNCHANGED flag
    /\ pc' = IF pc = "deviates" THEN "claim" ELSE "resolve"
    /\ UNCHANGED <<where, dedup, dbVars, todo, trip>>

\* Fault: the dedup key is set without expiry.
ClaimForEver ==
    /\ pc = "claim"
    /\ \/ /\ Works
          /\ dedup' = [dedup EXCEPT ![trip] = IF @ = 0 THEN KeyTTL + 1 ELSE @]
          /\ pc' = IF dedup[trip] = 0 THEN "insert" ELSE "idle"
       \/ Fails /\ pc' = "idle" /\ UNCHANGED dedup
    /\ UNCHANGED <<where, flag, dbVars, todo, trip>>

\* fireAlert: SETNX of the dedup key; an error counts as not set.
Claim ==
    /\ pc = "claim"
    /\ \/ /\ Works
          /\ dedup' = [dedup EXCEPT ![trip] = IF @ = 0 THEN KeyTTL ELSE @]
          /\ pc' = IF dedup[trip] = 0 THEN "insert" ELSE "idle"
       \/ Fails /\ pc' = "idle" /\ UNCHANGED dedup
    /\ UNCHANGED <<where, flag, dbVars, todo, trip>>

\* The exclusion constraint refuses a row within the window of another one.
Conflict == \E a \in Slot : alerts[a].used /\ alerts[a].age < Window

FreeSlots == {a \in Slot : ~alerts[a].used}

\* fireAlert: the insert.  A conflict and any other error are logged, and the
\* dedup key stays.  Without a free slot the bound of the model is reached.
Insert ==
    /\ pc = "insert"
    /\ pc' = "idle"
    /\ \/ /\ ~Conflict /\ Works
          /\ IF FreeSlots = {} THEN UNCHANGED alerts
             ELSE \E a \in FreeSlots : alerts' = [alerts EXCEPT ![a] = [Free EXCEPT !.used = TRUE]]
       \/ Conflict /\ Works /\ UNCHANGED alerts
       \/ Fails /\ UNCHANGED alerts
    /\ UNCHANGED <<redisVars, active, todo, trip>>

\* Rows that autoResolve updates.
ResolveAll(rows) ==
    alerts' = [a \in Slot |-> IF a \in rows THEN [alerts[a] EXCEPT !.resolved = TRUE]
                                            ELSE alerts[a]]

\* Fault: alerts an operator has acknowledged are not resolved.
AutoResolveUnacknowledged ==
    /\ pc = "resolve"
    /\ \/ Works /\ ResolveAll({a \in Slot : Open(a) /\ ~alerts[a].acked}) /\ pc' = "unclaim"
       \/ Fails /\ UNCHANGED alerts /\ pc' = "idle"
    /\ UNCHANGED <<redisVars, active, todo, trip>>

\* autoResolve: the update; an error leaves the dedup key.
AutoResolve ==
    /\ pc = "resolve"
    /\ \/ Works /\ ResolveAll({a \in Slot : Open(a)}) /\ pc' = "unclaim"
       \/ Fails /\ UNCHANGED alerts /\ pc' = "idle"
    /\ UNCHANGED <<redisVars, active, todo, trip>>

\* autoResolve: the dedup key of this trip is deleted; errors are ignored.
Unclaim ==
    /\ pc = "unclaim"
    /\ pc' = "idle"
    /\ \/ Works /\ dedup' = [dedup EXCEPT ![trip] = 0]
       \/ Fails /\ UNCHANGED dedup
    /\ UNCHANGED <<where, flag, dbVars, todo, trip>>

-----------------------------------------------------------------------------
(* AlertHandler                                                            *)

Acknowledge(a) ==
    /\ alerts[a].used /\ ~alerts[a].acked
    /\ alerts' = [alerts EXCEPT ![a].acked = TRUE]
    /\ UNCHANGED <<redisVars, active, jobVars, faults, undone>>

\* A resolved alert may be unacknowledged, too.
Unacknowledge(a) ==
    /\ alerts[a].used /\ alerts[a].acked
    /\ alerts' = [alerts EXCEPT ![a].acked = FALSE]
    /\ UNCHANGED <<redisVars, active, jobVars, faults, undone>>

Resolve(a) ==
    /\ Open(a)
    /\ alerts' = [alerts EXCEPT ![a].resolved = TRUE]
    /\ UNCHANGED <<redisVars, active, jobVars, faults, undone>>

\* isConditionActive of a ROUTE_DEVIATION alert.
IsConditionActive == flag = "true"

-----------------------------------------------------------------------------
(* The environment                                                         *)

\* The vehicle moves, falls silent or is heard of again.
Move(t) ==
    /\ \E w \in {"in", "out", "unknown"} \ {where[t]} : where' = [where EXCEPT ![t] = w]
    /\ UNCHANGED <<flag, dedup, dbVars, jobVars, faults, undone>>

\* The trip is completed (by the stop detector) or cancelled.
TripEnds(t) ==
    /\ t \in active
    /\ active' = active \ {t}
    /\ UNCHANGED <<redisVars, alerts, jobVars, faults, undone>>

\* Time passes: rows age, keys expire.
Tick ==
    /\ \/ \E t \in Trip : dedup[t] \in 1..KeyTTL
       \/ \E a \in Slot : alerts[a].used /\ (alerts[a].age < Window \/ alerts[a].resolved)
    /\ dedup' = [t \in Trip |-> IF dedup[t] \in 1..KeyTTL THEN dedup[t] - 1 ELSE dedup[t]]
    /\ alerts' = [a \in Slot |->
                    IF ~alerts[a].used THEN alerts[a]
                    ELSE IF alerts[a].age < Window THEN [alerts[a] EXCEPT !.age = @ + 1]
                    ELSE IF alerts[a].resolved THEN Free ELSE alerts[a]]
    /\ UNCHANGED <<where, flag, active, jobVars, faults, undone>>

Detector ==
    \/ LoadActiveTrips \/ \E t \in Trip : CheckTrip(t)
    \/ SetFlag \/ Claim \/ Insert \/ AutoResolve \/ Unclaim

Operator == \E a \in Slot : Acknowledge(a) \/ Unacknowledge(a) \/ Resolve(a)

Next == Detector \/ Operator \/ Tick \/ \E t \in Trip : Move(t) \/ TripEnds(t)

Spec == Init /\ [][Next]_vars

\* The job ticks for ever and each call of it returns; time passes.
FairSpec == Spec /\ WF_vars(Detector) /\ WF_vars(Tick)

-----------------------------------------------------------------------------
(* Properties                                                              *)

\* The flag, the keys and the rows have the values the code gives them.
TypeOK ==
    /\ where \in [Trip -> {"in", "out", "unknown"}]
    /\ active \subseteq Trip /\ todo \subseteq Trip /\ trip \in Trip
    /\ flag \in {"none", "true", "false"}
    /\ dedup \in [Trip -> 0..KeyTTL]
    /\ alerts \in [Slot -> Row]
    /\ pc \in {"idle", "deviates", "follows", "claim", "insert", "resolve", "unclaim"}
    /\ faults \in 0..MaxFaults /\ undone \in BOOLEAN

\* Between two checks, a flag that says the vehicle follows its route means that
\* none of its deviation alerts is open, whatever the operators did to them
\* meanwhile, unless a call of the last check failed.
FollowingHasNoOpenAlert ==
    pc = "idle" /\ flag = "false" /\ ~undone => \A a \in Slot : ~Open(a)

\* A vehicle that stays off the route of an active trip has an open alert again
\* and again: neither the dedup key nor the exclusion constraint, the failures
\* of single calls or operators who resolve too early silence it for ever.
DeviationAlerts ==
    \A t \in Trip : <>[](where[t] = "out" /\ t \in active) => []<>(\E a \in Slot : Open(a))

\* The alerts of a vehicle that is back on its route, on all trips that are
\* active, are resolved in the end, and their condition is not reported any more.
ReturnResolves ==
    <>[](active # {} /\ \A t \in active : where[t] = "in") =>
        <>[](~IsConditionActive /\ \A a \in Slot : ~Open(a))

=============================================================================
