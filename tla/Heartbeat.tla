----------------------------- MODULE Heartbeat -----------------------------
(***************************************************************************)
(* The heartbeat monitor and one vehicle.                                  *)
(*                                                                         *)
(* Ingestion writes vehicle:<id>:state with an expiry; the monitor reads   *)
(* received_at from it, compares its age with the threshold of the fleet   *)
(* and keeps vehicle:<id>:online_status, which nothing else writes.  A     *)
(* change is stored first and broadcast then.  Times are ages in abstract  *)
(* units, saturated at Old.                                                *)
(***************************************************************************)
EXTENDS Integers

CONSTANTS
    Threshold,  \* staleness_threshold_seconds of the fleet
    DefaultThreshold,  \* the threshold when that cannot be loaded
    StateTTL,   \* expiry of the state hash
    MaxDelay,   \* assumption: age of a message when it reaches Redis
    MaxLatency, \* assumption: time between the reads of a check and its end
    MaxFaults   \* bound: failed calls, lost broadcasts and restarts of the monitor

ASSUME HeartbeatAssumption ==
    /\ Threshold \in Nat /\ DefaultThreshold \in Nat /\ StateTTL \in Nat \ {0}
    /\ MaxDelay \in Nat /\ MaxLatency \in Nat /\ MaxFaults \in Nat
    /\ MaxDelay + MaxLatency =< Threshold

Longer(a, b) == IF a < b THEN b ELSE a
Old == Longer(StateTTL, Longer(Threshold, DefaultThreshold)) + 1
NoState == -1

VARIABLES
    silent,   \* age of the newest message, Old before the first one
    recv,     \* age of received_at in the state hash, NoState without one
    ttl,      \* time left before the hash expires
    online,   \* online_status, "none" without the key
    pc,       \* "idle" between checks, "judge" once received_at was read, then
              \* the status that was set and is to be broadcast
    limit,    \* the threshold the check goes by
    got,      \* age of what the check read
    waited,   \* time since the check read it
    quiet,    \* history: age of the newest message at that read, aging since
    told,     \* history: the last status broadcast to the clients
    faults,   \* number of failed calls, lost broadcasts and restarts
    repeats   \* history: broadcasts of what the clients had been told

vars == <<silent, recv, ttl, online, pc, limit, got, waited, quiet, told, faults, repeats>>

\* The status key may be missing, seeded or left by an earlier run.
Init ==
    /\ silent = Old /\ recv = NoState /\ ttl = 0
    /\ online \in {"none", "online", "offline"}
    /\ pc = "idle" /\ limit = Threshold /\ got = NoState /\ waited = 0 /\ quiet = Old
    /\ told = online
    /\ faults = 0 /\ repeats = 0

Older(age) == IF age = NoState \/ age = Old THEN age ELSE age + 1

-----------------------------------------------------------------------------

\* Fault: the hash is written without an expiry.
PipelineStateUpdateOnly(d) ==
    /\ recv' = d
    /\ silent' = IF d < silent THEN d ELSE silent
    /\ UNCHANGED <<ttl, online, pc, limit, got, waited, quiet, told, faults, repeats>>

\* A state writer stores a message received d ago; it may be one that was
\* overtaken by a newer one.
PipelineStateUpdate(d) ==
    /\ recv' = d
    /\ ttl' = StateTTL
    /\ silent' = IF d < silent THEN d ELSE silent
    /\ UNCHANGED <<online, pc, limit, got, waited, quiet, told, faults, repeats>>

\* Time passes; Redis drops the hash when its expiry has run out.
Tick ==
    /\ pc = "judge" => waited < MaxLatency
    /\ waited' = IF pc = "judge" THEN waited + 1 ELSE waited
    /\ silent' = Older(silent)
    /\ ttl' = IF ttl = 0 THEN 0 ELSE ttl - 1
    /\ recv' = IF ttl =< 1 THEN NoState ELSE Older(recv)
    /\ got' = Older(got)
    /\ quiet' = Older(quiet)
    /\ UNCHANGED <<online, pc, limit, told, faults, repeats>>

\* tick loads the thresholds of the fleets; it ignores an error, and the check then
\* goes by the default.
LoadFleetThresholds ==
    \/ limit' = Threshold /\ UNCHANGED faults
    \/ limit' = DefaultThreshold /\ faults < MaxFaults /\ faults' = faults + 1

\* Fault: any error of the read is taken for a missing hash.
CheckFailsAsMissing ==
    /\ pc = "idle"
    /\ LoadFleetThresholds
    /\ got' \in {recv, NoState} /\ waited' = 0 /\ quiet' = silent
    /\ pc' = "judge"
    /\ UNCHANGED <<silent, recv, ttl, online, told, repeats>>

\* check reads received_at.  An error other than redis.Nil ends the check, as if
\* it had not begun.
Check ==
    /\ pc = "idle"
    /\ LoadFleetThresholds
    /\ got' = recv /\ waited' = 0 /\ quiet' = silent
    /\ pc' = "judge"
    /\ UNCHANGED <<silent, recv, ttl, online, told, repeats>>

\* GET of the status and SET of the new one: f calls fail, a failed GET reads like
\* a missing key, a failed SET changes nothing.  Errors are ignored, and the broadcast
\* comes next unless the status read is the new one already.
Publish(status) ==
    \E getFails, setFails \in BOOLEAN :
        LET current == IF getFails THEN "none" ELSE online
            skip    == current = status
            f       == (IF getFails THEN 1 ELSE 0) + (IF setFails THEN 1 ELSE 0)
        IN  /\ faults + f =< MaxFaults
            /\ skip => ~setFails
            /\ faults' = faults + f
            /\ online' = IF skip \/ setFails THEN online ELSE status
            /\ pc' = IF skip THEN "idle" ELSE status
            /\ UNCHANGED <<silent, recv, ttl, limit, got, waited, quiet, told, repeats>>

IsStale == got = NoState \/ got > limit

\* Fault: offline is set and broadcast at every check.
SetOfflineAlways ==
    /\ pc = "judge" /\ IsStale
    /\ online' = "offline" /\ pc' = "offline"
    /\ UNCHANGED <<silent, recv, ttl, limit, got, waited, quiet, told, faults, repeats>>

\* Fault: a vehicle without a state hash is left as it is.
SetOfflineIfStale ==
    /\ pc = "judge" /\ IsStale
    /\ IF got = NoState
       THEN pc' = "idle" /\ UNCHANGED <<silent, recv, ttl, online, limit, got, waited, quiet,
                                        told, faults, repeats>>
       ELSE Publish("offline")

\* The hash is gone or received_at too old.
SetOffline == pc = "judge" /\ IsStale /\ Publish("offline")

\* Fault: only a vehicle known to be offline comes online.
SetOnlineIfOffline ==
    /\ pc = "judge" /\ ~IsStale
    /\ IF online = "offline"
       THEN Publish("online")
       ELSE pc' = "idle" /\ UNCHANGED <<silent, recv, ttl, online, limit, got, waited, quiet,
                                        told, faults, repeats>>

\* The vehicle was heard of within the threshold.
SetOnline == pc = "judge" /\ ~IsStale /\ Publish("online")

\* BroadcastOnline, BroadcastOffline: the clients are told, or the channel of the hub
\* is full and the event is dropped.
Broadcast ==
    /\ pc \in {"online", "offline"}
    /\ \/ /\ told' = pc
          /\ repeats' = IF told = pc THEN repeats + 1 ELSE repeats
          /\ UNCHANGED faults
       \/ /\ faults < MaxFaults /\ faults' = faults + 1
          /\ UNCHANGED <<told, repeats>>
    /\ pc' = "idle"
    /\ UNCHANGED <<silent, recv, ttl, online, limit, got, waited, quiet>>

\* The service ends in the middle of a check and is started again.
Restart ==
    /\ pc # "idle" /\ faults < MaxFaults
    /\ faults' = faults + 1 /\ pc' = "idle"
    /\ UNCHANGED <<silent, recv, ttl, online, limit, got, waited, quiet, told, repeats>>

Monitor == Check \/ SetOffline \/ SetOnline \/ Broadcast

Next == (\E d \in 0..MaxDelay : PipelineStateUpdate(d)) \/ Tick \/ Monitor \/ Restart

Spec == Init /\ [][Next]_vars

\* The job ticks for ever and a check ends.
FairSpec == Spec /\ WF_vars(Monitor)

-----------------------------------------------------------------------------
(* Properties                                                              *)

\* Every variable keeps its type; the hash has a received_at exactly while it
\* has not expired.
TypeOK ==
    /\ silent \in 0..Old /\ quiet \in 0..Old
    /\ recv \in {NoState} \cup 0..Old /\ got \in {NoState} \cup 0..Old
    /\ ttl \in 0..StateTTL /\ (ttl = 0 <=> recv = NoState)
    /\ online \in {"none", "online", "offline"} /\ told \in {"none", "online", "offline"}
    /\ pc \in {"idle", "judge", "online", "offline"} /\ limit \in {Threshold, DefaultThreshold}
    /\ waited \in 0..MaxLatency
    /\ faults \in 0..MaxFaults /\ repeats \in Nat

\* Each change of status is stored and broadcast once.  Between checks, the
\* broadcasts of what the clients had been told already, and one more while they
\* believe another status than the stored one, number at most the calls that
\* failed, the broadcasts that were lost and the restarts: a failed SET costs the
\* disagreement or, once a later check has made up for it, the repetition, never both.
RepeatsAreFaults ==
    repeats + (IF told # online /\ pc \in {"idle", "judge"} THEN 1 ELSE 0) =< faults

\* A vehicle that stays silent beyond the threshold is offline in the end, and
\* stays so.
SilentGoesOffline ==
    <>[](silent > Threshold) => <>[](online = "offline")

\* A vehicle whose state stays fresh is online in the end, and stays so.
FreshGoesOnline ==
    <>[](recv # NoState /\ recv + MaxLatency =< Threshold) => <>[](online = "online")

\* No vehicle is marked offline before its state has had time to expire, or its
\* silence exceeds a threshold less the delay of a message that was written after a
\* newer one: the threshold of its fleet, or the default in a check whose tick could
\* not load that one.
NotOfflineTooEarly ==
    [][online # "offline" /\ online' = "offline" =>
          \/ quiet >= StateTTL
          \/ quiet > Threshold - MaxDelay
          \/ limit # Threshold /\ faults > 0 /\ quiet > DefaultThreshold - MaxDelay]_vars

\* A vehicle is marked offline only when it was silent for longer than the
\* threshold of its fleet.
OfflineOnlyWhenSilent ==
    [][online # "offline" /\ online' = "offline" => quiet > Threshold]_vars

=============================================================================
