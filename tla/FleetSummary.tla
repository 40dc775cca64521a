---------------------------- MODULE FleetSummary ----------------------------
(***************************************************************************)
(* GET /analytics/summary: the registry is counted, the state hashes       *)
(* are scanned and read one by one, then alerts and trips are counted,     *)
(* while vehicles come, go and change.                                     *)
(*                                                                         *)
(* Redis promises of SCAN that a key which exists from the first call to   *)
(* the last is returned at least once; it may return a key again, and one  *)
(* that came or went or not.                                               *)
(***************************************************************************)
EXTENDS Integers, FiniteSets

CONSTANTS
    Vehicle,     \* all vehicles
    Member,       \* those of the fleet
    MaxMoves,    \* bound: changes of the state hashes during the request
    MaxRepeats,  \* bound: keys that SCAN returns again
    MaxFailures  \* bound: calls that fail

ASSUME SummaryAssumption ==
    /\ Member \subseteq Vehicle /\ IsFiniteSet(Vehicle)
    /\ MaxMoves \in Nat /\ MaxRepeats \in Nat /\ MaxFailures \in Nat

Class == {"moving", "idle", "parked"}

\* is_moving and engine_on of a state hash, if there is one.
Hash == [moving : BOOLEAN, engine : BOOLEAN]
NoHash == [moving |-> FALSE]

VARIABLES
    hash,        \* vehicle:<id>:state
    registered,  \* vehicles of the fleet in vehicle_registry that are active
    step,        \* "vehicles", "scan", "read", "rest": what is to come; "ok", "error"
    vehicles,    \* total_vehicles
    keys,        \* keys of the last SCAN still to be read
    last,        \* its cursor was 0
    count,       \* how many are moving, idle and parked
    scanned,     \* history: keys returned so far
    again,       \* history: keys returned again
    always,      \* history: vehicles with a hash since the request began
    was,         \* history: per vehicle, the classes it has been in
    moves, failures

summaryVars == <<hash, registered, step, vehicles, keys, last, count, scanned,
                 again, always, was, moves, failures>>
worldVars == <<hash, registered, always, was, moves>>
historyVars == <<scanned, again>>

Live(h) == {v \in Vehicle : h[v] # NoHash}

-----------------------------------------------------------------------------
(* HandleSummary                                                           *)

\* The switch of countLiveStates.  A vehicle that moves counts as moving also with its
\* engine off, which the comment on ActiveMoving ("live + engine on + is_moving =
\* true") leaves out; so would none of its classes have it.
ClassOf(h) ==
    IF h.moving THEN "moving" ELSE IF h.engine THEN "idle" ELSE "parked"

Classes(h, v) == IF h[v] = NoHash THEN {} ELSE {ClassOf(h[v])}

CallFails ==
    /\ failures < MaxFailures
    /\ failures' = failures + 1

\* Vehicles of other fleets only lengthen the scan: it is enough that they are
\* live and stay so.
SummaryInit ==
    /\ hash \in [Vehicle -> Hash \cup {NoHash}]
    /\ \A v \in Vehicle \ Member : hash[v] = [moving |-> TRUE, engine |-> TRUE]
    /\ registered \in SUBSET Member
    /\ step = "vehicles" /\ vehicles = 0
    /\ keys = {} /\ last = FALSE
    /\ count = [c \in Class |-> 0]
    /\ scanned = {} /\ again = 0
    /\ always = Live(hash)
    /\ was = [v \in Vehicle |-> Classes(hash, v)]
    /\ moves = 0 /\ failures = 0

\* SELECT COUNT(*) FROM vehicle_registry.
CountVehicles ==
    /\ step = "vehicles"
    /\ \/ /\ vehicles' = Cardinality(registered)
          /\ step' = "scan"
          /\ UNCHANGED failures
       \/ CallFails /\ step' = "error" /\ UNCHANGED vehicles
    /\ UNCHANGED <<worldVars, historyVars, keys, last, count>>

\* Fault: a scan ends with an empty answer, whatever its cursor.
ScanUntilEmpty ==
    /\ step = "scan"
    /\ \E batch \in SUBSET Live(hash) :
          /\ again + Cardinality(batch \cap scanned) <= MaxRepeats
          /\ scanned' = scanned \cup batch
          /\ again' = again + Cardinality(batch \cap scanned)
          /\ keys' = batch
          /\ last' = (batch = {})
          /\ step' = "read"
    /\ UNCHANGED <<worldVars, vehicles, count, failures>>

\* One call of SCAN.
Scan ==
    /\ step = "scan"
    /\ \/ \E batch \in SUBSET Live(hash), end \in BOOLEAN :
             /\ again + Cardinality(batch \cap scanned) <= MaxRepeats
             /\ end => always \subseteq scanned \cup batch
             /\ scanned' = scanned \cup batch
             /\ again' = again + Cardinality(batch \cap scanned)
             /\ keys' = batch
             /\ last' = end
             /\ step' = "read"
             /\ UNCHANGED failures
       \/ CallFails /\ step' = "error" /\ UNCHANGED <<historyVars, keys, last>>
    /\ UNCHANGED <<worldVars, vehicles, count>>

\* HMGET of a key.  An error, a hash that has expired since the scan and one of
\* another fleet are skipped.
ReadHash(v) ==
    /\ step = "read" /\ v \in keys
    /\ keys' = keys \ {v}
    /\ \/ /\ count' = [c \in Class |->
                         IF v \in Member /\ c \in Classes(hash, v) THEN count[c] + 1 ELSE count[c]]
          /\ UNCHANGED failures
       \/ CallFails /\ UNCHANGED count
    /\ UNCHANGED <<worldVars, historyVars, step, vehicles, last>>

\* The keys are read: the next SCAN, unless the cursor was 0.
BatchDone ==
    /\ step = "read" /\ keys = {}
    /\ step' = IF last THEN "rest" ELSE "scan"
    /\ UNCHANGED <<worldVars, historyVars, vehicles, keys, last, count, failures>>

\* The counts of open alerts and of trips, each of which may fail, and the answer.
CountRest ==
    /\ step = "rest"
    /\ \/ step' = "ok" /\ UNCHANGED failures
       \/ CallFails /\ step' = "error"
    /\ UNCHANGED <<worldVars, historyVars, vehicles, keys, last, count>>

LiveCount == count["moving"] + count["idle"] + count["parked"]

\* offline, which is never negative.
Offline == IF vehicles < LiveCount THEN 0 ELSE vehicles - LiveCount

-----------------------------------------------------------------------------
(* The vehicles                                                            *)

\* A state writer writes the hash of a vehicle, or the hash expires.
HashChanges(v) ==
    /\ step \notin {"ok", "error"} /\ moves < MaxMoves
    /\ \E h \in (Hash \cup {NoHash}) \ {hash[v]} : hash' = [hash EXCEPT ![v] = h]
    /\ always' = always \cap Live(hash')
    /\ was' = [was EXCEPT ![v] = @ \cup Classes(hash', v)]
    /\ moves' = moves + 1
    /\ UNCHANGED <<registered, step, vehicles, keys, last, count, historyVars, failures>>

SummaryNext ==
    \/ CountVehicles \/ Scan \/ BatchDone \/ CountRest
    \/ \E v \in Vehicle : ReadHash(v)
    \/ \E v \in Member : HashChanges(v)

SummarySpec == SummaryInit /\ [][SummaryNext]_summaryVars

-----------------------------------------------------------------------------
(* Properties                                                              *)

\* Vehicles of the fleet that were in class c all the time, or at some time.
Steady(c) == {v \in always \cap Member : was[v] = {c}}
Ever(c) == {v \in Member : c \in was[v]}

\* Every vehicle that was live and in one class of the switch during the request is
\* counted in that class, unless reading its hash failed; and no class has more
\* vehicles than were in it at some time, but for the keys SCAN returned again.  (Which
\* hashes are in which class is the switch's choice, not this property's.)
\* The vehicles reported as offline are at most the registered ones that had no
\* hash for a moment (one more for each failed read), and at least those that
\* had none all the time, less the live vehicles that are not registered and the
\* keys counted again; and they are never less than none.
SummaryCounted ==
    LET ever == {v \in Member : was[v] # {}}
    IN  step = "ok" =>
            /\ \A c \in Class :
                  /\ Cardinality(Steady(c)) <= count[c] + failures
                  /\ count[c] <= Cardinality(Ever(c)) + again
            /\ Offline <= Cardinality(registered \ always) + failures
            /\ Offline >= Cardinality(registered \ ever) - Cardinality(ever \ registered) - again
            /\ Offline >= 0

=============================================================================
