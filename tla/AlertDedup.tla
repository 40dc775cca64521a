----------------------------- MODULE AlertDedup -----------------------------
(***************************************************************************)
(* Alert evaluation in the ingestion service.  For every rule a message    *)
(* fires, an evaluator claims the key alert:<vehicle>:<type> in Redis      *)
(* (SET NX with a TTL), inserts a row in vehicle_alerts under an exclusion *)
(* constraint over the same span of time, releases the key when the insert *)
(* failed, and publishes the alert when it did not.                        *)
(*                                                                         *)
(* Redis and the database are two systems: a call can fail without effect, *)
(* or take effect and have its answer lost, and time passes between any    *)
(* two calls.  Evaluators of one process, and of its successor after a     *)
(* crash, interleave freely.                                               *)
(***************************************************************************)
EXTENDS Integers, FiniteSets

CONSTANTS
    Evaluator,   \* evaluator goroutines
    Vehicle,
    Rule,        \* the alert rules, numbered in the order of DefaultAlertRules
    Window,      \* five minutes: the key's TTL and the constraint's interval
    MaxTime,     \* bound: length of a behaviour, in the unit of Window
    MaxCrashes,  \* bound: crashes of the process
    Nobody       \* no evaluator

ASSUME WindowAssumption ==
    Rule \subseteq Nat /\ Window \in Nat \ {0} /\ MaxTime \in Nat /\ MaxCrashes \in Nat
ASSUME NobodyAssumption == Nobody \notin Evaluator

Key == Vehicle \X Rule
Time == 0..MaxTime
None == -1

VARIABLES
    now,       \* the clock both stores read
    pc,        \* where each evaluator is in evaluate
    vehicle,   \* msg.VehicleID of the message it evaluates
    todo,      \* rules that fire for it and are still to be handled
    claimAt,   \* when it made its last claim
    key,       \* when alert:<vehicle>:<type> was set, None when absent
    owner,     \* history: who holds the key, Nobody when it is absent or left behind
    robbed,    \* history: evaluators whose key was deleted while they were at work
    rows,      \* created_at of the rows of vehicle_alerts
    crashes

evalVars == <<pc, vehicle, todo, claimAt>>
keyVars == <<key, owner, robbed>>
vars == <<now, evalVars, keyVars, rows, crashes>>

Init ==
    /\ now = 0 /\ crashes = 0
    /\ pc = [e \in Evaluator |-> "idle"]
    /\ vehicle \in [Evaluator -> Vehicle]
    /\ todo = [e \in Evaluator |-> {}]
    /\ claimAt = [e \in Evaluator |-> 0]
    /\ key = [k \in Key |-> None]
    /\ owner = [k \in Key |-> Nobody] /\ robbed = {}
    /\ rows = [k \in Key |-> {}]

\* The rule the loop of evaluate has reached, and its deduplication key.
Current(e) == CHOOSE r \in todo[e] : \A q \in todo[e] : r <= q
KeyOf(e) == <<vehicle[e], Current(e)>>

\* "continue", or the end of the loop body.
NextRule(e) ==
    /\ todo' = [todo EXCEPT ![e] = @ \ {Current(e)}]
    /\ pc' = [pc EXCEPT ![e] = IF todo[e] = {Current(e)} THEN "idle" ELSE "claim"]
    /\ UNCHANGED vehicle

\* An evaluator between its claim and the end of its insert or release, and
\* one that is not done with its claim yet.
InFlight(e, k) == pc[e] \in {"insert", "release"} /\ KeyOf(e) = k
AtWork(e, k) == pc[e] \in {"insert", "release", "publish"} /\ KeyOf(e) = k

-----------------------------------------------------------------------------
(* The stores                                                              *)

\* Fault: SET without NX.
TryClaimAlertDedupAnyway(k) == key' = [key EXCEPT ![k] = now]

\* SET key 1 NX EX 300; the caller sees whether it was set.
TryClaimAlertDedup(k) == key[k] = None /\ key' = [key EXCEPT ![k] = now]

\* DEL key, whoever has set it.
ReleaseAlertDedup(k) ==
    /\ key' = [key EXCEPT ![k] = None]
    /\ owner' = [owner EXCEPT ![k] = Nobody]
    /\ robbed' = robbed \cup {e \in Evaluator : owner[k] = e /\ AtWork(e, k)}

\* The exclusion constraint: [created_at, created_at + 5 min) may not overlap.
Conflicts(k) == \E t \in rows[k] : now < t + Window

\* INSERT ... ON CONFLICT ON CONSTRAINT ... DO NOTHING.
InsertAlert(k) ==
    rows' = IF Conflicts(k) THEN rows ELSE [rows EXCEPT ![k] = @ \cup {now}]

-----------------------------------------------------------------------------
(* AlertEvaluator                                                          *)

\* Run receives a message that fires some of the rules.
Evaluate(e) ==
    /\ pc[e] = "idle"
    /\ \E v \in Vehicle, fired \in (SUBSET Rule) \ {{}} :
          /\ vehicle' = [vehicle EXCEPT ![e] = v]
          /\ todo' = [todo EXCEPT ![e] = fired]
    /\ pc' = [pc EXCEPT ![e] = "claim"]
    /\ UNCHANGED <<now, claimAt, keyVars, rows, crashes>>

Claim(e) ==
    /\ pc[e] = "claim"
    /\ TryClaimAlertDedup(KeyOf(e))
    /\ owner' = [owner EXCEPT ![KeyOf(e)] = e]
    /\ robbed' = robbed \ {e}
    /\ claimAt' = [claimAt EXCEPT ![e] = now]
    /\ pc' = [pc EXCEPT ![e] = "insert"]
    /\ UNCHANGED <<now, vehicle, todo, rows, crashes>>

\* The key exists, or the call failed without effect: next rule.
NotClaimed(e) ==
    /\ pc[e] = "claim"
    /\ NextRule(e)
    /\ UNCHANGED <<now, claimAt, keyVars, rows, crashes>>

\* The key was set but the caller was told otherwise: an error, or the "false"
\* of a retried command.  It goes on to the next rule.
ClaimAnswerLost(e) ==
    /\ pc[e] = "claim"
    /\ TryClaimAlertDedup(KeyOf(e))
    /\ owner' = [owner EXCEPT ![KeyOf(e)] = Nobody]
    /\ NextRule(e)
    /\ UNCHANGED <<now, claimAt, robbed, rows, crashes>>

InsertOk(e) ==
    /\ pc[e] = "insert"
    /\ InsertAlert(KeyOf(e))
    /\ pc' = [pc EXCEPT ![e] = "publish"]
    /\ UNCHANGED <<now, vehicle, todo, claimAt, keyVars, crashes>>

\* Fault: an error of the insert is logged and the alert published.
InsertFailsUnnoticed(e) ==
    /\ pc[e] = "insert"
    /\ InsertAlert(KeyOf(e)) \/ rows' = rows
    /\ pc' = [pc EXCEPT ![e] = "publish"]
    /\ UNCHANGED <<now, vehicle, todo, claimAt, keyVars, crashes>>

\* The insert reports an error, with or without a row behind it.
InsertFails(e) ==
    /\ pc[e] = "insert"
    /\ InsertAlert(KeyOf(e)) \/ rows' = rows
    /\ pc' = [pc EXCEPT ![e] = "release"]
    /\ UNCHANGED <<now, vehicle, todo, claimAt, keyVars, crashes>>

\* Fault: the claim is not released when the insert failed.
ReleaseSkipped(e) ==
    /\ pc[e] = "release"
    /\ NextRule(e)
    /\ UNCHANGED <<now, claimAt, keyVars, rows, crashes>>

\* The release succeeds, or takes effect although it reports an error.
Release(e) ==
    /\ pc[e] = "release"
    /\ ReleaseAlertDedup(KeyOf(e))
    /\ NextRule(e)
    /\ UNCHANGED <<now, claimAt, rows, crashes>>

\* The answer of the release is lost and the client sends the command again.
ReleaseRetried(e) ==
    /\ pc[e] = "release"
    /\ ReleaseAlertDedup(KeyOf(e))
    /\ UNCHANGED <<now, evalVars, rows, crashes>>

\* The release fails: its error is logged, and a key of its own stays for its TTL.
ReleaseFails(e) ==
    /\ pc[e] = "release"
    /\ owner' = [owner EXCEPT ![KeyOf(e)] = IF @ = e THEN Nobody ELSE @]
    /\ NextRule(e)
    /\ UNCHANGED <<now, claimAt, key, robbed, rows, crashes>>

\* The result of PublishAlert is ignored.
Publish(e) ==
    /\ pc[e] = "publish"
    /\ NextRule(e)
    /\ UNCHANGED <<now, claimAt, keyVars, rows, crashes>>

\* The process dies, and evaluation starts afresh in the next one.
Crash ==
    /\ crashes < MaxCrashes
    /\ crashes' = crashes + 1
    /\ pc' = [e \in Evaluator |-> "idle"]
    /\ todo' = [e \in Evaluator |-> {}]
    /\ owner' = [k \in Key |->
                    IF \E e \in Evaluator : owner[k] = e /\ InFlight(e, k) THEN Nobody ELSE owner[k]]
    /\ UNCHANGED <<now, vehicle, claimAt, key, robbed, rows>>

\* Fault: the key is set without a TTL.
TickWithoutTTL ==
    /\ now < MaxTime
    /\ now' = now + 1
    /\ UNCHANGED <<evalVars, keyVars, rows, crashes>>

\* Time passes, and keys expire when their TTL is over.
Tick ==
    /\ now < MaxTime
    /\ now' = now + 1
    /\ LET expired(k) == key[k] # None /\ now' >= key[k] + Window
       IN /\ key' = [k \in Key |-> IF expired(k) THEN None ELSE key[k]]
          /\ owner' = [k \in Key |-> IF expired(k) THEN Nobody ELSE owner[k]]
    /\ UNCHANGED <<evalVars, robbed, rows, crashes>>

Next ==
    \/ \E e \in Evaluator :
          \/ Evaluate(e) \/ Claim(e) \/ NotClaimed(e) \/ ClaimAnswerLost(e)
          \/ InsertOk(e) \/ InsertFails(e) \/ Release(e) \/ ReleaseRetried(e)
          \/ ReleaseFails(e) \/ Publish(e)
    \/ Crash
    \/ Tick

Spec == Init /\ [][Next]_vars

\* The same without faults: every call does what it was asked and says so.
FaultFreeNext ==
    \/ \E e \in Evaluator :
          \/ Evaluate(e) \/ Claim(e) \/ InsertOk(e) \/ Publish(e)
          \/ NotClaimed(e) /\ key[KeyOf(e)] # None
    \/ Tick

FaultFreeSpec == Init /\ [][FaultFreeNext]_vars
-----------------------------------------------------------------------------
(* Properties                                                              *)

\* The type invariant: an evaluator past "idle" has a rule to handle, a claim
\* is never in the future, and a key never outlives its TTL.
TypeOK ==
    /\ now \in Time /\ crashes \in 0..MaxCrashes
    /\ pc \in [Evaluator -> {"idle", "claim", "insert", "release", "publish"}]
    /\ vehicle \in [Evaluator -> Vehicle]
    /\ todo \in [Evaluator -> SUBSET Rule]
    /\ \A e \in Evaluator : pc[e] # "idle" => todo[e] # {}
    /\ claimAt \in [Evaluator -> 0..now]
    /\ key \in [Key -> 0..now \cup {None}]
    /\ \A k \in Key : key[k] # None => now < key[k] + Window
    /\ owner \in [Key -> Evaluator \cup {Nobody}] /\ robbed \subseteq Evaluator
    /\ rows \in [Key -> SUBSET (0..now)]

\* The claim is exclusive for the whole of the work it is taken for: two evaluators
\* are between claim and publication of one vehicle and type only if the later
\* claimed after the claim of the earlier had expired, or if one of them lost its key
\* to a DEL that was sent for an older claim, or sent again.
ClaimsExclusive ==
    \A k \in Key : \A e, f \in Evaluator :
        e # f /\ AtWork(e, k) /\ AtWork(f, k) /\ claimAt[e] <= claimAt[f] =>
            claimAt[e] + Window <= claimAt[f] \/ e \in robbed \/ f \in robbed

\* A key that suppresses alerts stands for something: an evaluator that is
\* still working on its claim, a row stored less than a window before the
\* claim, or a fault (a lost answer, a failed release or a crash of its owner)
\* that left the key behind.  In particular a failed insert does not suppress the
\* alert once its release went through.
HeldKeyHasRow ==
    \A k \in Key : key[k] # None =>
        \/ owner[k] = Nobody
        \/ \E e \in Evaluator : owner[k] = e /\ InFlight(e, k) /\ claimAt[e] = key[k]
        \/ \E t \in rows[k] : key[k] < t + Window

\* What is published is stored: behind every alert about to be published
\* there is a row that was created less than a window before its claim, or
\* after it.
PublishedIsStored ==
    \A e \in Evaluator : pc[e] = "publish" =>
        \E t \in rows[KeyOf(e)] : claimAt[e] < t + Window

\* init_db.go: the exclusion constraint "exactly matches the Redis TTL" and
\* "permits a legitimate re-alert after five minutes": without faults, a key
\* suppresses alerts only while the window of a stored row is open.
WindowsMatch ==
    \A k \in Key : key[k] # None =>
        \/ \E e \in Evaluator : InFlight(e, k)
        \/ \E t \in rows[k] : now < t + Window
=============================================================================
