------------------------------ MODULE Delivery ------------------------------
(***************************************************************************)
(* What the telemetry pipeline promises for the messages it has answered   *)
(* 202, whatever its channels, batches, workers and failures do: every     *)
(* sink is done with a message at most once, and the database sink         *)
(* accounts for each as written or as failed.  IngestPipeline implements   *)
(* it.                                                                     *)
(***************************************************************************)
EXTENDS Integers, FiniteSets

CONSTANTS
    Sink,   \* where every message goes
    Msg     \* the messages, numbered in the order of their acceptance

VARIABLES
    accepted,  \* how many messages were accepted
    done,      \* per sink: the messages it is done with
    rows,      \* copies of each message in the table
    ok,        \* messages counted as written
    failed     \* messages counted as failed

vars == <<accepted, done, rows, ok, failed>>

Init ==
    /\ accepted = 0
    /\ done = [s \in Sink |-> {}]
    /\ rows = [m \in Msg |-> 0]
    /\ ok = 0 /\ failed = 0

\* What sink s still owes.
Owed(s) == (1..accepted) \ done[s]

Accept ==
    /\ accepted' = accepted + 1
    /\ UNCHANGED <<done, rows, ok, failed>>

\* A sink is done with some of the messages it owes.
Settle(s, M) ==
    /\ M \subseteq Owed(s)
    /\ done' = [done EXCEPT ![s] = @ \cup M]

\* One row more for each message of M.
Insert(M) == rows' = [m \in Msg |-> IF m \in M THEN rows[m] + 1 ELSE rows[m]]

\* The state writers and the alert evaluators finish, with or without success.
Handled(s, M) ==
    /\ s # "db"
    /\ Settle(s, M)
    /\ UNCHANGED <<accepted, rows, ok, failed>>

\* The database sink: rows appear and are counted.
Written(M) ==
    /\ Settle("db", M)
    /\ Insert(M)
    /\ ok' = ok + Cardinality(M)
    /\ UNCHANGED <<accepted, failed>>

\* Rows appear behind an error, only for messages that are still owed.
WrittenUnseen(M) ==
    /\ M \subseteq Owed("db")
    /\ Insert(M)
    /\ UNCHANGED <<accepted, done, ok, failed>>

\* Messages are given up and counted, perhaps in spite of a row.
GivenUp(M) ==
    /\ Settle("db", M)
    /\ Insert(M) \/ UNCHANGED rows
    /\ failed' = failed + Cardinality(M)
    /\ UNCHANGED <<accepted, ok>>

Next ==
    \/ Accept
    \/ \E s \in Sink : \E M \in SUBSET Owed(s) : Handled(s, M)
    \/ \E M \in SUBSET Owed("db") : Written(M) \/ WrittenUnseen(M) \/ GivenUp(M)

Spec == Init /\ [][Next]_vars
=============================================================================
