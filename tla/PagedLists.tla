----------------------------- MODULE PagedLists -----------------------------
(***************************************************************************)
(* The paged lists of the serving API, and a client who reads one from its *)
(* first page to its last while rows appear and operators work on them:    *)
(* the attention queue, the alert history (of a fleet or a vehicle, with   *)
(* or without the filter on acknowledged) and the list of trips (all, or   *)
(* those of one status).                                                   *)
(*                                                                         *)
(* A request is two statements, COUNT and SELECT ... LIMIT OFFSET, with    *)
(* nothing to hold the table still between them or between two requests.   *)
(* A row is the number of its insertion.  Alerts are stamped when they are *)
(* inserted; departures are planned, come in any order, and may be equal,  *)
(* and then the database returns them in the order it likes.               *)
(***************************************************************************)
EXTENDS Integers, Sequences, FiniteSets

CONSTANTS
    View,          \* the lists that are read
    RawLimit,      \* values of the parameter limit
    DefaultLimit,  \* 50
    MaxLimit,      \* 100
    Departure,     \* times of departure
    MaxRows,       \* bound: rows of the table
    MaxOperations, \* bound: changes of rows
    MaxErrors      \* bound: statements that fail or break off

TripStatus == {"SCHEDULED", "IN_PROGRESS", "COMPLETED", "CANCELLED"}

\* Trips, with or without the filter on status; all others are lists of alerts.
TripList == {"trips"} \cup TripStatus

ASSUME PagesAssumption ==
    /\ View \subseteq {"queue", "history", "acknowledged", "open"} \cup TripList
    /\ RawLimit \subseteq Int /\ Departure \subseteq Nat
    /\ MaxRows \in Nat /\ MaxOperations \in Nat /\ MaxErrors \in Nat
    /\ DefaultLimit \in Nat \ {0} /\ MaxLimit \in Nat /\ DefaultLimit <= MaxLimit

VARIABLES
    rows,     \* vehicle_alerts, or trip, in order of insertion
    list,     \* the list that is read
    raw,      \* the parameter limit of its requests
    page,     \* the page that is asked for
    total,    \* what COUNT returned
    walk,     \* "count", "select": the statement to come; "done", "failed"
    seen,     \* history: rows shown on some page
    stayed,   \* history: rows on the list since the first request
    repeats,  \* history: rows shown again
    entered,  \* history: rows that came on the list
    left,     \* history: rows that left it
    torn,     \* history: rows that the last COUNT has not counted
    cut,      \* history: rows of pages that broke off before them
    operations, errors

listVars == <<list, raw>>
pageVars == <<page, total, walk, seen, repeats, cut>>
pagesVars == <<rows, list, raw, page, total, walk, seen, stayed, repeats,
               entered, left, torn, cut, operations, errors>>

\* What the conditions and the order of the queries look at: the severity
\* (of its ranks, the first and the others), the time, whether
\* acknowledged_at and resolved_at are set, and the status of a trip.
TableRow == [critical : BOOLEAN, at : Nat, acked : BOOLEAN, resolved : BOOLEAN,
             status : TripStatus \cup {"none"}]
NewRow(c, t, s) == [critical |-> c, at |-> t, acked |-> FALSE, resolved |-> FALSE, status |-> s]

-----------------------------------------------------------------------------
(* The queries                                                             *)

\* parsePagination: a limit out of range is replaced by the default.
Limit(n) == IF n > 0 /\ n <= MaxLimit THEN n ELSE DefaultLimit

\* Fault: a last page that is not full is not counted.
PagesRoundedDown(n, limit) == n \div limit

\* NewPagination; the limit is never 0.
Pages(n, limit) == (n + limit - 1) \div limit

\* HandleAttentionQueue: neither acknowledged nor resolved.
InQueue(r) == ~r.acked /\ ~r.resolved

\* HandleFleetAlertHistory: all alerts, or those with acknowledged=true, or =false.
InHistory(r) == list = "history" \/ r.acked = (list = "acknowledged")

\* HandleList: all trips, or those of a status.
InTrips(r) == list = "trips" \/ r.status = list

\* WHERE.  Filters on columns that never change only make the table smaller.
Matching(table) ==
    {i \in DOMAIN table : CASE list = "queue" -> InQueue(table[i])
                            [] list \in TripList -> InTrips(table[i])
                            [] OTHER -> InHistory(table[i])}

\* ORDER BY: the queue ranks by severity, all lists by time.  Rows of the same
\* time come up or down, as this SELECT happens to meet them.
Before(i, j, up) ==
    IF list = "queue" /\ rows[i].critical # rows[j].critical THEN rows[i].critical
    ELSE IF rows[i].at # rows[j].at THEN rows[i].at > rows[j].at
    ELSE IF up THEN i < j ELSE i > j

Offset == (page - 1) * Limit(raw)

\* The first n rows behind OFFSET: those with that many before them.
PageRows(up, n) ==
    {i \in Matching(rows) :
        Cardinality({j \in Matching(rows) : Before(j, i, up)}) \in Offset .. Offset + n - 1}

\* Rows whose place in the list the query leaves open.
Ties == {i \in DOMAIN rows : \E j \in DOMAIN rows : j # i /\ rows[j].at = rows[i].at}

-----------------------------------------------------------------------------
(* The reader                                                              *)

\* The table as the client finds it.  Alerts are numbered by their times, what the
\* list does not look at has one value, and a queue begins with open alerts only.
FirstRows ==
    /\ rows \in UNION {[1..n -> [critical : BOOLEAN, at : Departure \cup 1..MaxRows,
                                 acked : BOOLEAN, resolved : {FALSE},
                                 status : TripStatus \cup {"none"}]] : n \in 0..MaxRows}
    /\ \A i \in DOMAIN rows :
          /\ rows[i].critical => list = "queue"
          /\ rows[i].acked => list \in {"acknowledged", "open"}
          /\ IF list \in TripList
             THEN /\ rows[i].at \in Departure /\ rows[i].status # "none"
                  /\ list = "trips" => rows[i].status = "SCHEDULED"
             ELSE rows[i].at = i /\ rows[i].status = "none"

PagesInit ==
    /\ list \in View /\ raw \in RawLimit
    /\ FirstRows
    /\ page = 1 /\ total = 0 /\ walk = "count"
    /\ seen = {} /\ stayed = Matching(rows)
    /\ repeats = 0 /\ entered = 0 /\ left = 0 /\ torn = 0 /\ cut = 0
    /\ operations = 0 /\ errors = 0

StatementFails == errors < MaxErrors /\ errors' = errors + 1

\* SELECT COUNT(*): an error is ignored and leaves a total of 0, so that no row
\* is counted.
Count ==
    /\ walk = "count"
    /\ \/ total' = Cardinality(Matching(rows)) /\ torn' = 0 /\ UNCHANGED errors
       \/ StatementFails /\ total' = 0 /\ torn' = Cardinality(Matching(rows))
    /\ walk' = "select"
    /\ UNCHANGED <<rows, listVars, page, seen, stayed, repeats, entered, left, cut, operations>>

\* rows.Next and Scan: the answer holds the first n rows of the page.  Without a tie
\* a row is shown in its place, and shown again is a repetition.
Shows(up, n) ==
    /\ seen' = seen \cup PageRows(up, n)
    /\ repeats' = repeats + Cardinality((seen \cap PageRows(up, n)) \ Ties)
    /\ cut' = cut + Cardinality(PageRows(up, Limit(raw)) \ PageRows(up, n))

\* The answer has the number of pages: the reader asks for the next while there is one.
Answer ==
    IF page < Pages(total, Limit(raw))
    THEN walk' = "count" /\ page' = page + 1
    ELSE walk' = "done" /\ UNCHANGED page

\* SELECT.  When it fails the answer is an error; when it breaks off between two rows,
\* or one cannot be scanned, rows.Next ends the loop, nobody asks rows.Err, and the
\* answer is a short page.
Select ==
    /\ walk = "select"
    /\ \/ /\ \E up \in BOOLEAN : Shows(up, Limit(raw))
          /\ Answer /\ UNCHANGED errors
       \/ /\ \E up \in BOOLEAN, n \in 0..(Limit(raw) - 1) : Shows(up, n)
          /\ Answer /\ StatementFails
       \/ StatementFails /\ walk' = "failed" /\ UNCHANGED <<seen, repeats, cut, page>>
    /\ UNCHANGED <<rows, listVars, total, stayed, entered, left, torn, operations>>

-----------------------------------------------------------------------------
(* Everybody else                                                          *)

\* The table changes under the reader; the rest is bookkeeping.
TableChanges(table) ==
    LET came == Matching(table) \ Matching(rows)
    IN  /\ walk \in {"count", "select"}
        /\ rows' = table
        /\ stayed' = stayed \cap Matching(table)
        /\ entered' = entered + Cardinality(came)
        /\ left' = left + Cardinality(Matching(rows) \ Matching(table))
        /\ torn' = torn + (IF walk = "select" THEN Cardinality(came) ELSE 0)
        /\ UNCHANGED <<listVars, pageVars, errors>>

\* An evaluator or the deviation detector inserts an alert.
NewAlert(c) ==
    /\ list \notin TripList /\ Len(rows) < MaxRows
    /\ c => list = "queue"
    /\ TableChanges(Append(rows, NewRow(c, Len(rows) + 1, "none")))
    /\ UNCHANGED operations

\* A trip is planned, or entered when it has begun.
NewTrip(t, s) ==
    /\ list \in TripList /\ Len(rows) < MaxRows
    /\ s = "IN_PROGRESS" => list # "trips"
    /\ TableChanges(Append(rows, NewRow(FALSE, t, s)))
    /\ UNCHANGED operations

\* A row is updated, for a list it can matter to.
Operates(lists) ==
    /\ list \in lists
    /\ operations < MaxOperations /\ operations' = operations + 1

AcknowledgeRow(i) ==
    /\ ~rows[i].acked
    /\ Operates({"queue", "acknowledged", "open"})
    /\ TableChanges([rows EXCEPT ![i].acked = TRUE])

UnacknowledgeRow(i) ==
    /\ rows[i].acked
    /\ Operates({"queue", "acknowledged", "open"})
    /\ TableChanges([rows EXCEPT ![i].acked = FALSE])

\* Of the lists, only the queue looks at resolved_at.
ResolveRow(i) ==
    /\ ~rows[i].resolved
    /\ Operates({"queue"})
    /\ TableChanges([rows EXCEPT ![i].resolved = TRUE])

\* completeTrip: a trip in progress, also when it was cancelled during the tick.
CompleteRow(i) ==
    /\ rows[i].status \in {"IN_PROGRESS", "CANCELLED"}
    /\ Operates(TripStatus)
    /\ TableChanges([rows EXCEPT ![i].status = "COMPLETED"])

\* A trip begins or is cancelled.
ManageRow(i) ==
    /\ Operates(TripStatus)
    /\ \E s \in {"IN_PROGRESS", "CANCELLED"} :
          /\ rows[i].status \in {"SCHEDULED", "IN_PROGRESS"} \ {s}
          /\ TableChanges([rows EXCEPT ![i].status = s])

PagesNext ==
    \/ Count \/ Select
    \/ \E c \in BOOLEAN : NewAlert(c)
    \/ \E t \in Departure, s \in {"SCHEDULED", "IN_PROGRESS"} : NewTrip(t, s)
    \/ \E i \in DOMAIN rows : \/ AcknowledgeRow(i) \/ UnacknowledgeRow(i) \/ ResolveRow(i)
                              \/ CompleteRow(i) \/ ManageRow(i)

PagesSpec == PagesInit /\ [][PagesNext]_pagesVars

-----------------------------------------------------------------------------
(* Properties                                                              *)

\* Whoever reads a list to its last page sees every row that was on it all the time
\* once, but for a reason.  One row is missed for each that left the list meanwhile,
\* for each that the last COUNT has not counted (all, if it failed) and for each that
\* a page broke off before; one is repeated for each that came on the list.  Rows of
\* equal times, which two SELECTs may order differently, may be missed or repeated.
RowsShownOnce ==
    /\ walk = "done" => Cardinality((stayed \ seen) \ Ties) <= left + torn + cut
    /\ repeats <= entered

=============================================================================
