----------------------------- MODULE TripViews -----------------------------
(***************************************************************************)
(* One trip as its readers see it: TripStops, the ETA estimator that runs  *)
(* beside the stop detector, and the two handlers that assemble an answer  *)
(* from several reads, the trip detail and the trip section of the vehicle *)
(* panel.  Between any two reads the jobs go on, and no transaction or     *)
(* lock spans them.                                                        *)
(*                                                                         *)
(* An ETA is the stop it was computed for; its time of day is left out.    *)
(* The estimator does not look at requests, and a request only copies the  *)
(* ETA into its answer, so a behaviour follows one or the other.           *)
(***************************************************************************)
EXTENDS TripStops

VARIABLES
    followed, \* "estimator" or "request"
    eta,      \* the stop trip:<id>:eta is about, 0 without the key
    epc,      \* control state of the estimator
    next,     \* the stop its tick has chosen, 0 in between
    vpc,      \* what the handler reads next, "idle" without a request
    view      \* what it has read so far

etaVars == <<eta, epc, next>>
viewVars == <<vpc, view>>
allVars == <<followed, vars, etaVars, viewVars>>

\* Of the stops the answer lists, the final one is enough here.
NoView == [status |-> "none", final |-> "none"]

ViewsInit ==
    /\ Init
    /\ followed \in {"estimator", "request"}
    /\ eta = 0 /\ epc = "idle" /\ next = 0
    /\ vpc = "idle" /\ view = NoView

-----------------------------------------------------------------------------
(* ETAEstimator                                                            *)

Pending == {s \in Stop : progress[s] = "PENDING"}

\* Fault: the query does not order the stops.
FirstPendingUnordered(s) == s \in Pending

\* The first row of the trip in the order of the query.
FirstPending(s) == s \in Pending /\ \A p \in Pending : s =< p

\* tick: trips in progress that still have a pending stop.  A failed query ends
\* the tick as if it had not begun.
EtaTick ==
    /\ followed = "estimator"
    /\ epc = "idle" /\ tripStatus = "IN_PROGRESS"
    /\ \E s \in Stop : FirstPending(s) /\ next' = s
    /\ epc' = "compute"
    /\ UNCHANGED <<vars, eta, viewVars>>

\* computeAndStore: the key is set with a new expiry, unless the vehicle has no
\* position or a call fails.
ComputeAndStore ==
    /\ epc = "compute"
    /\ eta' \in {next, eta}
    /\ epc' = "idle" /\ next' = 0
    /\ UNCHANGED <<vars, viewVars>>

\* Fault: the key is set without an expiry.
EtaStays ==
    /\ eta # 0 /\ tripStatus = "IN_PROGRESS"
    /\ eta' = 0
    /\ UNCHANGED <<vars, epc, next, viewVars>>

\* Ten minutes after it was set last, the key is gone.
ExpireEta ==
    /\ eta # 0
    /\ eta' = 0
    /\ UNCHANGED <<vars, epc, next, viewVars>>

-----------------------------------------------------------------------------
(* TripHandler.HandleDetail and VehicleHandler.HandlePanel                 *)

\* One read after another, with the jobs in between.
Reads(from, to) == vpc = from /\ vpc' = to /\ UNCHANGED <<vars, etaVars>>

\* HandleDetail: the row of the trip, whatever its status.
DetailTrip ==
    /\ followed = "request" /\ Reads("idle", "detail")
    /\ view' = [NoView EXCEPT !.status = tripStatus]

\* The stops of the route; if the query fails the list stays empty.
DetailStops ==
    /\ Reads("detail", "detailAnswer")
    /\ view' \in {[view EXCEPT !.final = progress[N]], view}

\* ETA and deviation flag are read, and the answer is written.
DetailAnswer ==
    /\ Reads("detailAnswer", "idle")
    /\ view' = NoView

\* HandlePanel: the trip in progress, if there is one.
PanelTrip ==
    /\ followed = "request" /\ tripStatus = "IN_PROGRESS"
    /\ Reads("idle", "panel")
    /\ view' = [NoView EXCEPT !.status = tripStatus]

\* Its stops, as in the detail.
PanelStops ==
    /\ Reads("panel", "panelAnswer")
    /\ view' \in {[view EXCEPT !.final = progress[N]], view}

\* Deviation flag and ETA are read, and the section is complete.
PanelAnswer ==
    /\ Reads("panelAnswer", "idle")
    /\ view' = NoView

-----------------------------------------------------------------------------

\* The jobs and the handlers are one process.
RestartAll ==
    /\ Restart
    /\ epc' = "idle" /\ next' = 0
    /\ vpc' = "idle" /\ view' = NoView
    /\ UNCHANGED eta

Estimator == EtaTick \/ ComputeAndStore

ViewsNext ==
    /\ \/ (Detector \/ Cancel) /\ UNCHANGED <<etaVars, viewVars>>
       \/ RestartAll
       \/ Estimator \/ ExpireEta
       \/ DetailTrip \/ DetailStops \/ DetailAnswer
       \/ PanelTrip \/ PanelStops \/ PanelAnswer
    /\ UNCHANGED followed

ViewsSpec == ViewsInit /\ [][ViewsNext]_allVars

\* The detector's ticks go on and end, a tick of the estimator ends, and a key
\* that nobody renews expires.
ViewsFairness ==
    /\ WF_allVars(Detector /\ UNCHANGED <<followed, etaVars, viewVars>>)
    /\ WF_allVars(ComputeAndStore /\ UNCHANGED followed)
    /\ WF_allVars(tripStatus # "IN_PROGRESS" /\ epc = "idle" /\ ExpireEta /\ UNCHANGED followed)

ViewsFairSpec == ViewsSpec /\ ViewsFairness

-----------------------------------------------------------------------------
(* Properties                                                              *)

\* The estimator and a request have the states and the data their code gives
\* them, and what a request shows are statuses of the trip and of its stops.
ViewsTypeOK ==
    /\ TypeOK
    /\ followed \in {"estimator", "request"}
    /\ {eta, next} \subseteq 0..N /\ epc \in {"idle", "compute"}
    /\ epc = "compute" <=> next # 0
    /\ vpc \in {"idle", "detail", "detailAnswer", "panel", "panelAnswer"}
    /\ view \in [status : {"none", "IN_PROGRESS", "COMPLETED", "CANCELLED"},
                  final : {"none"} \cup Status]

\* No stop before the one an ETA was computed for is still pending, however long
\* ago that was and whatever the stop detector did since: the estimator's choice
\* of the first pending stop is never undone.
NoPendingBeforeEta ==
    \A s \in Stop : s < eta => progress[s] # "PENDING"

\* A trip detail that says COMPLETED shows the final stop as visited, because it
\* reads the stops after the status, in the order opposite to the detector's
\* writes; only a lost update of that stop, or a failed read, makes an exception.
CompletedShowsArrival ==
    vpc = "detailAnswer" /\ view.status = "COMPLETED" =>
        \/ view.final \in {"ARRIVED", "DEPARTED", "none"} \/ N \notin Tracked
        \/ unmarked[N] > 0

\* Once a trip has ended, its ETA disappears for good, although nothing deletes
\* the key and a tick of the estimator may renew it after the end.
EtaOfEndedTripGoes ==
    <>[](tripStatus # "IN_PROGRESS") => <>[](eta = 0)

=============================================================================
