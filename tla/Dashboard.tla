----------------------------- MODULE Dashboard -----------------------------
(***************************************************************************)
(* The requests of a dashboard: their authentication, a list read page by  *)
(* page, and the summary.  The middleware is done with a request before    *)
(* its handler begins, and the handlers share nothing with it or with each *)
(* other but a database they do not write to.  So it is enough to look at  *)
(* one of the three at a time, with everything that can happen beside it.  *)
(***************************************************************************)
EXTENDS AuthCache, PagedLists, FleetSummary

VARIABLE screen  \* "login", "list" or "summary": what is looked at

dashboardVars == <<screen, vars, pagesVars, summaryVars>>

\* A part that is not looked at begins in one state and stays in it.
LoginAside ==
    /\ redis = [k \in Key |-> NoFleet]
    /\ key = [r \in Request |-> CHOOSE k \in Key : TRUE]
    /\ wanted = [r \in Request |-> CHOOSE f \in Fleet : TRUE]

ListAside ==
    /\ rows = <<>>
    /\ list = CHOOSE l \in View : TRUE
    /\ raw = CHOOSE n \in RawLimit : TRUE

SummaryAside == registered = {} /\ \A v \in Member : hash[v] = NoHash

DashboardInit ==
    /\ screen \in {"login", "list", "summary"}
    /\ screen # "login" => LoginAside
    /\ screen # "list" => ListAside
    /\ Init /\ PagesInit /\ SummaryInit
    /\ screen # "summary" => SummaryAside

DashboardNext ==
    \/ screen = "login" /\ Next /\ UNCHANGED <<screen, pagesVars, summaryVars>>
    \/ screen = "list" /\ PagesNext /\ UNCHANGED <<screen, vars, summaryVars>>
    \/ screen = "summary" /\ SummaryNext /\ UNCHANGED <<screen, vars, pagesVars>>

DashboardSpec == DashboardInit /\ [][DashboardNext]_dashboardVars

=============================================================================
