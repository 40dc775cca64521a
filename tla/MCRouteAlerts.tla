--------------------------- MODULE MCRouteAlerts ---------------------------
(***************************************************************************)
(* Instances of RouteAlerts.                                               *)
(***************************************************************************)
EXTENDS RouteAlerts
=============================================================================
