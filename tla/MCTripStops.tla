---------------------------- MODULE MCTripStops ----------------------------
(***************************************************************************)
(* Instances of TripStops.                                                 *)
(***************************************************************************)
EXTENDS TripStops
=============================================================================
