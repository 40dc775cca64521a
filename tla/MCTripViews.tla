---------------------------- MODULE MCTripViews ----------------------------
(***************************************************************************)
(* Instances of TripViews.                                                 *)
(***************************************************************************)
EXTENDS TripViews
=============================================================================
