---------------------------- MODULE MCDashboard ----------------------------
(***************************************************************************)
(* Instances of Dashboard.                                                 *)
(***************************************************************************)
EXTENDS Dashboard, TLC

CONSTANTS v1, v2, other

MCVehicle == {v1, v2, other}
MCMember == {v1, v2}
MCView == {"queue", "history", "acknowledged", "open", "trips", "IN_PROGRESS"}
MCRawLimit == {1, 4}

\* Requests are alike, and so are the two vehicles of the fleet.
Alike == Permutations(Request) \cup Permutations(MCMember)

=============================================================================
