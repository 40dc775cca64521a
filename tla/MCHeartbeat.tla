---------------------------- MODULE MCHeartbeat ----------------------------
(***************************************************************************)
(* Instances of Heartbeat.  One unit is ten seconds: the state expires     *)
(* after three.  Heartbeat.cfg has a fleet whose threshold is longer than  *)
(* that, so that the expiry decides, and a default that is shorter, so     *)
(* that the age does after a failed load.  HeartbeatThreshold.cfg has the  *)
(* threshold of 60 s that the schema gives a fleet.                        *)
(***************************************************************************)
EXTENDS Heartbeat
=============================================================================
