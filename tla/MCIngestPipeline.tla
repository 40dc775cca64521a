-------------------------- MODULE MCIngestPipeline --------------------------
(* Finite instances of IngestPipeline.                                     *)
EXTENDS IngestPipeline, TLC

CONSTANTS v1, v2

\* Two messages of one vehicle around one of another.
MCVehicleOf == [m \in Msg |-> IF m = 2 THEN v2 ELSE v1]

\* Workers of a pool are interchangeable.
Workers == Permutations(DBWriter) \cup Permutations(StateWriter)
             \cup Permutations(AlertEvaluator)
=============================================================================
