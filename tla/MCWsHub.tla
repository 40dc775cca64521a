------------------------------ MODULE MCWsHub ------------------------------
(***************************************************************************)
(* Instances of WsHub.                                                     *)
(***************************************************************************)
EXTENDS WsHub

CONSTANT f1

\* All clients belong to one fleet; events may be about others.
OneFleet == [c \in Client |-> f1]
=============================================================================
