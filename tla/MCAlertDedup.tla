---------------------------- MODULE MCAlertDedup ----------------------------
(* Instances of AlertDedup for TLC: evaluators are interchangeable.        *)
EXTENDS AlertDedup, TLC

Evaluators == Permutations(Evaluator)
=============================================================================
