---------------------------- MODULE MCEvaluation ----------------------------
(* Evaluation for TLC: one evaluation, two batch tasks, two item tasks.    *)
EXTENDS Evaluation

CONSTANTS e1, i1, b1, b2, t1, t2

MCEvalOf == [i \in Items |-> e1]

=============================================================================
