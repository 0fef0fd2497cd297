------------------------- MODULE MCInferenceAttempts -------------------------
(* Instances of InferenceAttempts for TLC.                                 *)
EXTENDS InferenceAttempts

CONSTANTS a1, a2

(* The attempt may be started again under its id, the command once.        *)
Resubmitted == [a \in {a1, a2} |-> IF a = a1 THEN 2 ELSE 1]

=============================================================================
