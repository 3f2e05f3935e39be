-------------------------- MODULE MCEventPipeline --------------------------
(* Instances of EventPipeline for TLC: p1 calls often enough to fill its   *)
(* queue, or every buffer of the agent while its main is held up.          *)
EXTENDS EventPipeline

CONSTANTS p1, p2

MCMaxCalls == [p \in Pods |-> IF p = p1 THEN 3 ELSE 1]
=============================================================================
