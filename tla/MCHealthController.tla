------------------------- MODULE MCHealthController -------------------------
(* Instances of HealthController for TLC. *)
EXTENDS HealthController

CONSTANTS p1, p2

Policy(taint, evict, threshold) ==
  [enableTaint |-> taint, enableEvict |-> evict, threshold |-> threshold]

\* Taint at two unhealthy pods, evict.
MCPair == Policy(TRUE, TRUE, [count |-> 2, percent |-> Unset])

\* Taint at any unhealthy pod, evict.
MCAny  == Policy(TRUE, TRUE, Aggressive)

\* Taint at 60% unhealthy pods, evict.
MCMost == Policy(TRUE, TRUE, [count |-> Unset, percent |-> 60])

MCPairPolicies == {MCPair}
MCAllPair      == [p \in Pods |-> {MCPair}]

MCAnyPolicies  == {MCAny}
MCAllAny       == [p \in Pods |-> {MCAny}]

\* One pod is matched by two policies, the other by none.
MCMixedPolicies == {MCPair, MCMost}
MCMixed         == [p \in Pods |-> IF p = p1 THEN {MCPair, MCMost} ELSE {}]
=============================================================================
