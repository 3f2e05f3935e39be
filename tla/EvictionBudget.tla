--------------------------- MODULE EvictionBudget ---------------------------
(***************************************************************************)
(* What HealthController promises the owners of pods: only a pod that is   *)
(* marked unhealthy is evicted, one at a time, and never so that more than *)
(* one pod, and more than 5% of the pods, of its policies are being        *)
(* evicted together.  There is no cache here, no queue and no worker: an   *)
(* eviction is decided and done in one step.                               *)
(***************************************************************************)
EXTENDS Integers, FiniteSets

CONSTANTS Pods, Matching

VARIABLE phase

Phases == {"healthy", "unhealthy", "evicted", "gone"}

Evicted == {p \in Pods : phase[p] = "evicted"}

(* Of the pods of the policy so many may be away at the same time. *)
Affordable(policy, S) ==
  LET ofPolicy == {p \in Pods : policy \in Matching[p]}
      away     == Cardinality(S \cap ofPolicy)
  IN  away <= 1 \/ 20 * away <= Cardinality(ofPolicy)

Init == phase \in [Pods -> {"healthy", "gone"}]

Move(p, to) == phase' = [phase EXCEPT ![p] = to]

Mark(p) == phase[p] = "healthy" /\ Move(p, "unhealthy")

Evict(p) ==
  /\ phase[p] = "unhealthy"
  /\ \A policy \in Matching[p] : Affordable(policy, Evicted \cup {p})
  /\ Move(p, "evicted")

Leave(p) == phase[p] # "gone" /\ Move(p, "gone")

Next == \E p \in Pods : Mark(p) \/ Evict(p) \/ Leave(p)

Spec == Init /\ [][Next]_phase
=============================================================================
