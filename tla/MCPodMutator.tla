---------------------------- MODULE MCPodMutator ----------------------------
(* An instance of PodMutator for TLC: two containers, one of which has an  *)
(* LD_PRELOAD of its own, and three policies that overlap on a label.      *)
EXTENDS PodMutator

CONSTANTS l1, l2, c1, c2

MCOwn == [c \in Containers |-> IF c = c1 THEN <<"own">> ELSE <<>>]

MCPolicy(selector, enabled, p2p, hbm) ==
  [selector |-> selector, enabled |-> enabled,
   config |-> [p2p |-> p2p, hbm |-> hbm, evalConfig |-> 1]]

MCPolicies ==
  { MCPolicy({l1, l2}, TRUE, 50, 0),
    MCPolicy({l1}, TRUE, 20, 900),
    MCPolicy({l2}, FALSE, 0, 0) }
=============================================================================
