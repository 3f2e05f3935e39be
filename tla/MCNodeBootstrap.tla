-------------------------- MODULE MCNodeBootstrap --------------------------
(* Instances of NodeBootstrap for TLC: the GPUs of p1 are healthy and its  *)
(* policy gives no P2P threshold, what p2 may measure passes or fails in   *)
(* every way of the script, and p2 is not restarted.                       *)
EXTENDS NodeBootstrap

CONSTANTS p1, p2

AllTools == {"nvidia-smi", "bandwidthTest", "p2pBandwidthLatencyTest"}

MCLimits == [p \in Pods |-> IF p = p1 THEN [hbm |-> 5, p2p |-> 0] ELSE [hbm |-> 5, p2p |-> 4]]

MCProbes ==
  [p \in Pods |->
     IF p = p1
     THEN {[tools |-> AllTools, hbm |-> {5, 6}, gpus |-> 1, p2p |-> 0],
           [tools |-> AllTools, hbm |-> {5}, gpus |-> 2, p2p |-> 20],
           [tools |-> AllTools \ {"p2pBandwidthLatencyTest"}, hbm |-> {7}, gpus |-> 2, p2p |-> 0]}
     ELSE {[tools |-> AllTools, hbm |-> {4, 5}, gpus |-> 2, p2p |-> 4],
           [tools |-> AllTools, hbm |-> {9}, gpus |-> 2, p2p |-> 3],
           [tools |-> AllTools, hbm |-> {5, 6}, gpus |-> 2, p2p |-> 0],
           [tools |-> AllTools, hbm |-> {0}, gpus |-> 1, p2p |-> 0],
           [tools |-> {}, hbm |-> {}, gpus |-> 0, p2p |-> 0]}]
=============================================================================
