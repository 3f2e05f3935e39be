------------------------- MODULE MCHealthEvaluator -------------------------
(* Instances of HealthEvaluator for TLC. *)
EXTENDS HealthEvaluator

Config(threshold, window, limit) ==
  [threshold |-> threshold, window |-> window, limit |-> limit]

\* The agent's flags tolerate one slow operation in a window of 2 quanta, the
\* policy none in a window of 3 quanta, and by it every operation is slow.
MCDefault == Config(1, 2, 1)
MCPolicy  == {Config(0, 3, 0)}

\* The same with the shortest windows, for the runs whose cost is the clock,
\* and a second policy by which no operation is slow.
MCShortDefault  == Config(1, 1, 0)
MCShortPolicy   == {Config(0, 1, 0)}
MCShortPolicies == {Config(0, 1, 0), Config(2, 1, 0)}
=============================================================================
