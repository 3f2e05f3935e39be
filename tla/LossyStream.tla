---------------------------- MODULE LossyStream ----------------------------
(* What the way from ncclAllReduce to the evaluator promises each pod: its *)
(* operations may get lost at any time, in any number, but those that      *)
(* arrive do so once and in the order of the calls.                        *)
EXTENDS Naturals

CONSTANT Pods

VARIABLES
  sent,      \* operations by pod so far
  inFlight,  \* numbers of the operations that may still arrive
  last       \* number of the operation that arrived last, 0 for none

streamVars == <<sent, inFlight, last>>

StreamInit ==
  /\ sent     = [p \in Pods |-> 0]
  /\ inFlight = [p \in Pods |-> {}]
  /\ last     = [p \in Pods |-> 0]

(* An operation enters the stream, or is lost at once. *)
Send(p) ==
  /\ sent' = [sent EXCEPT ![p] = @ + 1]
  /\ \/ inFlight' = [inFlight EXCEPT ![p] = @ \cup {sent[p] + 1}]
     \/ UNCHANGED inFlight
  /\ UNCHANGED last

Deliver(p) ==
  \E n \in inFlight[p] :
    /\ n > last[p] /\ \A m \in inFlight[p] : n <= m
    /\ inFlight' = [inFlight EXCEPT ![p] = @ \ {n}]
    /\ last'     = [last EXCEPT ![p] = n]
    /\ UNCHANGED sent

Lose ==
  /\ \A p \in Pods : inFlight'[p] \subseteq inFlight[p]
  /\ inFlight' = [p \in Pods |-> inFlight'[p]]
  /\ UNCHANGED <<sent, last>>

StreamNext == (\E p \in Pods : Send(p) \/ Deliver(p)) \/ Lose

StreamSpec == StreamInit /\ [][StreamNext]_streamVars
=============================================================================
