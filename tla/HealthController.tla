-------------------------- MODULE HealthController --------------------------
(***************************************************************************)
(* The operator's HealthController                                         *)
(* (operator/internal/controller/health_controller.go): one reconcile      *)
(* worker that taints nodes and evicts pods by the health annotation the   *)
(* agents write.                                                           *)
(*                                                                         *)
(* It reads pods and nodes from informer caches and writes to the API      *)
(* server.  A watch delivers every change of its kind in order, so a cache *)
(* is a past state of the server: podViews and nodeViews are the states    *)
(* the cache has not caught up with, the cache first, the server's current *)
(* state last.  Policies are read from a cache too but are constant here.  *)
(***************************************************************************)
EXTENDS Integers, Sequences, FiniteSets

CONSTANTS
  Pods, Nodes,
  Policies,        \* the ComputeSentryPolicy specs
  Matching,        \* the policies whose selector matches a pod's labels
  NoPod, NoNode, NoPolicy, Aggressive, Unset,
  MaxLag,          \* bound: changes of the cluster a cache may be behind
  ApiMayFail,      \* writes to the API server may fail
  VerdictMayLift,  \* an agent may mark an unhealthy pod healthy
  PodsMayReturn,   \* a pod may be created, also under the name of an earlier one
  OthersMayTaint,  \* other controllers may write the taints of a node
  OperatorMayRestart

(* NodeTaintThreshold: nil (Aggressive), or a count and a percentage, each *)
(* of which may be nil (Unset).                                            *)
Thresholds == {Aggressive} \cup [count : Nat \cup {Unset}, percent : Nat \cup {Unset}]

ASSUME PolicyAssumption ==
  /\ Policies \subseteq [enableTaint : BOOLEAN, enableEvict : BOOLEAN, threshold : Thresholds]
  /\ Matching \in [Pods -> SUBSET Policies]
  /\ NoPolicy \notin Policies
  /\ MaxLag \in Nat \ {0}

Taints == {"ours", "other"}

(* A pod as far as the controller tells pods apart: any annotation but     *)
(* "unhealthy", and none, count as healthy.                                *)
Pod == [node : Nodes \cup {NoNode}, unhealthy : BOOLEAN, terminating : BOOLEAN]

ASSUME PodAssumption == NoPod \notin Pod /\ NoNode \notin Nodes

VARIABLES
  podViews,   \* pods: cache, changes under way, API server
  nodeViews,  \* taints by node: the same
  queue,      \* workqueue: requests ready to be reconciled
  delayed,    \* workqueue: requests added with a delay or a backoff
  worker,     \* the reconcile under way
  everMet     \* ghost: nodes whose pods met the threshold of some policy at some time

vars == <<podViews, nodeViews, queue, delayed, worker, everMet>>

podCache  == podViews[1]
pods      == podViews[Len(podViews)]
nodeCache == nodeViews[1]
taints    == nodeViews[Len(nodeViews)]

Steps == {"release", "decide", "taint", "untaint", "throttle", "evict"}

BoundPod == {pod \in Pod : pod.node # NoNode}

Reconcile ==
  [step : Steps, pod : Pods, snapshot : BoundPod, policy : Policies \cup {NoPolicy}]

Idle == [step |-> "idle"]

TypeOK ==
  /\ podViews  \in Seq([Pods -> Pod \cup {NoPod}]) /\ podViews # <<>>
  /\ nodeViews \in Seq([Nodes -> SUBSET Taints])   /\ nodeViews # <<>>
  /\ queue \in SUBSET Pods /\ delayed \in SUBSET Pods
  /\ worker \in Reconcile \cup {Idle}
  /\ everMet \in SUBSET Nodes
-----------------------------------------------------------------------------
(* evaluateNodeTaintDecision and checkEvictionThrottling, as functions of  *)
(* a state of the pods.                                                    *)

(* Mutant: pods without a node are not sorted out. *)
BoundOrPending(view, p) == view[p] # NoPod

Bound(view, p) == view[p] # NoPod /\ view[p].node # NoNode

(* getNodePodsHealthStatus *)
PodsOn(view, n)      == {p \in Pods : view[p] # NoPod /\ view[p].node = n}
UnhealthyOn(view, n) == {p \in PodsOn(view, n) : view[p].unhealthy}

shouldTaint(view, n, threshold) ==
  LET total == Cardinality(PodsOn(view, n))
      bad   == Cardinality(UnhealthyOn(view, n))
  IN  IF threshold = Aggressive
      THEN bad > 0
      ELSE \/ threshold.count # Unset /\ bad >= threshold.count
           \/ threshold.percent # Unset /\ total > 0 /\ 100 * bad >= threshold.percent * total

(* Mutant: one unhealthy pod throttles itself. *)
throttledByOne(view, policy) ==
  LET matching == {p \in Pods : view[p] # NoPod /\ policy \in Matching[p]}
      bad      == {p \in matching : view[p].unhealthy}
  IN  20 * Cardinality(bad) > Cardinality(matching)

(* Mutant: only more than two unhealthy pods throttle. *)
throttledAboveTwo(view, policy) ==
  LET matching == {p \in Pods : view[p] # NoPod /\ policy \in Matching[p]}
      bad      == {p \in matching : view[p].unhealthy}
  IN  20 * Cardinality(bad) > Cardinality(matching) /\ Cardinality(bad) > 2

throttled(view, policy) ==
  LET matching == {p \in Pods : view[p] # NoPod /\ policy \in Matching[p]}
      bad      == {p \in matching : view[p].unhealthy}
  IN  20 * Cardinality(bad) > Cardinality(matching) /\ Cardinality(bad) > 1

(* The first match of a listing whose order the cache does not define. *)
findMatchingPolicy(p) == IF Matching[p] = {} THEN {NoPolicy} ELSE Matching[p]

TaintEnabled(policy) == policy # NoPolicy /\ policy.enableTaint

(* The pods of the node meet the threshold of some policy. *)
ThresholdMet(view, n) ==
  \E policy \in Policies :
    policy.enableTaint /\ shouldTaint(view, n, policy.threshold)
-----------------------------------------------------------------------------
(* API server *)

WritePod(p, value) ==
  LET view == [pods EXCEPT ![p] = value]
  IN  /\ podViews' = IF view = pods THEN podViews ELSE Append(podViews, view)
      /\ everMet'  = everMet \cup {n \in Nodes : ThresholdMet(view, n)}

(* A merge patch of spec.taints replaces the whole list. *)
WriteTaints(n, list) ==
  LET view == [taints EXCEPT ![n] = list]
  IN  nodeViews' = IF view = taints THEN nodeViews ELSE Append(nodeViews, view)

(* The operator starts in a cluster of healthy pods, lists them and        *)
(* reconciles each.                                                        *)
Init ==
  /\ \E view \in [Pods -> {NoPod} \cup {pod \in Pod : ~pod.unhealthy /\ ~pod.terminating}] :
       /\ podViews = <<view>>
       /\ queue    = {p \in Pods : view[p] # NoPod}
       /\ everMet  = {n \in Nodes : ThresholdMet(view, n)}
  /\ nodeViews = <<[n \in Nodes |-> {}]>>
  /\ delayed = {}
  /\ worker = Idle

(* Mutant: only pods that are unhealthy now are worth a reconcile. *)
DeliverUnhealthyPods ==
  /\ Len(podViews) > 1
  /\ podViews' = Tail(podViews)
  /\ queue' = queue \cup {p \in Pods : podViews[1][p] # podViews[2][p]
                                        /\ podViews[2][p] # NoPod /\ podViews[2][p].unhealthy}
  /\ UNCHANGED <<nodeViews, delayed, worker, everMet>>

(* For(&corev1.Pod{}): the request of a pod is queued when the cache takes *)
(* in its creation, change or deletion.                                    *)
DeliverPods ==
  /\ Len(podViews) > 1
  /\ podViews' = Tail(podViews)
  /\ queue' = queue \cup {p \in Pods : podViews[1][p] # podViews[2][p]}
  /\ UNCHANGED <<nodeViews, delayed, worker, everMet>>

DeliverNodes ==
  /\ Len(nodeViews) > 1
  /\ nodeViews' = Tail(nodeViews)
  /\ UNCHANGED <<podViews, queue, delayed, worker, everMet>>

RequeueTimer(p) ==
  /\ p \in delayed
  /\ delayed' = delayed \ {p}
  /\ queue'   = queue \cup {p}
  /\ UNCHANGED <<podViews, nodeViews, worker, everMet>>
-----------------------------------------------------------------------------
(* Reconcile, one step for each read of a cache or write to the server *)

Done == worker' = Idle

(* Mutant: the error is logged and not returned. *)
ForgetRequest == worker' = Idle /\ UNCHANGED delayed

(* An error or a RequeueAfter: the request comes back later. *)
Requeue == worker' = Idle /\ delayed' = delayed \cup {worker.pod}

GoTo(step) == worker' = [worker EXCEPT !.step = step]

(* Lines 46-83: the pod and its policy. *)
StartReconcile(p) ==
  /\ worker = Idle
  /\ p \in queue
  /\ queue' = queue \ {p}
  /\ \/ /\ ~Bound(podCache, p)
        /\ Done
     \/ /\ Bound(podCache, p)
        /\ \E policy \in findMatchingPolicy(p) :
             worker' = [step     |-> IF TaintEnabled(policy) THEN "decide" ELSE "release",
                        pod      |-> p,
                        snapshot |-> podCache[p],
                        policy   |-> policy]
  /\ UNCHANGED <<podViews, nodeViews, delayed, everMet>>

NodeOf == worker.snapshot.node

(* untaintNodeIfTaintedByUs *)
ReleaseNode ==
  /\ worker.step = "release"
  /\ IF "ours" \in nodeCache[NodeOf] THEN GoTo("untaint") ELSE Done
  /\ UNCHANGED <<podViews, nodeViews, queue, delayed, everMet>>

(* Mutant: nodeTaintThreshold is ignored. *)
ThresholdIgnored == Aggressive

ThresholdInForce == worker.policy.threshold

(* evaluateNodeTaintDecision *)
DecideTaint ==
  /\ worker.step = "decide"
  /\ LET met     == shouldTaint(podCache, NodeOf, ThresholdInForce)
         tainted == "ours" \in nodeCache[NodeOf]
     IN  GoTo(IF met = tainted THEN "throttle" ELSE IF met THEN "taint" ELSE "untaint")
  /\ UNCHANGED <<podViews, nodeViews, queue, delayed, everMet>>

(* Lines 107-124 come after the taint decision only. *)
NodeDone == IF TaintEnabled(worker.policy) THEN GoTo("throttle") ELSE Done

(* taintNode: the taint is appended to the list as cached. *)
TaintNode ==
  /\ worker.step = "taint"
  /\ \/ /\ "ours" \in nodeCache[NodeOf]
        /\ NodeDone
        /\ UNCHANGED nodeViews
     \/ /\ "ours" \notin nodeCache[NodeOf]
        /\ WriteTaints(NodeOf, nodeCache[NodeOf] \cup {"ours"})
        /\ NodeDone
  /\ UNCHANGED <<podViews, queue, delayed, everMet>>

(* untaintNode: line 252 sends the difference from the copy without the    *)
(* taint to the node as cached, that is the cached list, our taint in it.  *)
UntaintedList(n) == nodeCache[n]

UntaintNode ==
  /\ worker.step = "untaint"
  /\ \/ /\ "ours" \notin nodeCache[NodeOf]
        /\ NodeDone
        /\ UNCHANGED nodeViews
     \/ /\ "ours" \in nodeCache[NodeOf]
        /\ WriteTaints(NodeOf, UntaintedList(NodeOf))
        /\ NodeDone
  /\ UNCHANGED <<podViews, queue, delayed, everMet>>

(* Mutant: the reconcile of any pod goes on to the eviction. *)
CheckThrottlingOfAnyPod ==
  /\ worker.step = "throttle"
  /\ \/ /\ ~worker.policy.enableEvict
        /\ Done
        /\ UNCHANGED delayed
     \/ /\ worker.policy.enableEvict
        /\ IF throttled(podCache, worker.policy) THEN Requeue ELSE GoTo("evict") /\ UNCHANGED delayed
  /\ UNCHANGED <<podViews, nodeViews, queue, everMet>>

(* Lines 109-115. *)
CheckThrottling ==
  /\ worker.step = "throttle"
  /\ \/ /\ ~(worker.snapshot.unhealthy /\ worker.policy.enableEvict)
        /\ Done
        /\ UNCHANGED delayed
     \/ /\ worker.snapshot.unhealthy /\ worker.policy.enableEvict
        /\ IF throttled(podCache, worker.policy) THEN Requeue ELSE GoTo("evict") /\ UNCHANGED delayed
  /\ UNCHANGED <<podViews, nodeViews, queue, everMet>>

(* evictPod: the Eviction API, addressed by name; the evicted pod runs on  *)
(* until its grace period ends.                                            *)
EvictPod ==
  /\ worker.step = "evict"
  /\ \/ /\ pods[worker.pod] # NoPod
        /\ WritePod(worker.pod, [pods[worker.pod] EXCEPT !.terminating = TRUE])
        /\ Done
        /\ UNCHANGED delayed
     \/ /\ pods[worker.pod] = NoPod          \* the API answers 404
        /\ Requeue
        /\ UNCHANGED <<podViews, everMet>>
  /\ UNCHANGED <<nodeViews, queue>>

(* A patch or an eviction fails; the error makes the workqueue retry. *)
RequestFails ==
  /\ ApiMayFail
  /\ \/ worker.step = "taint"   /\ "ours" \notin nodeCache[NodeOf]
     \/ worker.step = "untaint" /\ "ours" \in nodeCache[NodeOf]
     \/ worker.step = "evict"
  /\ Requeue
  /\ UNCHANGED <<podViews, nodeViews, queue, everMet>>

(* The operator starts again: it lists pods and nodes and reconciles every *)
(* pod.                                                                    *)
OperatorRestart ==
  /\ OperatorMayRestart
  /\ podViews'  = <<pods>>
  /\ nodeViews' = <<taints>>
  /\ queue' = {p \in Pods : pods[p] # NoPod} /\ delayed' = {}
  /\ worker' = Idle
  /\ UNCHANGED everMet
-----------------------------------------------------------------------------
(* The cluster around the controller.  It waits for a cache that is MaxLag *)
(* changes behind; the writes of the controller itself never wait.         *)

CreatePod(p) ==
  /\ PodsMayReturn
  /\ Len(podViews) <= MaxLag /\ pods[p] = NoPod
  /\ WritePod(p, [node |-> NoNode, unhealthy |-> FALSE, terminating |-> FALSE])
  /\ UNCHANGED <<nodeViews, queue, delayed, worker>>

(* The scheduler respects the NoSchedule taint. *)
BindPod(p, n) ==
  /\ Len(podViews) <= MaxLag
  /\ pods[p] # NoPod /\ pods[p].node = NoNode
  /\ "ours" \notin taints[n]
  /\ WritePod(p, [pods[p] EXCEPT !.node = n])
  /\ UNCHANGED <<nodeViews, queue, delayed, worker>>

(* markPodStatus of the agent on the pod's node. *)
AgentMarks(p, unhealthy) ==
  /\ Len(podViews) <= MaxLag /\ Bound(pods, p)
  /\ pods[p].unhealthy # unhealthy
  /\ unhealthy \/ VerdictMayLift
  /\ WritePod(p, [pods[p] EXCEPT !.unhealthy = unhealthy])
  /\ UNCHANGED <<nodeViews, queue, delayed, worker>>

(* The pod is gone: its grace period ended, or somebody deleted it. *)
RemovePod(p) ==
  /\ Len(podViews) <= MaxLag /\ pods[p] # NoPod
  /\ WritePod(p, NoPod)
  /\ UNCHANGED <<nodeViews, queue, delayed, worker>>

OtherTaints(n) ==
  /\ OthersMayTaint /\ Len(nodeViews) <= MaxLag
  /\ \/ WriteTaints(n, taints[n] \cup {"other"})
     \/ WriteTaints(n, taints[n] \ {"other"})
  /\ UNCHANGED <<podViews, queue, delayed, worker, everMet>>
-----------------------------------------------------------------------------
Controller ==
  \/ \E p \in Pods : StartReconcile(p)
  \/ ReleaseNode \/ DecideTaint \/ TaintNode \/ UntaintNode
  \/ CheckThrottling \/ EvictPod \/ RequestFails

Next ==
  \/ Controller
  \/ DeliverPods \/ DeliverNodes
  \/ \E p \in Pods : RequeueTimer(p)
  \/ OperatorRestart
  \/ \E p \in Pods : CreatePod(p) \/ RemovePod(p)
  \/ \E p \in Pods, n \in Nodes : BindPod(p, n)
  \/ \E p \in Pods, u \in BOOLEAN : AgentMarks(p, u)
  \/ \E n \in Nodes : OtherTaints(n)

Spec == Init /\ [][Next]_vars

(* The worker goes on, the watches deliver and timers expire; the queue is *)
(* first in first out, so a request that stays in it is taken (SF), and a  *)
(* request to the API server that is retried for ever succeeds (SF).       *)
Fairness ==
  /\ \A p \in Pods : SF_vars(StartReconcile(p)) /\ WF_vars(RequeueTimer(p))
  /\ WF_vars(ReleaseNode) /\ WF_vars(DecideTaint) /\ WF_vars(CheckThrottling)
  /\ SF_vars(TaintNode) /\ SF_vars(UntaintNode) /\ SF_vars(EvictPod)
  /\ WF_vars(DeliverPods) /\ WF_vars(DeliverNodes)

FairSpec == Spec /\ Fairness
-----------------------------------------------------------------------------
(* Properties *)

Tainted(n) == "ours" \in taints[n]

(* No node is tainted without cause: our taint is only ever on a node      *)
(* whose pods really met the threshold of a policy at one moment, however  *)
(* late the caches are and whatever Reconcile read from them when.         *)
TaintOnlyIfOnceMet == \A n \in Nodes : Tainted(n) => n \in everMet

BeingEvicted(policy) ==
  {p \in Pods : pods[p] # NoPod /\ policy \in Matching[p] /\ pods[p].terminating}

(* health_controller.go:111 "Throttling check to prevent mass eviction     *)
(* (max 5% of matching pods)": the pods of a policy that are being evicted *)
(* at the same time are at most one, or at most 5% of its pods.  True      *)
(* although the throttle is checked on a late cache before the eviction is *)
(* sent, as long as agents do not lift verdicts, evicted pods do not       *)
(* return, and no pod is matched by two policies: an eviction counts under *)
(* one of them only.                                                       *)
EvictionThrottled ==
  \A policy \in Policies :
    LET evicted == Cardinality(BeingEvicted(policy))
    IN  evicted <= 1 \/ 20 * evicted <= Cardinality({p \in Pods : policy \in Matching[p]})

(* An unhealthy pod under a policy whose threshold its node meets gets its *)
(* node tainted, through failed patches and late caches.                   *)
TaintDue(n) ==
  \E p \in UnhealthyOn(pods, n) : \A policy \in findMatchingPolicy(p) :
    TaintEnabled(policy) /\ shouldTaint(pods, n, policy.threshold)

UnhealthyNodeTainted == \A n \in Nodes : TaintDue(n) ~> Tainted(n) \/ ~TaintDue(n)

(* The pod is marked unhealthy and every policy that matches it says       *)
(* enableEvict.                                                            *)
EvictDue(p) ==
  /\ pods[p] # NoPod /\ pods[p].unhealthy /\ ~pods[p].terminating
  /\ Matching[p] # {} /\ \A policy \in Matching[p] : policy.enableEvict

(* The watch still has a change of the pod to deliver. *)
ChangeUnderWay(p) == \E i \in 1 .. Len(podViews) : podViews[i][p] # pods[p]

(* No eviction is forgotten: a pod that is due is in the workqueue, waits  *)
(* out a delay, is being reconciled, or the watch is about to bring it     *)
(* back, after whatever request failed, was throttled (lines 94, 114) or   *)
(* was cut short by a restart.  Policies without the taint are left out:   *)
(* line 75 returns before the eviction.                                    *)
NoEvictionForgotten ==
  \A p \in Pods :
    EvictDue(p) /\ (\A policy \in Matching[p] : policy.enableTaint)
      => \/ p \in queue \cup delayed
         \/ worker # Idle /\ worker.pod = p
         \/ ChangeUnderWay(p)

Lone(p) ==
  \A q \in Pods \ {p} :
    pods[q] # NoPod /\ pods[q].unhealthy => Matching[q] \cap Matching[p] = {}

(* computesentrypolicy_types.go:97 "EnableEvict enables evicting the pod   *)
(* when unhealthy": a pod that is the only unhealthy one of its policies   *)
(* is evicted, through failed requests, late caches and a throttle that    *)
(* other pods closed meanwhile.  True for policies that enable the taint   *)
(* as well; line 75 returns before the eviction for any other.             *)
LoneUnhealthyPodEvicted ==
  \A p \in Pods : EvictDue(p) /\ Lone(p) ~> ~(EvictDue(p) /\ Lone(p))

(* health_controller.go:338 "untaint if all are healthy": a tainted node   *)
(* whose pods are all healthy again is released.  Two other ways to keep a *)
(* taint are left out: line 51 does not look at the node of a pod that is  *)
(* gone, and a decision on a late cache may not see the taint.             *)
HealthyNodeUntainted ==
  (\A p \in Pods : [](pods[p] # NoPod)) /\ [](worker.step = "decide" => nodeCache = taints) =>
    \A n \in Nodes :
      Tainted(n) /\ UnhealthyOn(pods, n) = {} ~> ~Tainted(n) \/ UnhealthyOn(pods, n) # {}

(* health_controller.go:108 "eviction is for the specific unhealthy pod":  *)
(* the eviction is addressed by name long after the pod was read, so it    *)
(* may hit a pod whose verdict was lifted meanwhile, or a healthy          *)
(* successor of the same name.  That happens only while the controller has *)
(* yet to reconcile the change, through late caches, retries and restarts: *)
(* what it has reconciled it never evicts against.                         *)
HealthyEvictedOnlyUnseen ==
  [][\A p \in Pods :
       /\ pods[p] # NoPod /\ ~pods[p].unhealthy /\ ~pods[p].terminating
       /\ pods'[p] # NoPod /\ pods'[p].terminating
       => ChangeUnderWay(p) \/ p \in queue]_vars

(* The pods as their owners see them. *)
PhaseOf(pod) ==
  IF pod = NoPod THEN "gone"
  ELSE IF pod.terminating THEN "evicted"
  ELSE IF pod.unhealthy THEN "unhealthy" ELSE "healthy"

Budget == INSTANCE EvictionBudget WITH phase <- [p \in Pods |-> PhaseOf(pods[p])]

(* Reconcile with its caches, queue and retries evicts like a controller   *)
(* that decides and evicts in one step on the true state of the pods.  It  *)
(* holds under the conditions of EvictionThrottled.                        *)
ImplementsBudget == Budget!Spec
=============================================================================
