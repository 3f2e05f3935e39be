----------------------- MODULE HealthControllerProofs -----------------------
(* Proofs about HealthController, for any pods, nodes, policies and label  *)
(* matches, any lag of the caches and any combination of the switches.     *)
EXTENDS HealthController, SequenceTheorems, TLAPS

USE PolicyAssumption, PodAssumption

PodView  == [Pods -> Pod \cup {NoPod}]
NodeView == [Nodes -> SUBSET Taints]

(* The node decisions are taken under a policy that enables them. *)
WorkerShape ==
  worker.step \in {"decide", "taint", "throttle", "evict"} =>
    worker \in Reconcile /\ worker.policy \in Policies /\ worker.policy.enableTaint

TypeInv == TypeOK /\ WorkerShape

LEMMA WorkerFacts ==
  ASSUME TypeInv
  PROVE  /\ worker.step \in Steps => worker \in Reconcile
         /\ worker \in Reconcile => worker # Idle /\ worker.step \in Steps
         /\ worker = Idle => worker.step \notin Steps
  BY DEF TypeInv, TypeOK, Idle, Reconcile, Steps

LEMMA ViewFacts ==
  ASSUME TypeOK
  PROVE  /\ Len(podViews) \in Nat /\ Len(podViews) >= 1
         /\ Len(nodeViews) \in Nat /\ Len(nodeViews) >= 1
         /\ podCache \in PodView /\ pods \in PodView
         /\ nodeCache \in NodeView /\ taints \in NodeView
  BY DEF TypeOK, podCache, pods, nodeCache, taints, PodView, NodeView

LEMMA AppendFacts ==
  ASSUME NEW S, NEW s \in Seq(S), NEW e \in S
  PROVE  /\ Append(s, e) \in Seq(S) /\ Append(s, e) # <<>>
         /\ \A i \in 1 .. Len(Append(s, e)) : Append(s, e)[i] = e \/ \E j \in 1 .. Len(s) : Append(s, e)[i] = s[j]
  BY AppendProperties

(* What a write leaves in the views: the old states and the new one. *)
LEMMA WritePodViews ==
  ASSUME TypeOK, NEW p \in Pods, NEW v \in Pod \cup {NoPod}, WritePod(p, v)
  PROVE  /\ podViews' \in Seq(PodView) /\ podViews' # <<>> /\ everMet' \in SUBSET Nodes
         /\ \A i \in 1 .. Len(podViews') :
              \/ podViews'[i] = [pods EXCEPT ![p] = v]
              \/ \E j \in 1 .. Len(podViews) : podViews'[i] = podViews[j]
  <1> DEFINE view == [pods EXCEPT ![p] = v]
  <1>1. view \in PodView
    BY ViewFacts DEF PodView
  <1>2. podViews \in Seq(PodView) /\ podViews # <<>> /\ everMet \in SUBSET Nodes
    BY DEF TypeOK, PodView
  <1>3. podViews' = podViews \/ podViews' = Append(podViews, view)
    BY DEF WritePod
  <1>4. everMet' \in SUBSET Nodes
    BY <1>2 DEF WritePod
  <1> HIDE DEF view
  <1>5. CASE podViews' = podViews
    BY <1>2, <1>4, <1>5
  <1>6. CASE podViews' = Append(podViews, view)
    BY <1>1, <1>2, <1>4, <1>6, AppendFacts DEF view
  <1> QED
    BY <1>3, <1>5, <1>6

LEMMA WriteTaintsViews ==
  ASSUME TypeOK, NEW n \in Nodes, NEW list \in SUBSET Taints, WriteTaints(n, list)
  PROVE  /\ nodeViews' \in Seq(NodeView) /\ nodeViews' # <<>>
         /\ \A i \in 1 .. Len(nodeViews') :
              \/ nodeViews'[i] = [taints EXCEPT ![n] = list]
              \/ \E j \in 1 .. Len(nodeViews) : nodeViews'[i] = nodeViews[j]
  <1> DEFINE view == [taints EXCEPT ![n] = list]
  <1>1. view \in NodeView
    BY ViewFacts DEF NodeView
  <1>2. nodeViews \in Seq(NodeView) /\ nodeViews # <<>>
    BY DEF TypeOK, NodeView
  <1>3. nodeViews' = nodeViews \/ nodeViews' = Append(nodeViews, view)
    BY DEF WriteTaints
  <1> HIDE DEF view
  <1>4. CASE nodeViews' = nodeViews
    BY <1>2, <1>4
  <1>5. CASE nodeViews' = Append(nodeViews, view)
    BY <1>1, <1>2, <1>5, AppendFacts DEF view
  <1> QED
    BY <1>3, <1>4, <1>5

(* A delivery drops the oldest state. *)
LEMMA TailFacts ==
  ASSUME NEW S, NEW s \in Seq(S), Len(s) > 1
  PROVE  /\ Tail(s) \in Seq(S) /\ Tail(s) # <<>>
         /\ \A i \in 1 .. Len(Tail(s)) : \E j \in 1 .. Len(s) : Tail(s)[i] = s[j]
  <1>1. s # <<>> /\ Len(s) \in Nat
    BY LenProperties
  <1>2. /\ Tail(s) \in Seq(S) /\ Len(Tail(s)) = Len(s) - 1
        /\ \A i \in 1 .. Len(Tail(s)) : Tail(s)[i] = s[i + 1]
    BY <1>1, HeadTailProperties
  <1>3. Tail(s) # <<>>
    <2>. DEFINE k == Len(s)
    <2>0. k \in Nat /\ k > 1
      BY <1>1
    <2> HIDE DEF k
    <2>1. k - 1 # 0
      BY <2>0
    <2>2. Len(Tail(s)) # 0
      BY <1>2, <2>1 DEF k
    <2> QED
      BY <1>2, <2>2, EmptySeq
  <1>4. ASSUME NEW i \in 1 .. Len(Tail(s)) PROVE i + 1 \in 1 .. Len(s)
    BY <1>2
  <1> QED
    BY <1>2, <1>3, <1>4

LEMMA GoToType ==
  ASSUME worker \in Reconcile, NEW s \in Steps, GoTo(s)
  PROVE  worker' \in Reconcile /\ worker'.step = s /\ worker'.pod = worker.pod
         /\ worker'.snapshot = worker.snapshot /\ worker'.policy = worker.policy
  BY DEF GoTo, Reconcile

LEMMA TypeInit == Init => TypeInv
  <1> SUFFICES ASSUME Init PROVE TypeInv
    OBVIOUS
  <1>1. PICK view \in PodView : podViews = <<view>> /\ queue \in SUBSET Pods /\ everMet \in SUBSET Nodes
    BY DEF Init, PodView
  <1>2. podViews \in Seq(PodView) /\ podViews # <<>>
    BY <1>1
  <1>3. [n \in Nodes |-> {}] \in NodeView
    BY DEF NodeView
  <1>4. nodeViews \in Seq(NodeView) /\ nodeViews # <<>>
    BY <1>3 DEF Init
  <1> QED
    BY <1>1, <1>2, <1>4 DEF Init, TypeInv, TypeOK, WorkerShape, Idle, PodView, NodeView

LEMMA TypeStep == TypeInv /\ [Next]_vars => TypeInv'
  <1> SUFFICES ASSUME TypeInv, [Next]_vars PROVE TypeInv'
    OBVIOUS
  <1>a. TypeOK /\ WorkerShape
    BY DEF TypeInv
  <1>t. /\ podViews \in Seq(PodView) /\ podViews # <<>>
        /\ nodeViews \in Seq(NodeView) /\ nodeViews # <<>>
        /\ queue \in SUBSET Pods /\ delayed \in SUBSET Pods /\ everMet \in SUBSET Nodes
    BY <1>a DEF TypeOK, PodView, NodeView
  <1>w. /\ podCache \in PodView /\ pods \in PodView
        /\ nodeCache \in NodeView /\ taints \in NodeView
    BY <1>a, ViewFacts
  <1>i. ASSUME worker' = Idle PROVE WorkerShape' /\ worker' \in Reconcile \cup {Idle}
    BY <1>i DEF WorkerShape, Idle
  <1>g. ASSUME worker \in Reconcile, NEW s \in Steps, GoTo(s),
               s \in {"decide", "taint", "throttle", "evict"} => TaintEnabled(worker.policy)
        PROVE  WorkerShape' /\ worker' \in Reconcile \cup {Idle}
    BY <1>g, GoToType DEF WorkerShape, Reconcile, TaintEnabled
  <1>q. /\ worker.step \in Steps => worker \in Reconcile
        /\ worker \in Reconcile => worker.pod \in Pods /\ NodeOf \in Nodes
    BY WorkerFacts DEF Reconcile, NodeOf, BoundPod, Pod
  <1>e. worker.step \in {"decide", "taint", "throttle", "evict"} => TaintEnabled(worker.policy)
    BY <1>a DEF WorkerShape, TaintEnabled
  <1>k. ASSUME worker' = worker PROVE WorkerShape' /\ worker' \in Reconcile \cup {Idle}
    BY <1>k, <1>a DEF WorkerShape, TypeOK
  <1>z. ASSUME /\ podViews' \in Seq(PodView) /\ podViews' # <<>>
               /\ nodeViews' \in Seq(NodeView) /\ nodeViews' # <<>>
               /\ queue' \in SUBSET Pods /\ delayed' \in SUBSET Pods /\ everMet' \in SUBSET Nodes
               /\ WorkerShape' /\ worker' \in Reconcile \cup {Idle}
        PROVE  TypeInv'
    BY <1>z DEF TypeInv, TypeOK, PodView, NodeView
  <1>1. ASSUME NEW p \in Pods, StartReconcile(p) PROVE TypeInv'
    <2>1. CASE worker' = Idle
      BY <1>1, <1>t, <1>i, <1>z, <2>1 DEF StartReconcile
    <2>2. CASE Bound(podCache, p)
      <3>1. podCache[p] \in BoundPod
        BY <1>w, <2>2 DEF Bound, BoundPod, PodView
      <3>2. CASE worker' # Idle
        <4>1. PICK policy \in findMatchingPolicy(p) :
                worker' = [step     |-> IF TaintEnabled(policy) THEN "decide" ELSE "release",
                           pod      |-> p,
                           snapshot |-> podCache[p],
                           policy   |-> policy]
          BY <1>1, <3>2 DEF StartReconcile, Done
        <4>2. policy \in Policies \cup {NoPolicy}
          BY DEF findMatchingPolicy
        <4>3. WorkerShape' /\ worker' \in Reconcile
          BY <3>1, <4>1, <4>2 DEF WorkerShape, Reconcile, Steps, TaintEnabled
        <4> QED
          BY <1>1, <1>t, <1>z, <4>3 DEF StartReconcile
      <3> QED
        BY <2>1, <3>2
    <2> QED
      BY <1>1, <2>1, <2>2 DEF StartReconcile, Done
  <1>2. CASE ReleaseNode
    <2>1. worker \in Reconcile /\ (GoTo("untaint") \/ worker' = Idle)
      BY <1>2, <1>q DEF ReleaseNode, Done, Steps
    <2>2. WorkerShape' /\ worker' \in Reconcile \cup {Idle}
      BY <2>1, <1>i, <1>g DEF Steps
    <2> QED
      BY <1>2, <1>t, <1>z, <2>2 DEF ReleaseNode
  <1>3. CASE DecideTaint
    <2>1. worker \in Reconcile /\ (GoTo("throttle") \/ GoTo("taint") \/ GoTo("untaint"))
      BY <1>3, <1>q DEF DecideTaint, Steps
    <2>2. TaintEnabled(worker.policy)
      BY <1>3, <1>e DEF DecideTaint
    <2>3. WorkerShape' /\ worker' \in Reconcile \cup {Idle}
      BY <2>1, <2>2, <1>g DEF Steps
    <2> QED
      BY <1>3, <1>t, <1>z, <2>3 DEF DecideTaint
  <1>n. ASSUME worker \in Reconcile, NodeDone PROVE WorkerShape' /\ worker' \in Reconcile \cup {Idle}
    BY <1>n, <1>g, <1>i DEF NodeDone, Done, Steps
  <1>4. CASE TaintNode
    <2>1. worker \in Reconcile /\ NodeOf \in Nodes /\ NodeDone
      BY <1>4, <1>q DEF TaintNode, Steps
    <2>2. nodeViews' \in Seq(NodeView) /\ nodeViews' # <<>>
      <3>1. nodeCache[NodeOf] \cup {"ours"} \in SUBSET Taints
        BY <2>1, <1>w DEF NodeView, Taints
      <3>2. CASE nodeViews' = nodeViews
        BY <1>t, <3>2
      <3>3. CASE WriteTaints(NodeOf, nodeCache[NodeOf] \cup {"ours"})
        BY <1>a, <2>1, <3>1, <3>3, WriteTaintsViews
      <3> QED
        BY <1>4, <3>2, <3>3 DEF TaintNode
    <2> QED
      BY <1>4, <1>t, <1>z, <1>n, <2>1, <2>2 DEF TaintNode
  <1>5. CASE UntaintNode
    <2>1. worker \in Reconcile /\ NodeOf \in Nodes /\ NodeDone
      BY <1>5, <1>q DEF UntaintNode, Steps
    <2>2. nodeViews' \in Seq(NodeView) /\ nodeViews' # <<>>
      <3>1. UntaintedList(NodeOf) \in SUBSET Taints
        BY <2>1, <1>w DEF NodeView, UntaintedList
      <3>2. CASE nodeViews' = nodeViews
        BY <1>t, <3>2
      <3>3. CASE WriteTaints(NodeOf, UntaintedList(NodeOf))
        BY <1>a, <2>1, <3>1, <3>3, WriteTaintsViews
      <3> QED
        BY <1>5, <3>2, <3>3 DEF UntaintNode
    <2> QED
      BY <1>5, <1>t, <1>z, <1>n, <2>1, <2>2 DEF UntaintNode
  <1>6. CASE CheckThrottling
    <2>1. worker \in Reconcile /\ TaintEnabled(worker.policy) /\ worker.pod \in Pods
      BY <1>6, <1>q, <1>e DEF CheckThrottling, Steps
    <2>2. (worker' = Idle \/ GoTo("evict")) /\ (delayed' = delayed \/ delayed' = delayed \cup {worker.pod})
      BY <1>6 DEF CheckThrottling, Requeue, Done
    <2>3. WorkerShape' /\ worker' \in Reconcile \cup {Idle}
      BY <2>1, <2>2, <1>i, <1>g DEF Steps
    <2> QED
      BY <1>6, <1>t, <1>z, <2>1, <2>2, <2>3 DEF CheckThrottling
  <1>7. CASE EvictPod
    <2>1. worker \in Reconcile /\ worker.pod \in Pods
      BY <1>7, <1>q DEF EvictPod, Steps
    <2>2. worker' = Idle /\ delayed' \in SUBSET Pods
      BY <1>7, <1>t, <2>1 DEF EvictPod, Requeue, Done
    <2>3. podViews' \in Seq(PodView) /\ podViews' # <<>> /\ everMet' \in SUBSET Nodes
      <3>1. CASE UNCHANGED <<podViews, everMet>>
        BY <1>t, <3>1
      <3>2. CASE /\ pods[worker.pod] # NoPod
                 /\ WritePod(worker.pod, [pods[worker.pod] EXCEPT !.terminating = TRUE])
        <4>1. [pods[worker.pod] EXCEPT !.terminating = TRUE] \in Pod
          BY <1>w, <2>1, <3>2 DEF PodView, Pod
        <4> QED
          BY <1>a, <2>1, <3>2, <4>1, WritePodViews
      <3> QED
        BY <1>7, <3>1, <3>2 DEF EvictPod
    <2> QED
      BY <1>7, <1>t, <1>z, <1>i, <2>2, <2>3 DEF EvictPod
  <1>8. CASE RequestFails
    <2>1. worker \in Reconcile /\ worker.pod \in Pods
      BY <1>8, <1>q DEF RequestFails, Steps
    <2> QED
      BY <1>8, <1>t, <1>z, <1>i, <2>1 DEF RequestFails, Requeue
  <1>9. CASE DeliverPods
    <2>1. podViews' \in Seq(PodView) /\ podViews' # <<>>
      BY <1>9, <1>t, TailFacts DEF DeliverPods
    <2> QED
      BY <1>9, <1>t, <1>z, <1>k, <2>1 DEF DeliverPods
  <1>10. CASE DeliverNodes
    <2>1. nodeViews' \in Seq(NodeView) /\ nodeViews' # <<>>
      BY <1>10, <1>t, TailFacts DEF DeliverNodes
    <2> QED
      BY <1>10, <1>t, <1>z, <1>k, <2>1 DEF DeliverNodes
  <1>11. ASSUME NEW p \in Pods, RequeueTimer(p) PROVE TypeInv'
    BY <1>11, <1>t, <1>z, <1>k DEF RequeueTimer
  <1>12. CASE OperatorRestart
    <2>1. podViews' \in Seq(PodView) /\ podViews' # <<>> /\ nodeViews' \in Seq(NodeView) /\ nodeViews' # <<>>
      BY <1>12, <1>w DEF OperatorRestart
    <2> QED
      BY <1>12, <1>t, <1>z, <1>i, <2>1 DEF OperatorRestart
  <1>13. ASSUME NEW p \in Pods, NEW v \in Pod \cup {NoPod}, WritePod(p, v),
                UNCHANGED <<nodeViews, queue, delayed, worker>>
         PROVE  TypeInv'
    BY <1>13, <1>a, <1>t, <1>z, <1>k, WritePodViews
  <1>14. ASSUME NEW p \in Pods, CreatePod(p) \/ RemovePod(p) PROVE TypeInv'
    <2>1. [node |-> NoNode, unhealthy |-> FALSE, terminating |-> FALSE] \in Pod
      BY DEF Pod
    <2> QED
      BY <1>13, <1>14, <2>1 DEF CreatePod, RemovePod
  <1>15. ASSUME NEW p \in Pods, NEW n \in Nodes, BindPod(p, n) PROVE TypeInv'
    <2>1. [pods[p] EXCEPT !.node = n] \in Pod
      BY <1>15, <1>w DEF BindPod, PodView, Pod
    <2> QED
      BY <1>13, <1>15, <2>1 DEF BindPod
  <1>16. ASSUME NEW p \in Pods, NEW u \in BOOLEAN, AgentMarks(p, u) PROVE TypeInv'
    <2>1. [pods[p] EXCEPT !.unhealthy = u] \in Pod
      BY <1>16, <1>w DEF AgentMarks, Bound, PodView, Pod
    <2> QED
      BY <1>13, <1>16, <2>1 DEF AgentMarks
  <1>17. ASSUME NEW n \in Nodes, OtherTaints(n) PROVE TypeInv'
    <2>1. taints[n] \cup {"other"} \in SUBSET Taints /\ taints[n] \ {"other"} \in SUBSET Taints
      BY <1>w DEF NodeView, Taints
    <2>2. nodeViews' \in Seq(NodeView) /\ nodeViews' # <<>>
      BY <1>17, <1>a, <2>1, WriteTaintsViews DEF OtherTaints
    <2> QED
      BY <1>17, <1>t, <1>z, <1>k, <2>2 DEF OtherTaints
  <1>18. CASE UNCHANGED vars
    BY <1>18, <1>t, <1>z, <1>k DEF vars
  <1> QED
    BY <1>1, <1>2, <1>3, <1>4, <1>5, <1>6, <1>7, <1>8, <1>9, <1>10, <1>11, <1>12,
       <1>14, <1>15, <1>16, <1>17, <1>18 DEF Next, Controller

(* No reconcile breaks the types, whatever it read when.  The strengthening *)
(* WorkerShape is what makes worker.policy.threshold a threshold.            *)
THEOREM TypeCorrect == Spec => []TypeOK
  <1>1. TypeInv => TypeOK
    BY DEF TypeInv
  <1> QED
    BY <1>1, TypeInit, TypeStep, PTL DEF Spec
-----------------------------------------------------------------------------
(* A taint needs a cause.  Three things can carry one that is gone on the    *)
(* server: a late view of the pods, a late view of the taints (an untaint or *)
(* another taint writes it back), and a worker on its way to taintNode.      *)

ViewsMet ==
  \A i \in 1 .. Len(podViews) : \A n \in Nodes :
    ThresholdMet(podViews[i], n) => n \in everMet

TaintsMet ==
  \A i \in 1 .. Len(nodeViews) : \A n \in Nodes :
    "ours" \in nodeViews[i][n] => n \in everMet

WorkerMet == worker.step = "taint" => NodeOf \in everMet

CauseInv == TypeInv /\ ViewsMet /\ TaintsMet /\ WorkerMet

LEMMA CauseInit == Init => CauseInv
  <1> SUFFICES ASSUME Init PROVE CauseInv
    OBVIOUS
  <1>1. TypeInv
    BY TypeInit
  <1>2. PICK view \in PodView : podViews = <<view>> /\ everMet = {n \in Nodes : ThresholdMet(view, n)}
    BY DEF Init, PodView
  <1>3. ViewsMet
    BY <1>2 DEF ViewsMet
  <1>4. TaintsMet
    BY DEF Init, TaintsMet
  <1>5. WorkerMet
    BY DEF Init, WorkerMet, Idle
  <1> QED
    BY <1>1, <1>3, <1>4, <1>5 DEF CauseInv

(* A write to the pods records the nodes that meet a threshold then. *)
LEMMA WritePodMet ==
  ASSUME TypeOK, ViewsMet, NEW p \in Pods, NEW v \in Pod \cup {NoPod}, WritePod(p, v)
  PROVE  ViewsMet' /\ everMet \subseteq everMet'
  <1> DEFINE view == [pods EXCEPT ![p] = v]
  <1>1. everMet' = everMet \cup {n \in Nodes : ThresholdMet(view, n)}
    BY DEF WritePod
  <1>2. \A i \in 1 .. Len(podViews') :
          podViews'[i] = view \/ \E j \in 1 .. Len(podViews) : podViews'[i] = podViews[j]
    BY WritePodViews
  <1> HIDE DEF view
  <1>3. ASSUME NEW i \in 1 .. Len(podViews'), NEW n \in Nodes, ThresholdMet(podViews'[i], n)
        PROVE  n \in everMet'
    <2>1. CASE podViews'[i] = view
      BY <1>1, <1>3, <2>1
    <2>2. CASE \E j \in 1 .. Len(podViews) : podViews'[i] = podViews[j]
      BY <1>1, <1>3, <2>2 DEF ViewsMet
    <2> QED
      BY <1>2, <2>1, <2>2
  <1>4. ViewsMet'
    BY <1>3 DEF ViewsMet, ThresholdMet, shouldTaint, PodsOn, UnhealthyOn
  <1> QED
    BY <1>1, <1>4

(* A list of taints that names ours only with a cause leaves no view       *)
(* without one.                                                            *)
LEMMA WriteTaintsMet ==
  ASSUME TypeOK, TaintsMet, NEW n \in Nodes, NEW list \in SUBSET Taints, WriteTaints(n, list),
         "ours" \in list => n \in everMet, UNCHANGED everMet
  PROVE  TaintsMet'
  <1> DEFINE view == [taints EXCEPT ![n] = list]
  <1>1. \A i \in 1 .. Len(nodeViews') :
          nodeViews'[i] = view \/ \E j \in 1 .. Len(nodeViews) : nodeViews'[i] = nodeViews[j]
    BY WriteTaintsViews
  <1>2. \A m \in Nodes : "ours" \in view[m] => m \in everMet
    BY ViewFacts DEF NodeView, TaintsMet, taints
  <1> HIDE DEF view
  <1> QED
    BY <1>1, <1>2 DEF TaintsMet

LEMMA CauseStep == CauseInv /\ [Next]_vars => CauseInv'
  <1> SUFFICES ASSUME CauseInv, [Next]_vars PROVE CauseInv'
    OBVIOUS
  <1>a. TypeInv /\ TypeOK /\ WorkerShape /\ ViewsMet /\ TaintsMet /\ WorkerMet
    BY DEF CauseInv, TypeInv
  <1>b. TypeInv'
    BY <1>a, TypeStep
  <1>v. /\ podCache \in PodView /\ pods \in PodView
        /\ nodeCache \in NodeView /\ taints \in NodeView
        /\ podViews \in Seq(PodView) /\ nodeViews \in Seq(NodeView)
    BY <1>a, ViewFacts DEF TypeOK, PodView, NodeView
  <1>c. /\ \A n \in Nodes : ThresholdMet(podCache, n) => n \in everMet
        /\ \A n \in Nodes : "ours" \in nodeCache[n] => n \in everMet
        /\ \A n \in Nodes : "ours" \in taints[n] => n \in everMet
    BY <1>a, ViewFacts DEF ViewsMet, TaintsMet, podCache, nodeCache, taints
  <1>q. /\ worker.step \in Steps => worker \in Reconcile
        /\ worker \in Reconcile => worker.pod \in Pods /\ NodeOf \in Nodes
    BY <1>a, WorkerFacts DEF Reconcile, NodeOf, BoundPod, Pod
  <1>d. ASSUME UNCHANGED <<podViews, everMet>> PROVE ViewsMet'
    <2>1. \A i \in 1 .. Len(podViews') : \A n \in Nodes : ThresholdMet(podViews'[i], n) => n \in everMet'
      BY <1>a, <1>d DEF ViewsMet
    <2> QED
      BY <2>1 DEF ViewsMet, ThresholdMet, shouldTaint, PodsOn, UnhealthyOn
  <1>e. ASSUME UNCHANGED nodeViews, everMet \subseteq everMet' PROVE TaintsMet'
    BY <1>a, <1>e DEF TaintsMet
  <1>i. ASSUME worker' = Idle PROVE WorkerMet'
    BY <1>i DEF WorkerMet, Idle
  <1>k. ASSUME UNCHANGED worker, everMet \subseteq everMet' PROVE WorkerMet'
    BY <1>a, <1>k DEF WorkerMet, NodeOf
  <1>g. ASSUME worker \in Reconcile, NEW s \in Steps, s # "taint", GoTo(s) PROVE WorkerMet'
    BY <1>g, GoToType DEF WorkerMet
  <1>n. ASSUME worker \in Reconcile, NodeDone PROVE WorkerMet'
    BY <1>n, <1>g, <1>i DEF NodeDone, Done, Steps
  <1>z. ASSUME ViewsMet', TaintsMet', WorkerMet' PROVE CauseInv'
    BY <1>b, <1>z DEF CauseInv
  <1>1. ASSUME NEW p \in Pods, StartReconcile(p) PROVE CauseInv'
    <2>1. WorkerMet'
      BY <1>1 DEF StartReconcile, Done, WorkerMet, Idle
    <2> QED
      BY <1>1, <1>d, <1>e, <1>z, <2>1 DEF StartReconcile
  <1>2. CASE ReleaseNode
    <2>1. WorkerMet'
      BY <1>2, <1>q, <1>g, <1>i DEF ReleaseNode, Done, Steps
    <2> QED
      BY <1>2, <1>d, <1>e, <1>z, <2>1 DEF ReleaseNode
  <1>3. CASE DecideTaint
    <2>1. worker \in Reconcile /\ NodeOf \in Nodes /\ everMet' = everMet
          /\ worker.policy \in Policies /\ worker.policy.enableTaint
      BY <1>3, <1>q, <1>a DEF DecideTaint, Steps, WorkerShape
    <2>2. WorkerMet'
      <3>1. CASE shouldTaint(podCache, NodeOf, ThresholdInForce)
        <4>1. NodeOf \in everMet
          BY <2>1, <3>1, <1>c DEF ThresholdMet, ThresholdInForce
        <4>2. worker'.snapshot = worker.snapshot
          BY <1>3, <2>1, GoToType DEF DecideTaint, Steps
        <4> QED
          BY <2>1, <4>1, <4>2 DEF WorkerMet, NodeOf
      <3>2. CASE ~shouldTaint(podCache, NodeOf, ThresholdInForce)
        BY <1>3, <2>1, <3>2, <1>g DEF DecideTaint, Steps
      <3> QED
        BY <3>1, <3>2
    <2> QED
      BY <1>3, <1>d, <1>e, <1>z, <2>2 DEF DecideTaint
  <1>4. CASE TaintNode
    <2>1. worker \in Reconcile /\ NodeOf \in Nodes /\ NodeDone /\ NodeOf \in everMet
      BY <1>4, <1>q, <1>a DEF TaintNode, Steps, WorkerMet
    <2>2. TaintsMet'
      <3>1. nodeCache[NodeOf] \cup {"ours"} \in SUBSET Taints
        BY <2>1, <1>v DEF NodeView, Taints
      <3>2. CASE UNCHANGED nodeViews
        BY <1>4, <1>e, <3>2 DEF TaintNode
      <3>3. CASE WriteTaints(NodeOf, nodeCache[NodeOf] \cup {"ours"})
        BY <1>4, <1>a, <2>1, <3>1, <3>3, WriteTaintsMet DEF TaintNode
      <3> QED
        BY <1>4, <3>2, <3>3 DEF TaintNode
    <2> QED
      BY <1>4, <1>d, <1>z, <1>n, <2>1, <2>2 DEF TaintNode
  <1>5. CASE UntaintNode
    <2>1. worker \in Reconcile /\ NodeOf \in Nodes /\ NodeDone
      BY <1>5, <1>q DEF UntaintNode, Steps
    <2>2. TaintsMet'
      <3>1. UntaintedList(NodeOf) \in SUBSET Taints /\ ("ours" \in UntaintedList(NodeOf) => NodeOf \in everMet)
        BY <2>1, <1>v, <1>c DEF NodeView, UntaintedList
      <3>2. CASE UNCHANGED nodeViews
        BY <1>5, <1>e, <3>2 DEF UntaintNode
      <3>3. CASE WriteTaints(NodeOf, UntaintedList(NodeOf))
        BY <1>5, <1>a, <2>1, <3>1, <3>3, WriteTaintsMet DEF UntaintNode
      <3> QED
        BY <1>5, <3>2, <3>3 DEF UntaintNode
    <2> QED
      BY <1>5, <1>d, <1>z, <1>n, <2>1, <2>2 DEF UntaintNode
  <1>6. CASE CheckThrottling
    <2>1. WorkerMet'
      BY <1>6, <1>q, <1>g, <1>i DEF CheckThrottling, Requeue, Done, Steps
    <2> QED
      BY <1>6, <1>d, <1>e, <1>z, <2>1 DEF CheckThrottling
  <1>7. CASE EvictPod
    <2>1. worker.pod \in Pods /\ worker' = Idle
      BY <1>7, <1>q DEF EvictPod, Steps, Requeue, Done
    <2>2. ViewsMet' /\ everMet \subseteq everMet'
      <3>1. CASE UNCHANGED <<podViews, everMet>>
        BY <1>d, <3>1
      <3>2. CASE /\ pods[worker.pod] # NoPod
                 /\ WritePod(worker.pod, [pods[worker.pod] EXCEPT !.terminating = TRUE])
        <4>1. [pods[worker.pod] EXCEPT !.terminating = TRUE] \in Pod
          BY <1>v, <2>1, <3>2 DEF PodView, Pod
        <4> QED
          BY <1>a, <2>1, <3>2, <4>1, WritePodMet
      <3> QED
        BY <1>7, <3>1, <3>2 DEF EvictPod
    <2> QED
      BY <1>7, <1>e, <1>i, <1>z, <2>1, <2>2 DEF EvictPod
  <1>8. CASE RequestFails
    BY <1>8, <1>d, <1>e, <1>i, <1>z DEF RequestFails, Requeue
  <1>9. CASE DeliverPods
    <2>1. \A i \in 1 .. Len(podViews') : \E j \in 1 .. Len(podViews) : podViews'[i] = podViews[j]
      BY <1>9, <1>v, TailFacts DEF DeliverPods
    <2>2. \A i \in 1 .. Len(podViews') : \A n \in Nodes : ThresholdMet(podViews'[i], n) => n \in everMet'
      BY <1>9, <1>a, <2>1 DEF DeliverPods, ViewsMet
    <2>3. ViewsMet'
      BY <2>2 DEF ViewsMet, ThresholdMet, shouldTaint, PodsOn, UnhealthyOn
    <2> QED
      BY <1>9, <1>e, <1>k, <1>z, <2>3 DEF DeliverPods
  <1>10. CASE DeliverNodes
    <2>1. \A i \in 1 .. Len(nodeViews') : \E j \in 1 .. Len(nodeViews) : nodeViews'[i] = nodeViews[j]
      BY <1>10, <1>v, TailFacts DEF DeliverNodes
    <2>2. TaintsMet'
      BY <1>10, <1>a, <2>1 DEF DeliverNodes, TaintsMet
    <2> QED
      BY <1>10, <1>d, <1>k, <1>z, <2>2 DEF DeliverNodes
  <1>11. ASSUME NEW p \in Pods, RequeueTimer(p) PROVE CauseInv'
    BY <1>11, <1>d, <1>e, <1>k, <1>z DEF RequeueTimer
  <1>12. CASE OperatorRestart
    <2>1. \A n \in Nodes : ThresholdMet(pods, n) => n \in everMet
      BY <1>a, ViewFacts DEF ViewsMet, pods
    <2>2. \A i \in 1 .. Len(podViews') : \A n \in Nodes : ThresholdMet(podViews'[i], n) => n \in everMet'
      BY <1>12, <2>1 DEF OperatorRestart
    <2>3. ViewsMet'
      BY <2>2 DEF ViewsMet, ThresholdMet, shouldTaint, PodsOn, UnhealthyOn
    <2>4. TaintsMet'
      BY <1>12, <1>c DEF OperatorRestart, TaintsMet
    <2> QED
      BY <1>12, <1>i, <1>z, <2>3, <2>4 DEF OperatorRestart
  <1>13. ASSUME NEW p \in Pods, NEW v \in Pod \cup {NoPod}, WritePod(p, v), UNCHANGED <<nodeViews, worker>>
         PROVE  CauseInv'
    BY <1>13, <1>a, <1>e, <1>k, <1>z, WritePodMet
  <1>14. ASSUME NEW p \in Pods, CreatePod(p) \/ RemovePod(p) PROVE CauseInv'
    <2>1. [node |-> NoNode, unhealthy |-> FALSE, terminating |-> FALSE] \in Pod
      BY DEF Pod
    <2> QED
      BY <1>13, <1>14, <2>1 DEF CreatePod, RemovePod
  <1>15. ASSUME NEW p \in Pods, NEW n \in Nodes, BindPod(p, n) PROVE CauseInv'
    <2>1. [pods[p] EXCEPT !.node = n] \in Pod
      BY <1>15, <1>v DEF BindPod, PodView, Pod
    <2> QED
      BY <1>13, <1>15, <2>1 DEF BindPod
  <1>16. ASSUME NEW p \in Pods, NEW u \in BOOLEAN, AgentMarks(p, u) PROVE CauseInv'
    <2>1. [pods[p] EXCEPT !.unhealthy = u] \in Pod
      BY <1>16, <1>v DEF AgentMarks, Bound, PodView, Pod
    <2> QED
      BY <1>13, <1>16, <2>1 DEF AgentMarks
  <1>17. ASSUME NEW n \in Nodes, OtherTaints(n) PROVE CauseInv'
    <2>1. taints[n] \cup {"other"} \in SUBSET Taints /\ taints[n] \ {"other"} \in SUBSET Taints
      BY <1>v DEF NodeView, Taints
    <2>2. TaintsMet'
      BY <1>17, <1>a, <1>c, <2>1, WriteTaintsMet DEF OtherTaints
    <2> QED
      BY <1>17, <1>d, <1>k, <1>z, <2>2 DEF OtherTaints
  <1>18. CASE UNCHANGED vars
    BY <1>18, <1>d, <1>e, <1>k, <1>z DEF vars
  <1> QED
    BY <1>1, <1>2, <1>3, <1>4, <1>5, <1>6, <1>7, <1>8, <1>9, <1>10, <1>11, <1>12,
       <1>14, <1>15, <1>16, <1>17, <1>18 DEF Next, Controller

(* Our taint is only ever on a node whose pods met a threshold at one      *)
(* moment, for any lag of the caches, through failed patches, restarts of  *)
(* the operator and lists of taints written back from a late cache.        *)
THEOREM TaintOnlyIfOnceMetHolds == Spec => []TaintOnlyIfOnceMet
  <1>1. CauseInv => TaintOnlyIfOnceMet
    BY ViewFacts DEF CauseInv, TypeInv, TaintsMet, TaintOnlyIfOnceMet, Tainted, taints
  <1> QED
    BY <1>1, CauseInit, CauseStep, PTL DEF Spec
-----------------------------------------------------------------------------
(* No eviction is forgotten.  A reconcile drops its request only for a     *)
(* reason it read in the cache; the argument is that the reason is still   *)
(* in the cache (or the pod is queued again), and that a cache that is     *)
(* late about the pod has a change to deliver.                             *)

(* Agents mark pods of their node, and a pod stays on its node. *)
MarkedBound == \A p \in Pods : pods[p] # NoPod /\ pods[p].unhealthy => pods[p].node # NoNode

(* What the reconcile under way read is what the cache says, or its pod is *)
(* queued once more; it evicts only what it read as unhealthy.             *)
WorkerFresh ==
  worker.step \in Steps =>
    /\ worker.snapshot = podCache[worker.pod] \/ worker.pod \in queue
    /\ worker.policy \in findMatchingPolicy(worker.pod)
    /\ worker.step = "release" => ~TaintEnabled(worker.policy)
    /\ worker.step = "evict" => worker.snapshot.unhealthy

DueInv == TypeInv /\ MarkedBound /\ WorkerFresh /\ NoEvictionForgotten

Due(p) == EvictDue(p) /\ \A policy \in Matching[p] : policy.enableTaint

(* A write to a pod is a change under way, and hides none of another pod. *)
LEMMA WriteUnderWay ==
  ASSUME TypeOK, NEW p \in Pods, NEW v \in Pod \cup {NoPod}, WritePod(p, v)
  PROVE  /\ podCache' = podCache
         /\ pods' = [pods EXCEPT ![p] = v]
         /\ \A q \in Pods : q # p /\ ChangeUnderWay(q) => ChangeUnderWay(q)'
         /\ v # pods[p] => ChangeUnderWay(p)'
  <1> DEFINE view == [pods EXCEPT ![p] = v]
             n    == Len(podViews)
  <1>1. podViews \in Seq(PodView) /\ n \in Nat /\ n >= 1 /\ pods \in PodView /\ pods = podViews[n]
    BY ViewFacts DEF TypeOK, PodView, pods
  <1>2. view \in PodView /\ view[p] = v /\ \A q \in Pods : q # p => view[q] = pods[q]
    BY <1>1 DEF PodView
  <1>3. (view = pods /\ podViews' = podViews) \/ podViews' = Append(podViews, view)
    BY DEF WritePod
  <1> HIDE DEF view, n
  <1>4. CASE view = pods /\ podViews' = podViews
    <2>1. pods' = pods /\ podCache' = podCache
      BY <1>4 DEF pods, podCache
    <2>2. v = pods[p]
      BY <1>2, <1>4
    <2> QED
      BY <1>4, <2>1, <2>2 DEF view, ChangeUnderWay
  <1>5. CASE podViews' = Append(podViews, view)
    <2>1. /\ Len(podViews') = n + 1
          /\ \A i \in 1 .. n : podViews'[i] = podViews[i]
          /\ podViews'[n + 1] = view
      BY <1>1, <1>2, <1>5, AppendProperties DEF n
    <2>2. 1 \in 1 .. n /\ n \in 1 .. n /\ \A i \in 1 .. n : i \in 1 .. n + 1
      BY <1>1
    <2>3. pods' = view /\ podCache' = podCache
      BY <2>1, <2>2 DEF pods, podCache
    <2>4. ASSUME NEW q \in Pods, q # p, ChangeUnderWay(q) PROVE ChangeUnderWay(q)'
      <3>1. PICK i \in 1 .. n : podViews[i][q] # pods[q]
        BY <2>4 DEF ChangeUnderWay, n
      <3>2. podViews'[i][q] # pods'[q]
        BY <1>2, <2>1, <2>3, <2>4, <3>1
      <3> QED
        BY <2>1, <2>2, <3>2 DEF ChangeUnderWay
    <2>5. ASSUME v # pods[p] PROVE ChangeUnderWay(p)'
      <3>1. podViews'[n][p] # pods'[p]
        BY <1>1, <1>2, <2>1, <2>2, <2>3, <2>5
      <3> QED
        BY <2>1, <2>2, <3>1 DEF ChangeUnderWay
    <2> QED
      BY <2>3, <2>4, <2>5 DEF view
  <1> QED
    BY <1>3, <1>4, <1>5

(* A delivery queues every pod the cache learns something of. *)
LEMMA DeliverQueues ==
  ASSUME TypeOK, DeliverPods
  PROVE  /\ pods' = pods /\ queue \subseteq queue'
         /\ \A q \in Pods : podCache'[q] = podCache[q] \/ q \in queue'
         /\ \A q \in Pods : ChangeUnderWay(q) => q \in queue' \/ ChangeUnderWay(q)'
  <1> DEFINE n == Len(podViews)
  <1>1. podViews \in Seq(PodView) /\ n \in Nat /\ podViews # <<>> /\ n > 1
        /\ podViews' = Tail(podViews)
    BY ViewFacts DEF TypeOK, PodView, DeliverPods
  <1>2. Len(podViews') = n - 1 /\ \A i \in 1 .. n - 1 : podViews'[i] = podViews[i + 1]
    BY <1>1, HeadTailProperties
  <1> HIDE DEF n
  <1>3. 1 \in 1 .. n - 1 /\ n - 1 \in 1 .. n - 1 /\ n - 1 + 1 = n /\ 1 + 1 = 2
    BY <1>1
  <1>4. pods' = pods /\ podCache' = podViews[2] /\ podCache = podViews[1]
    <2>1. podViews'[n - 1] = podViews[n - 1 + 1] /\ podViews'[1] = podViews[1 + 1]
      BY <1>2, <1>3
    <2> QED
      BY <1>2, <1>3, <2>1 DEF pods, podCache, n
  <1>5. \A q \in Pods : podViews[1][q] = podViews[2][q] \/ q \in queue'
    BY DEF DeliverPods
  <1>6. ASSUME NEW q \in Pods, ChangeUnderWay(q), q \notin queue' PROVE ChangeUnderWay(q)'
    <2>1. PICK i \in 1 .. n : podViews[i][q] # pods[q]
      BY <1>6 DEF ChangeUnderWay, n
    <2>2. PICK j \in 1 .. n - 1 : podViews[j + 1][q] # pods[q]
      <3>1. CASE i = 1
        BY <1>3, <1>5, <1>6, <2>1, <3>1
      <3>2. CASE i # 1
        <4>1. i - 1 \in 1 .. n - 1 /\ i - 1 + 1 = i
          BY <1>1, <3>2
        <4> QED
          BY <2>1, <4>1
      <3> QED
        BY <3>1, <3>2
    <2>3. podViews'[j][q] # pods'[q]
      BY <1>2, <1>4, <2>2
    <2> QED
      BY <1>2, <2>3 DEF ChangeUnderWay
  <1>7. queue \subseteq queue'
    BY DEF DeliverPods
  <1> QED
    BY <1>4, <1>5, <1>6, <1>7

LEMMA DueInit == Init => DueInv
  <1> SUFFICES ASSUME Init PROVE DueInv
    OBVIOUS
  <1>1. TypeInv
    BY TypeInit
  <1>2. PICK view \in [Pods -> {NoPod} \cup {pod \in Pod : ~pod.unhealthy /\ ~pod.terminating}] : podViews = <<view>>
    BY DEF Init
  <1>3. \A p \in Pods : pods[p] # NoPod => ~pods[p].unhealthy
    BY <1>2 DEF pods
  <1> QED
    BY <1>1, <1>3 DEF Init, DueInv, MarkedBound, WorkerFresh, NoEvictionForgotten, EvictDue, Idle, Steps

LEMMA MarkedStep == DueInv /\ [Next]_vars => MarkedBound'
  <1> SUFFICES ASSUME DueInv, [Next]_vars PROVE MarkedBound'
    OBVIOUS
  <1>a. TypeInv /\ TypeOK /\ MarkedBound /\ pods \in PodView
    BY ViewFacts DEF DueInv, TypeInv
  <1>k. ASSUME pods' = pods PROVE MarkedBound'
    BY <1>a, <1>k DEF MarkedBound
  <1>w. ASSUME NEW p \in Pods, NEW v \in Pod \cup {NoPod}, WritePod(p, v),
               v # NoPod /\ v.unhealthy => v.node # NoNode
        PROVE  MarkedBound'
    <2>1. pods' = [pods EXCEPT ![p] = v]
      BY <1>a, <1>w, WriteUnderWay
    <2>2. \A q \in Pods : pods'[q] = IF q = p THEN v ELSE pods[q]
      BY <1>a, <2>1 DEF PodView
    <2> QED
      BY <1>a, <1>w, <2>2 DEF MarkedBound
  <1>1. CASE UNCHANGED podViews
    BY <1>1, <1>k DEF pods
  <1>2. CASE EvictPod
    <2>1. worker.pod \in Pods
      BY <1>2, <1>a, WorkerFacts DEF EvictPod, Steps, Reconcile
    <2>2. CASE UNCHANGED <<podViews, everMet>>
      BY <1>1, <2>2
    <2>3. CASE /\ pods[worker.pod] # NoPod
               /\ WritePod(worker.pod, [pods[worker.pod] EXCEPT !.terminating = TRUE])
      <3> DEFINE v == [pods[worker.pod] EXCEPT !.terminating = TRUE]
      <3>1. pods[worker.pod] \in Pod
        BY <1>a, <2>1, <2>3 DEF PodView
      <3>2. v \in Pod /\ v.unhealthy = pods[worker.pod].unhealthy /\ v.node = pods[worker.pod].node
        BY <3>1 DEF Pod
      <3> QED
        BY <1>a, <1>w, <2>1, <2>3, <3>2 DEF MarkedBound
    <2> QED
      BY <1>2, <2>2, <2>3 DEF EvictPod
  <1>3. CASE DeliverPods
    BY <1>3, <1>a, <1>k, DeliverQueues
  <1>4. CASE OperatorRestart
    <2>1. pods' = pods
      BY <1>4 DEF OperatorRestart, pods
    <2> QED
      BY <1>k, <2>1
  <1>5. ASSUME NEW p \in Pods, CreatePod(p) \/ RemovePod(p) PROVE MarkedBound'
    <2> DEFINE fresh == [node |-> NoNode, unhealthy |-> FALSE, terminating |-> FALSE]
    <2>1. fresh \in Pod /\ ~fresh.unhealthy
      BY DEF Pod
    <2> QED
      BY <1>5, <1>w, <2>1 DEF CreatePod, RemovePod
  <1>6. ASSUME NEW p \in Pods, NEW n \in Nodes, BindPod(p, n) PROVE MarkedBound'
    <2> DEFINE v == [pods[p] EXCEPT !.node = n]
    <2>1. WritePod(p, v) /\ pods[p] \in Pod
      BY <1>a, <1>6 DEF BindPod, PodView
    <2>2. v \in Pod /\ v.node = n
      BY <2>1 DEF Pod
    <2> QED
      BY <1>w, <2>1, <2>2
  <1>7. ASSUME NEW p \in Pods, NEW u \in BOOLEAN, AgentMarks(p, u) PROVE MarkedBound'
    <2> DEFINE v == [pods[p] EXCEPT !.unhealthy = u]
    <2>1. WritePod(p, v) /\ pods[p] \in Pod /\ pods[p].node # NoNode
      BY <1>a, <1>7 DEF AgentMarks, Bound, PodView
    <2>2. v \in Pod /\ v.node = pods[p].node
      BY <2>1 DEF Pod
    <2> QED
      BY <1>w, <2>1, <2>2
  <1>8. CASE Controller /\ ~EvictPod
    BY <1>1, <1>8 DEF Controller, StartReconcile, ReleaseNode, DecideTaint, TaintNode, UntaintNode,
       CheckThrottling, RequestFails
  <1>9. CASE \/ \E p \in Pods : RequeueTimer(p)
             \/ DeliverNodes
             \/ \E n \in Nodes : OtherTaints(n)
             \/ UNCHANGED vars
    BY <1>1, <1>9 DEF RequeueTimer, DeliverNodes, OtherTaints, vars
  <1> QED
    BY <1>2, <1>3, <1>4, <1>5, <1>6, <1>7, <1>8, <1>9 DEF Next

(* Of the steps of the worker; the cache does not change under them. *)
LEMMA DueController ==
  ASSUME DueInv, Controller
  PROVE  WorkerFresh' /\ NoEvictionForgotten'
  <1>a. TypeInv /\ TypeOK /\ WorkerShape /\ MarkedBound /\ WorkerFresh /\ NoEvictionForgotten
        /\ podCache \in PodView /\ pods \in PodView /\ Len(podViews) \in Nat /\ Len(podViews) >= 1
    BY ViewFacts DEF DueInv, TypeInv
  <1>n. \A p \in Pods : Due(p) =>
          p \in queue \cup delayed \/ (worker # Idle /\ worker.pod = p) \/ ChangeUnderWay(p)
    BY <1>a DEF NoEvictionForgotten, Due
  <1>q. /\ worker.step \in Steps => worker \in Reconcile /\ worker.pod \in Pods /\ worker # Idle
        /\ worker # Idle => worker.step \in Steps
    BY <1>a, WorkerFacts DEF Reconcile, TypeOK
  <1>c. \A p \in Pods : ChangeUnderWay(p) \/ podCache[p] = pods[p]
    BY <1>a DEF ChangeUnderWay, podCache
  (* Why the reconcile of a pod that is due goes on. *)
  <1>r. ASSUME worker.step \in Steps, Due(worker.pod)
        PROVE  /\ TaintEnabled(worker.policy) /\ worker.policy.enableEvict /\ worker.step # "release"
               /\ worker.snapshot.unhealthy \/ worker.pod \in queue \/ ChangeUnderWay(worker.pod)
    <2>1. worker.policy \in Matching[worker.pod] /\ worker.policy \in Policies
      BY <1>a, <1>q, <1>r DEF WorkerFresh, findMatchingPolicy, Due, EvictDue
    <2>2. TaintEnabled(worker.policy) /\ worker.policy.enableEvict
      BY <1>r, <2>1 DEF TaintEnabled, Due, EvictDue
    <2>3. pods[worker.pod].unhealthy
      BY <1>r DEF Due, EvictDue
    <2> QED
      BY <1>a, <1>c, <1>q, <1>r, <2>2, <2>3 DEF WorkerFresh
  <1>z. ASSUME UNCHANGED podViews,
               \A p \in Pods : Due(p) =>
                 p \in queue' \cup delayed' \/ (worker' # Idle /\ worker'.pod = p) \/ ChangeUnderWay(p)
        PROVE  podCache' = podCache /\ NoEvictionForgotten'
    <2>1. podCache' = podCache /\ pods' = pods
      BY <1>z DEF podCache, pods
    <2>2. \A p \in Pods : /\ EvictDue(p)' => EvictDue(p)
                          /\ ChangeUnderWay(p) => ChangeUnderWay(p)'
      BY <1>z, <2>1 DEF EvictDue, ChangeUnderWay
    <2> QED
      BY <1>z, <2>1, <2>2 DEF NoEvictionForgotten, Due, Idle
  <1>g. ASSUME worker.step \in Steps, NEW s \in Steps, s # "release", GoTo(s),
               s = "evict" => worker.snapshot.unhealthy,
               UNCHANGED <<podViews, queue, delayed>>
        PROVE  WorkerFresh' /\ NoEvictionForgotten'
    <2>1. /\ worker'.step = s /\ worker'.pod = worker.pod /\ worker'.snapshot = worker.snapshot
          /\ worker'.policy = worker.policy /\ worker' # Idle
      BY <1>g, <1>q, GoToType DEF Idle, Steps
    <2>2. podCache' = podCache /\ NoEvictionForgotten'
      BY <1>g, <1>n, <1>z, <2>1
    <2> QED
      BY <1>a, <1>g, <2>1, <2>2 DEF WorkerFresh, findMatchingPolicy
  <1>i. worker' = Idle => WorkerFresh'
    BY DEF WorkerFresh, Idle, Steps
  <1>d. ASSUME worker.step \in Steps, worker' = Idle, UNCHANGED <<podViews, queue, delayed>>,
               Due(worker.pod) => worker.pod \in queue \/ ChangeUnderWay(worker.pod)
        PROVE  WorkerFresh' /\ NoEvictionForgotten'
    BY <1>d, <1>i, <1>n, <1>z
  <1>y. ASSUME worker.step \in Steps, Requeue, UNCHANGED <<podViews, queue>>
        PROVE  WorkerFresh' /\ NoEvictionForgotten'
    BY <1>y, <1>i, <1>n, <1>z DEF Requeue
  <1>1. ASSUME NEW p \in Pods, StartReconcile(p) PROVE WorkerFresh' /\ NoEvictionForgotten'
    <2>1. worker = Idle /\ queue' = queue \ {p} /\ UNCHANGED <<podViews, delayed>>
      BY <1>1 DEF StartReconcile
    <2>2. CASE ~Bound(podCache, p) /\ worker' = Idle
      <3>1. Due(p) => ChangeUnderWay(p)
        BY <1>a, <1>c, <2>2 DEF Due, EvictDue, MarkedBound, Bound
      <3> QED
        BY <1>i, <1>n, <1>z, <2>1, <2>2, <3>1
    <2>3. CASE \E policy \in findMatchingPolicy(p) :
                 worker' = [step     |-> IF TaintEnabled(policy) THEN "decide" ELSE "release",
                            pod      |-> p,
                            snapshot |-> podCache[p],
                            policy   |-> policy]
      <3>1. PICK policy \in findMatchingPolicy(p) :
              worker' = [step     |-> IF TaintEnabled(policy) THEN "decide" ELSE "release",
                         pod      |-> p,
                         snapshot |-> podCache[p],
                         policy   |-> policy]
        BY <2>3
      <3>0. worker' # Idle
        BY <3>1 DEF Idle
      <3>2. /\ worker'.pod = p /\ worker'.snapshot = podCache[p] /\ worker'.policy = policy
            /\ worker'.step = "release" => ~TaintEnabled(policy)
            /\ worker'.step # "evict"
        BY <3>1
      <3>3. podCache' = podCache /\ NoEvictionForgotten'
        BY <1>n, <1>z, <2>1, <3>0, <3>2
      <3> QED
        BY <3>2, <3>3 DEF WorkerFresh, findMatchingPolicy, TaintEnabled
    <2> QED
      BY <1>1, <2>2, <2>3 DEF StartReconcile, Done
  <1>2. CASE ReleaseNode
    BY <1>2, <1>d, <1>g, <1>r DEF ReleaseNode, Done, Steps
  <1>3. CASE DecideTaint
    BY <1>3, <1>g DEF DecideTaint, Steps
  <1>4. CASE TaintNode \/ UntaintNode
    BY <1>4, <1>d, <1>g, <1>r DEF TaintNode, UntaintNode, NodeDone, Done, Steps
  <1>5. CASE CheckThrottling
    <2>1. worker.step \in Steps /\ UNCHANGED <<podViews, queue>>
      BY <1>5 DEF CheckThrottling, Steps
    <2>2. CASE Requeue
      BY <1>y, <2>1, <2>2
    <2>3. CASE worker.snapshot.unhealthy /\ GoTo("evict") /\ UNCHANGED delayed
      BY <1>g, <2>1, <2>3 DEF Steps
    <2>4. CASE ~(worker.snapshot.unhealthy /\ worker.policy.enableEvict) /\ worker' = Idle /\ UNCHANGED delayed
      BY <1>d, <1>r, <2>1, <2>4
    <2> QED
      BY <1>5, <2>2, <2>3, <2>4 DEF CheckThrottling, Done
  <1>6. CASE EvictPod
    <2>1. worker.step \in Steps /\ worker.pod \in Pods /\ worker # Idle /\ UNCHANGED queue
      BY <1>6, <1>q DEF EvictPod, Steps
    <2>2. CASE Requeue /\ UNCHANGED podViews
      BY <1>y, <2>1, <2>2
    <2>3. CASE /\ pods[worker.pod] # NoPod /\ worker' = Idle /\ UNCHANGED delayed
               /\ WritePod(worker.pod, [pods[worker.pod] EXCEPT !.terminating = TRUE])
      <3> DEFINE v == [pods[worker.pod] EXCEPT !.terminating = TRUE]
      <3>1. pods[worker.pod] \in Pod
        BY <1>a, <2>1, <2>3 DEF PodView
      <3>2. v \in Pod /\ v.terminating
        BY <3>1 DEF Pod
      <3>3. /\ pods' = [pods EXCEPT ![worker.pod] = v]
            /\ \A q \in Pods : q # worker.pod /\ ChangeUnderWay(q) => ChangeUnderWay(q)'
        BY <1>a, <2>1, <2>3, <3>2, WriteUnderWay
      <3> HIDE DEF v
      <3>4. \A q \in Pods : pods'[q] = IF q = worker.pod THEN v ELSE pods[q]
        BY <1>a, <3>3 DEF PodView
      <3>5. \A q \in Pods : EvictDue(q)' => q # worker.pod /\ EvictDue(q)
        BY <3>2, <3>4 DEF EvictDue
      <3>6. NoEvictionForgotten'
        BY <1>n, <2>1, <2>3, <3>3, <3>5 DEF NoEvictionForgotten, Due
      <3> QED
        BY <1>i, <2>3, <3>6
    <2> QED
      BY <1>6, <2>2, <2>3 DEF EvictPod, Done
  <1>7. CASE RequestFails
    BY <1>7, <1>y DEF RequestFails, Steps
  <1> QED
    BY <1>1, <1>2, <1>3, <1>4, <1>5, <1>6, <1>7 DEF Controller

LEMMA DueStep == DueInv /\ [Next]_vars => DueInv'
  <1> SUFFICES ASSUME DueInv, [Next]_vars PROVE DueInv'
    OBVIOUS
  <1>a. TypeInv /\ TypeOK /\ MarkedBound /\ WorkerFresh /\ NoEvictionForgotten /\ pods \in PodView
    BY ViewFacts DEF DueInv, TypeInv
  <1>n. \A p \in Pods : Due(p) =>
          p \in queue \cup delayed \/ (worker # Idle /\ worker.pod = p) \/ ChangeUnderWay(p)
    BY <1>a DEF NoEvictionForgotten, Due
  <1>q. worker.step \in Steps => worker.pod \in Pods
    BY <1>a, WorkerFacts DEF Reconcile
  <1>b. TypeInv' /\ MarkedBound'
    BY <1>a, TypeStep, MarkedStep
  <1>z. ASSUME WorkerFresh', NoEvictionForgotten' PROVE DueInv'
    BY <1>b, <1>z DEF DueInv
  (* The worker, and what it read, are left alone; no request is lost. *)
  <1>k. ASSUME worker' = worker, pods' = pods, queue \cup delayed \subseteq queue' \cup delayed', queue \subseteq queue',
               \A q \in Pods : podCache'[q] = podCache[q] \/ q \in queue',
               \A q \in Pods : ChangeUnderWay(q) => q \in queue' \/ ChangeUnderWay(q)'
        PROVE  DueInv'
    <2>1. WorkerFresh'
      BY <1>a, <1>k, <1>q DEF WorkerFresh, findMatchingPolicy
    <2>2. \A q \in Pods : EvictDue(q)' => EvictDue(q)
      BY <1>k DEF EvictDue
    <2>3. NoEvictionForgotten'
      BY <1>k, <1>n, <2>2 DEF NoEvictionForgotten, Due, Idle
    <2> QED
      BY <1>z, <2>1, <2>3
  (* The cluster writes a pod. *)
  <1>w. ASSUME NEW p \in Pods, NEW v \in Pod \cup {NoPod}, WritePod(p, v), v # pods[p], UNCHANGED <<queue, delayed, worker>>
        PROVE  DueInv'
    <2>1. /\ podCache' = podCache
          /\ pods' = [pods EXCEPT ![p] = v]
          /\ \A q \in Pods : q # p /\ ChangeUnderWay(q) => ChangeUnderWay(q)'
          /\ ChangeUnderWay(p)'
      BY <1>a, <1>w, WriteUnderWay
    <2>2. WorkerFresh'
      BY <1>a, <1>w, <2>1 DEF WorkerFresh, findMatchingPolicy
    <2>3. \A q \in Pods : q # p => pods'[q] = pods[q]
      BY <1>a, <2>1 DEF PodView
    <2>4. \A q \in Pods : q # p /\ EvictDue(q)' => EvictDue(q)
      BY <2>3 DEF EvictDue
    <2>5. NoEvictionForgotten'
      BY <1>n, <1>w, <2>1, <2>4 DEF NoEvictionForgotten, Due, Idle
    <2> QED
      BY <1>z, <2>2, <2>5
  <1>v. ASSUME UNCHANGED podViews
        PROVE  /\ pods' = pods /\ podCache' = podCache
               /\ \A q \in Pods : ChangeUnderWay(q) => ChangeUnderWay(q)'
    BY <1>v DEF pods, podCache, ChangeUnderWay
  <1>1. CASE Controller
    BY <1>1, <1>z, DueController
  <1>2. CASE DeliverPods
    <2>1. /\ pods' = pods /\ queue \subseteq queue'
          /\ \A q \in Pods : podCache'[q] = podCache[q] \/ q \in queue'
          /\ \A q \in Pods : ChangeUnderWay(q) => q \in queue' \/ ChangeUnderWay(q)'
      BY <1>2, <1>a, DeliverQueues
    <2>2. UNCHANGED <<worker, delayed>>
      BY <1>2 DEF DeliverPods
    <2> QED
      BY <1>k, <2>1, <2>2
  <1>3. CASE DeliverNodes \/ \E n \in Nodes : OtherTaints(n)
    <2>1. UNCHANGED <<podViews, queue, delayed, worker>>
      BY <1>3 DEF DeliverNodes, OtherTaints
    <2> QED
      BY <1>k, <1>v, <2>1
  <1>4. ASSUME NEW p \in Pods, RequeueTimer(p) PROVE DueInv'
    <2>1. UNCHANGED <<podViews, worker>> /\ queue \subseteq queue' /\ queue \cup delayed \subseteq queue' \cup delayed'
      BY <1>4 DEF RequeueTimer
    <2> QED
      BY <1>k, <1>v, <2>1
  <1>5. CASE OperatorRestart
    <2>1. worker' = Idle /\ queue' = {p \in Pods : pods[p] # NoPod} /\ podViews' = <<pods>>
      BY <1>5 DEF OperatorRestart
    <2>2. pods' = pods
      BY <2>1 DEF pods
    <2>3. \A p \in Pods : EvictDue(p)' => p \in queue'
      BY <2>1, <2>2 DEF EvictDue
    <2>4. WorkerFresh'
      BY <2>1 DEF WorkerFresh, Idle, Steps
    <2>5. NoEvictionForgotten'
      BY <2>3 DEF NoEvictionForgotten
    <2> QED
      BY <1>z, <2>4, <2>5
  <1>6. ASSUME NEW p \in Pods, CreatePod(p) \/ RemovePod(p) PROVE DueInv'
    <2> DEFINE fresh == [node |-> NoNode, unhealthy |-> FALSE, terminating |-> FALSE]
    <2>1. fresh \in Pod
      BY DEF Pod
    <2>2. fresh # NoPod
      <3> HIDE DEF fresh
      <3> QED
        BY <2>1
    <2> QED
      BY <1>6, <1>w, <2>1, <2>2 DEF CreatePod, RemovePod
  <1>7. ASSUME NEW p \in Pods, NEW n \in Nodes, BindPod(p, n) PROVE DueInv'
    <2> DEFINE v == [pods[p] EXCEPT !.node = n]
    <2>1. WritePod(p, v) /\ pods[p] \in Pod /\ pods[p].node # n /\ UNCHANGED <<queue, delayed, worker>>
      BY <1>a, <1>7 DEF BindPod, PodView
    <2>2. v \in Pod /\ v.node = n
      BY <2>1 DEF Pod
    <2> QED
      BY <1>w, <2>1, <2>2
  <1>8. ASSUME NEW p \in Pods, NEW u \in BOOLEAN, AgentMarks(p, u) PROVE DueInv'
    <2> DEFINE v == [pods[p] EXCEPT !.unhealthy = u]
    <2>1. WritePod(p, v) /\ pods[p] \in Pod /\ pods[p].unhealthy # u /\ UNCHANGED <<queue, delayed, worker>>
      BY <1>a, <1>8 DEF AgentMarks, Bound, PodView
    <2>2. v \in Pod /\ v.unhealthy = u
      BY <2>1 DEF Pod
    <2> QED
      BY <1>w, <2>1, <2>2
  <1>9. CASE UNCHANGED vars
    BY <1>9, <1>k, <1>v DEF vars
  <1> QED
    BY <1>1, <1>2, <1>3, <1>4, <1>5, <1>6, <1>7, <1>8, <1>9 DEF Next

(* A pod that is due for eviction is never forgotten, for any pods, nodes, *)
(* policies and lag of the cache, through failed requests, the throttle,   *)
(* lifted verdicts, pods that return under a name and restarts of the      *)
(* operator (health_controller.go:94, 114, 119).                           *)
THEOREM NoEvictionForgottenHolds == Spec => []NoEvictionForgotten
  <1>1. DueInv => NoEvictionForgotten
    BY DEF DueInv
  <1> QED
    BY <1>1, DueInit, DueStep, PTL DEF Spec
-----------------------------------------------------------------------------
(* What an eviction hits.                                                  *)

(* Nothing but evictPod begins an eviction. *)
LEMMA EvictionByWorker ==
  ASSUME TypeInv, [Next]_vars, NEW p \in Pods,
         pods[p] # NoPod, ~pods[p].terminating, pods'[p] # NoPod, pods'[p].terminating
  PROVE  worker.step = "evict" /\ p = worker.pod
  <1>a. TypeOK /\ pods \in PodView
    BY ViewFacts DEF TypeInv
  <1>v. ~UNCHANGED podViews
    BY DEF pods
  <1>w. ASSUME NEW q \in Pods, NEW v \in Pod \cup {NoPod}, WritePod(q, v)
        PROVE  p = q /\ pods'[p] = v
    <2>1. pods' = [pods EXCEPT ![q] = v]
      BY <1>a, <1>w, WriteUnderWay
    <2> QED
      BY <1>a, <2>1 DEF PodView
  <1>1. CASE Controller
    <2>1. EvictPod
      BY <1>1, <1>v DEF Controller, StartReconcile, ReleaseNode, DecideTaint, TaintNode, UntaintNode,
                        CheckThrottling, RequestFails
    <2>2. /\ worker.step = "evict" /\ pods[worker.pod] # NoPod
          /\ WritePod(worker.pod, [pods[worker.pod] EXCEPT !.terminating = TRUE])
      BY <1>v, <2>1 DEF EvictPod
    <2>3. worker.pod \in Pods
      BY <1>a, <2>2, WorkerFacts DEF TypeInv, Reconcile, Steps
    <2>4. [pods[worker.pod] EXCEPT !.terminating = TRUE] \in Pod
      BY <1>a, <2>2, <2>3 DEF PodView, Pod
    <2> QED
      BY <1>w, <2>2, <2>3, <2>4
  <1>2. CASE DeliverPods
    BY <1>2, <1>a, DeliverQueues
  <1>3. CASE OperatorRestart
    BY <1>3 DEF OperatorRestart, pods
  <1>4. CASE DeliverNodes \/ (\E q \in Pods : RequeueTimer(q)) \/ (\E n \in Nodes : OtherTaints(n)) \/ UNCHANGED vars
    BY <1>4, <1>v DEF DeliverNodes, RequeueTimer, OtherTaints, vars
  <1>5. ASSUME NEW q \in Pods, CreatePod(q) \/ RemovePod(q) PROVE FALSE
    <2> DEFINE fresh == [node |-> NoNode, unhealthy |-> FALSE, terminating |-> FALSE]
    <2>1. fresh \in Pod /\ ~fresh.terminating
      BY DEF Pod
    <2>2. WritePod(q, fresh) \/ WritePod(q, NoPod)
      BY <1>5 DEF CreatePod, RemovePod
    <2> HIDE DEF fresh
    <2> QED
      BY <1>w, <2>1, <2>2
  <1>6. ASSUME NEW q \in Pods, NEW n \in Nodes, BindPod(q, n) PROVE FALSE
    <2> DEFINE v == [pods[q] EXCEPT !.node = n]
    <2>1. WritePod(q, v) /\ pods[q] \in Pod
      BY <1>a, <1>6 DEF BindPod, PodView
    <2>2. v \in Pod /\ v.terminating = pods[q].terminating
      BY <2>1 DEF Pod
    <2> HIDE DEF v
    <2> QED
      BY <1>w, <2>1, <2>2
  <1>7. ASSUME NEW q \in Pods, NEW u \in BOOLEAN, AgentMarks(q, u) PROVE FALSE
    <2> DEFINE v == [pods[q] EXCEPT !.unhealthy = u]
    <2>1. WritePod(q, v) /\ pods[q] \in Pod
      BY <1>a, <1>7 DEF AgentMarks, Bound, PodView
    <2>2. v \in Pod /\ v.terminating = pods[q].terminating
      BY <2>1 DEF Pod
    <2> HIDE DEF v
    <2> QED
      BY <1>w, <2>1, <2>2
  <1> QED
    BY <1>1, <1>2, <1>3, <1>4, <1>5, <1>6, <1>7 DEF Next

(* A healthy pod is evicted only in ignorance: the cache has yet to learn  *)
(* of the lifted verdict or of the successor, or the request that tells    *)
(* the worker is queued (health_controller.go:108, 217).  For any pods,    *)
(* nodes, policies and lag of the caches, under every fault of the model.  *)
THEOREM HealthyEvictedOnlyUnseenHolds == Spec => HealthyEvictedOnlyUnseen
  <1>1. ASSUME DueInv, [Next]_vars
        PROVE  [\A p \in Pods :
                  /\ pods[p] # NoPod /\ ~pods[p].unhealthy /\ ~pods[p].terminating
                  /\ pods'[p] # NoPod /\ pods'[p].terminating
                  => ChangeUnderWay(p) \/ p \in queue]_vars
    <2> SUFFICES ASSUME NEW p \in Pods, pods[p] # NoPod, ~pods[p].unhealthy, ~pods[p].terminating,
                        pods'[p] # NoPod, pods'[p].terminating
                 PROVE  ChangeUnderWay(p) \/ p \in queue
      OBVIOUS
    <2>1. worker.step = "evict" /\ p = worker.pod
      BY <1>1, EvictionByWorker DEF DueInv
    <2>2. worker.snapshot.unhealthy /\ (worker.snapshot = podCache[p] \/ p \in queue)
      BY <1>1, <2>1 DEF DueInv, WorkerFresh, Steps
    <2>3. Len(podViews) \in Nat /\ Len(podViews) >= 1
      BY <1>1, ViewFacts DEF DueInv, TypeInv
    <2>4. podCache[p] # pods[p] => ChangeUnderWay(p)
      BY <2>3 DEF ChangeUnderWay, podCache
    <2> QED
      BY <2>2, <2>4
  <1> QED
    BY <1>1, DueInit, DueStep, PTL DEF Spec, HealthyEvictedOnlyUnseen
=============================================================================
