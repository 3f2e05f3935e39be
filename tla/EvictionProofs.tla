--------------------------- MODULE EvictionProofs ---------------------------
(***************************************************************************)
(* HealthController evicts within the 5% budget of a policy, and only pods *)
(* that are marked, although it checks both on a cache that may be late by *)
(* any number of changes.  The argument: without lifted verdicts and       *)
(* returning pods a pod only gets worse, so what the cache says of a bad   *)
(* pod is still true of it, or the pod is gone.                            *)
(***************************************************************************)
EXTENDS HealthControllerProofs, FiniteSetTheorems

(* b is a later state of the pod in state a. *)
Worse(a, b) == b = NoPod \/ (a # NoPod /\ (a.unhealthy => b.unhealthy))

ViewsWorsen ==
  \A i, j \in 1 .. Len(podViews) : i <= j =>
    \A p \in Pods : Worse(podViews[i][p], podViews[j][p])

(* From the cache to the server: unhealthy or gone. *)
AllBad(p) == \A i \in 1 .. Len(podViews) : podViews[i][p] = NoPod \/ podViews[i][p].unhealthy

Evicted(p) == pods[p] # NoPod /\ pods[p].terminating

EvictedBad == \A p \in Pods : Evicted(p) => AllBad(p)

(* What the reconcile under way knows of its pod. *)
WorkerBad ==
  worker.step \in Steps =>
    /\ worker.snapshot.unhealthy => AllBad(worker.pod)
    /\ worker.step = "evict" => worker.snapshot.unhealthy
    /\ worker.policy # NoPolicy => worker.policy \in Matching[worker.pod]

BadInv == TypeInv /\ ViewsWorsen /\ EvictedBad /\ WorkerBad

LEMMA WorseFacts ==
  /\ \A a \in Pod \cup {NoPod} : Worse(a, a)
  /\ \A a, b, c \in Pod \cup {NoPod} : Worse(a, b) /\ Worse(b, c) => Worse(a, c)
BY DEF Worse

LEMMA BadInit == Init => BadInv
<1> SUFFICES ASSUME Init PROVE BadInv
  OBVIOUS
<1>1. TypeInv
  BY TypeInit
<1>2. PICK view \in [Pods -> {NoPod} \cup {pod \in Pod : ~pod.unhealthy /\ ~pod.terminating}] : podViews = <<view>>
  BY DEF Init
<1>3. view \in PodView
  BY <1>2 DEF PodView
<1>4. ViewsWorsen
  BY <1>2, <1>3, WorseFacts DEF ViewsWorsen, PodView
<1>5. \A p \in Pods : ~Evicted(p)
  BY <1>2 DEF Evicted, pods
<1> QED
  BY <1>1, <1>4, <1>5 DEF Init, BadInv, EvictedBad, WorkerBad, Idle, Steps

(* A write that makes a pod worse. *)
LEMMA WriteWorsens ==
  ASSUME TypeOK, ViewsWorsen, NEW p \in Pods, NEW v \in Pod \cup {NoPod}, WritePod(p, v), Worse(pods[p], v)
  PROVE  /\ pods' = [pods EXCEPT ![p] = v]
         /\ ViewsWorsen'
         /\ \A q \in Pods : AllBad(q) => AllBad(q)'
<1> DEFINE view == [pods EXCEPT ![p] = v]
           n    == Len(podViews)
<1>1. podViews \in Seq(PodView) /\ n \in Nat /\ n >= 1 /\ pods \in PodView /\ pods = podViews[n]
  BY ViewFacts DEF TypeOK, PodView, pods
<1>2. view \in PodView /\ \A q \in Pods : Worse(pods[q], view[q])
  BY <1>1, WorseFacts DEF PodView
<1>3. \A i \in 1 .. n : podViews[i] \in PodView
  BY <1>1
<1>4. \A i \in 1 .. n : \A q \in Pods : Worse(podViews[i][q], view[q])
  <2>1. \A i \in 1 .. n : \A q \in Pods : Worse(podViews[i][q], pods[q])
    BY <1>1 DEF ViewsWorsen
  <2> QED
    BY <1>1, <1>2, <1>3, <2>1, WorseFacts DEF PodView
<1>5. \A q \in Pods : AllBad(q) => view[q] = NoPod \/ view[q].unhealthy
  BY <1>1, <1>2 DEF AllBad, Worse
<1>6. (view = pods /\ podViews' = podViews) \/ podViews' = Append(podViews, view)
  BY DEF WritePod
<1> HIDE DEF view, n
<1>7. CASE view = pods /\ podViews' = podViews
  <2>1. pods' = pods
    BY <1>7 DEF pods
  <2> QED
    BY <1>7, <2>1 DEF view, ViewsWorsen, AllBad
<1>8. CASE podViews' = Append(podViews, view)
  <2>1. /\ Len(podViews') = n + 1
        /\ \A i \in 1 .. n : podViews'[i] = podViews[i]
        /\ podViews'[n + 1] = view
    BY <1>1, <1>2, <1>8, AppendProperties DEF n
  <2>2. \A i \in 1 .. n + 1 : i \in 1 .. n \/ i = n + 1
    BY <1>1
  <2>3. pods' = view
    BY <2>1 DEF pods
  <2>4. \A q \in Pods : AllBad(q) => AllBad(q)'
    BY <1>5, <2>1, <2>2 DEF AllBad, n
  <2>5. ASSUME NEW i \in 1 .. n + 1, NEW j \in 1 .. n + 1, i <= j, NEW q \in Pods
        PROVE  Worse(podViews'[i][q], podViews'[j][q])
    <3>1. CASE j \in 1 .. n
      <4>1. i \in 1 .. n
        BY <1>1, <2>5, <3>1
      <4> QED
        BY <2>1, <2>5, <3>1, <4>1 DEF ViewsWorsen, n
    <3>2. CASE j = n + 1 /\ i \in 1 .. n
      BY <1>4, <2>1, <3>2
    <3>3. CASE j = n + 1 /\ i = n + 1
      BY <1>2, <2>1, <3>3, WorseFacts DEF PodView
    <3> QED
      BY <2>2, <3>1, <3>2, <3>3
  <2>6. ViewsWorsen'
    BY <2>1, <2>5 DEF ViewsWorsen, Worse
  <2> QED
    BY <2>3, <2>4, <2>6 DEF view
<1> QED
  BY <1>6, <1>7, <1>8

(* A delivery, or a new start of the operator, drops old states. *)
LEMMA DropWorsens ==
  ASSUME TypeOK, ViewsWorsen, DeliverPods \/ OperatorRestart
  PROVE  /\ pods' = pods
         /\ ViewsWorsen'
         /\ \A q \in Pods : AllBad(q) => AllBad(q)'
<1> DEFINE n == Len(podViews)
<1>1. podViews \in Seq(PodView) /\ n \in Nat /\ n >= 1 /\ pods \in PodView /\ pods = podViews[n]
  BY ViewFacts DEF TypeOK, PodView, pods
<1>2. CASE DeliverPods
  <2>1. podViews # <<>> /\ n > 1 /\ podViews' = Tail(podViews)
    BY <1>2 DEF DeliverPods, TypeOK
  <2>2. Len(podViews') = n - 1 /\ \A i \in 1 .. Len(podViews') : podViews'[i] = podViews[i + 1]
    BY <1>1, <2>1, HeadTailProperties
  <2> HIDE DEF n
  <2>3. \A i \in 1 .. n - 1 : i + 1 \in 1 .. n
    BY <1>1
  <2>4. n - 1 \in 1 .. n - 1 /\ n - 1 + 1 = n
    BY <1>1, <2>1
  <2>5. pods' = pods
    <3>1. podViews'[n - 1] = podViews[n - 1 + 1]
      BY <2>2, <2>4
    <3> QED
      BY <1>1, <2>2, <2>4, <3>1 DEF pods
  <2>6. \A q \in Pods : AllBad(q) => AllBad(q)'
    BY <2>2, <2>3 DEF AllBad, n
  <2>7. \A i, j \in 1 .. n - 1 : i <= j => \A q \in Pods : Worse(podViews'[i][q], podViews'[j][q])
    <3>1. \A i, j \in 1 .. n - 1 : i <= j => i + 1 <= j + 1
      BY <1>1
    <3> QED
      BY <2>2, <2>3, <3>1 DEF ViewsWorsen, n
  <2>8. ViewsWorsen'
    BY <2>2, <2>7 DEF ViewsWorsen, Worse
  <2> QED
    BY <2>5, <2>6, <2>8
<1>3. CASE OperatorRestart
  <2>1. podViews' = <<pods>>
    BY <1>3 DEF OperatorRestart
  <2>2. Len(podViews') = 1 /\ podViews'[1] = pods
    BY <2>1
  <2>3. pods' = pods
    BY <2>2 DEF pods
  <2>4. \A q \in Pods : AllBad(q) => AllBad(q)'
    BY <1>1, <2>2 DEF AllBad
  <2>5. \A i, j \in 1 .. 1 : \A q \in Pods : Worse(podViews'[i][q], podViews'[j][q])
    BY <1>1, <2>2, WorseFacts DEF PodView
  <2>6. ViewsWorsen'
    BY <2>2, <2>5 DEF ViewsWorsen, Worse
  <2> QED
    BY <2>3, <2>4, <2>6
<1> QED
  BY <1>2, <1>3

(* Every step makes pods worse or leaves them, and only EvictPod evicts. *)
LEMMA PodsStep ==
  ASSUME ~VerdictMayLift, ~PodsMayReturn, BadInv, [Next]_vars
  PROVE  /\ ViewsWorsen'
         /\ \A q \in Pods : AllBad(q) => AllBad(q)'
         /\ \A q \in Pods : pods[q] = NoPod => pods'[q] = NoPod
         /\ \A q \in Pods : Evicted(q)' => Evicted(q) \/ (worker.step = "evict" /\ q = worker.pod)
<1> DEFINE Goal == /\ ViewsWorsen'
                   /\ \A q \in Pods : AllBad(q) => AllBad(q)'
                   /\ \A q \in Pods : pods[q] = NoPod => pods'[q] = NoPod
                   /\ \A q \in Pods : Evicted(q)' => Evicted(q) \/ (worker.step = "evict" /\ q = worker.pod)
<1>a. TypeInv /\ TypeOK /\ ViewsWorsen /\ pods \in PodView
  BY ViewFacts DEF BadInv, TypeInv
<1>k. ASSUME podViews' = podViews PROVE Goal
  BY <1>a, <1>k DEF ViewsWorsen, AllBad, Evicted, pods
<1>w. ASSUME NEW p \in Pods, NEW v \in Pod \cup {NoPod}, pods[p] # NoPod, WritePod(p, v), Worse(pods[p], v),
             v # NoPod /\ v.terminating => pods[p].terminating \/ (worker.step = "evict" /\ p = worker.pod)
      PROVE  Goal
  <2>1. /\ pods' = [pods EXCEPT ![p] = v]
        /\ ViewsWorsen'
        /\ \A q \in Pods : AllBad(q) => AllBad(q)'
    BY <1>a, <1>w, WriteWorsens
  <2>2. \A q \in Pods : pods'[q] = IF q = p THEN v ELSE pods[q]
    BY <1>a, <2>1 DEF PodView
  <2>3. \A q \in Pods : Evicted(q)' <=> pods'[q] # NoPod /\ pods'[q].terminating
    BY DEF Evicted
  <2> QED
    BY <1>w, <2>1, <2>2, <2>3 DEF Evicted
<1>1. CASE UNCHANGED podViews
  BY <1>1, <1>k
<1>2. CASE EvictPod
  <2>1. worker.step = "evict" /\ worker.pod \in Pods
    BY <1>2, <1>a, WorkerFacts DEF EvictPod, Steps, Reconcile
  <2>2. CASE UNCHANGED <<podViews, everMet>>
    BY <1>k, <2>2
  <2>3. CASE /\ pods[worker.pod] # NoPod
             /\ WritePod(worker.pod, [pods[worker.pod] EXCEPT !.terminating = TRUE])
    <3>1. pods[worker.pod] \in Pod
      BY <1>a, <2>1, <2>3 DEF PodView
    <3> DEFINE v == [pods[worker.pod] EXCEPT !.terminating = TRUE]
    <3>2. v \in Pod /\ v.unhealthy = pods[worker.pod].unhealthy
      BY <3>1 DEF Pod
    <3>3. Worse(pods[worker.pod], v)
      BY <2>3, <3>2 DEF Worse
    <3> QED
      BY <1>w, <2>1, <2>3, <3>2, <3>3
  <2> QED
    BY <1>2, <2>2, <2>3 DEF EvictPod
<1>3. CASE DeliverPods \/ OperatorRestart
  <2>1. pods' = pods /\ ViewsWorsen' /\ \A q \in Pods : AllBad(q) => AllBad(q)'
    BY <1>a, <1>3, DropWorsens
  <2> QED
    BY <2>1 DEF Evicted
<1>4. ASSUME NEW p \in Pods, RemovePod(p) PROVE Goal
  BY <1>4, <1>w DEF RemovePod, Worse
<1>5. ASSUME NEW p \in Pods, NEW n \in Nodes, BindPod(p, n) PROVE Goal
  <2>1. pods[p] # NoPod /\ pods[p] \in Pod /\ WritePod(p, [pods[p] EXCEPT !.node = n])
    BY <1>a, <1>5 DEF BindPod, PodView
  <2> DEFINE v == [pods[p] EXCEPT !.node = n]
  <2>2. v \in Pod /\ v.unhealthy = pods[p].unhealthy /\ v.terminating = pods[p].terminating
    BY <2>1 DEF Pod
  <2>3. Worse(pods[p], v)
    BY <2>1, <2>2 DEF Worse
  <2> QED
    BY <1>w, <2>1, <2>2, <2>3
<1>6. ASSUME NEW p \in Pods, NEW u \in BOOLEAN, AgentMarks(p, u) PROVE Goal
  <2>1. /\ pods[p] # NoPod /\ pods[p] \in Pod /\ u = TRUE
        /\ WritePod(p, [pods[p] EXCEPT !.unhealthy = u])
    BY <1>a, <1>6 DEF AgentMarks, Bound, PodView
  <2> DEFINE v == [pods[p] EXCEPT !.unhealthy = u]
  <2>2. v \in Pod /\ v.unhealthy = u /\ v.terminating = pods[p].terminating
    BY <2>1 DEF Pod
  <2>3. Worse(pods[p], v)
    BY <2>1, <2>2 DEF Worse
  <2> QED
    BY <1>w, <2>1, <2>2, <2>3
<1>7. CASE Controller /\ ~EvictPod
  BY <1>1, <1>7 DEF Controller, StartReconcile, ReleaseNode, DecideTaint, TaintNode, UntaintNode,
     CheckThrottling, RequestFails
<1>8. CASE \E p \in Pods : RequeueTimer(p)
  BY <1>1, <1>8 DEF RequeueTimer
<1>9. CASE DeliverNodes \/ \E n \in Nodes : OtherTaints(n)
  BY <1>1, <1>9 DEF DeliverNodes, OtherTaints
<1>10. CASE UNCHANGED vars
  BY <1>1, <1>10 DEF vars
<1>11. \A p \in Pods : ~CreatePod(p)
  BY DEF CreatePod
<1> QED
  BY <1>2, <1>3, <1>4, <1>5, <1>6, <1>7, <1>8, <1>9, <1>10, <1>11 DEF Next

(* A reconcile learns of a bad pod from the cache, and the cache is right. *)
LEMMA WorkerStep ==
  ASSUME ~VerdictMayLift, ~PodsMayReturn, BadInv, [Next]_vars
  PROVE  WorkerBad'
<1>a. TypeInv /\ TypeOK /\ ViewsWorsen /\ WorkerBad /\ podCache \in PodView /\ Len(podViews) \in Nat /\ Len(podViews) >= 1
  BY ViewFacts DEF BadInv, TypeInv
<1>b. TypeInv'
  BY <1>a, TypeStep
<1>p. \A q \in Pods : AllBad(q) => AllBad(q)'
  BY PodsStep
<1>i. ASSUME worker' = Idle PROVE WorkerBad'
  BY <1>i DEF WorkerBad, Idle, Steps
<1>q. worker.step \in Steps => worker \in Reconcile /\ worker.pod \in Pods
  BY <1>a, WorkerFacts DEF Reconcile
<1>k. ASSUME worker' = worker PROVE WorkerBad'
  BY <1>a, <1>k, <1>p, <1>q DEF WorkerBad
<1>g. ASSUME worker.step \in Steps, NEW s \in Steps, GoTo(s), s = "evict" => worker.snapshot.unhealthy
      PROVE  WorkerBad'
  <2>1. worker'.step = s /\ worker'.pod = worker.pod
        /\ worker'.snapshot = worker.snapshot /\ worker'.policy = worker.policy
    BY <1>g, <1>q, GoToType
  <2> QED
    BY <1>a, <1>g, <1>p, <1>q, <2>1 DEF WorkerBad
<1>1. ASSUME NEW p \in Pods, StartReconcile(p) PROVE WorkerBad'
  <2>1. CASE worker' = Idle
    BY <1>i, <2>1
  <2>2. CASE worker' # Idle
    <3>1. Bound(podCache, p)
      BY <1>1, <2>2 DEF StartReconcile, Done
    <3>2. PICK policy \in findMatchingPolicy(p) :
            worker' = [step     |-> IF TaintEnabled(policy) THEN "decide" ELSE "release",
                       pod      |-> p,
                       snapshot |-> podCache[p],
                       policy   |-> policy]
      BY <1>1, <2>2 DEF StartReconcile, Done
    <3>3. podCache[p].unhealthy => AllBad(p)
      BY <1>a, <3>1 DEF AllBad, ViewsWorsen, Worse, Bound, podCache
    <3>4. policy # NoPolicy => policy \in Matching[p]
      BY DEF findMatchingPolicy
    <3>5. worker'.step # "evict" /\ worker'.pod = p /\ worker'.snapshot = podCache[p] /\ worker'.policy = policy
      BY <3>2
    <3> QED
      BY <1>p, <3>3, <3>4, <3>5 DEF WorkerBad
  <2> QED
    BY <2>1, <2>2
<1>2. CASE ReleaseNode
  BY <1>2, <1>i, <1>g DEF ReleaseNode, Done, Steps
<1>3. CASE DecideTaint
  BY <1>3, <1>g DEF DecideTaint, Steps
<1>4. CASE TaintNode \/ UntaintNode
  BY <1>4, <1>i, <1>g DEF TaintNode, UntaintNode, NodeDone, Done, Steps
<1>5. CASE CheckThrottling
  BY <1>5, <1>i, <1>g DEF CheckThrottling, Requeue, Done, Steps
<1>6. CASE EvictPod \/ RequestFails \/ OperatorRestart
  BY <1>6, <1>i DEF EvictPod, RequestFails, OperatorRestart, Requeue, Done
<1>7. CASE DeliverPods \/ DeliverNodes \/ \E p \in Pods : RequeueTimer(p)
  BY <1>7, <1>k DEF DeliverPods, DeliverNodes, RequeueTimer
<1>8. CASE \/ \E p \in Pods : CreatePod(p) \/ RemovePod(p)
           \/ \E p \in Pods, n \in Nodes : BindPod(p, n)
           \/ \E p \in Pods, u \in BOOLEAN : AgentMarks(p, u)
           \/ \E n \in Nodes : OtherTaints(n)
  BY <1>8, <1>k DEF CreatePod, RemovePod, BindPod, AgentMarks, OtherTaints
<1>9. CASE UNCHANGED vars
  BY <1>9, <1>k DEF vars
<1> QED
  BY <1>1, <1>2, <1>3, <1>4, <1>5, <1>6, <1>7, <1>8, <1>9 DEF Next, Controller

LEMMA BadStep ==
  ASSUME ~VerdictMayLift, ~PodsMayReturn
  PROVE  BadInv /\ [Next]_vars => BadInv'
<1> SUFFICES ASSUME BadInv, [Next]_vars PROVE BadInv'
  OBVIOUS
<1>1. TypeInv'
  BY TypeStep DEF BadInv
<1>2. ViewsWorsen' /\ WorkerBad'
  BY PodsStep, WorkerStep
<1>3. worker.step = "evict" => AllBad(worker.pod)
  BY DEF BadInv, WorkerBad, Steps
<1>4. EvictedBad'
  BY <1>3, PodsStep DEF BadInv, EvictedBad
<1> QED
  BY <1>1, <1>2, <1>4 DEF BadInv
-----------------------------------------------------------------------------
(* Evictions within the budget.  The reconcile that is about to evict is   *)
(* the only cause of evictions, and its throttle counted every pod that is *)
(* being evicted: such a pod is unhealthy in the cache as well.            *)

Within(policy, S) ==
  Cardinality(S) <= 1 \/ 20 * Cardinality(S) <= Cardinality({p \in Pods : policy \in Matching[p]})

(* The eviction about to be sent stays in the budget, or fails. *)
WorkerWithin ==
  worker.step = "evict" =>
    \/ pods[worker.pod] = NoPod
    \/ Within(worker.policy, BeingEvicted(worker.policy) \cup {worker.pod})

EvictedWithin == \A policy \in Policies : Within(policy, BeingEvicted(policy))

ThrottleInv == BadInv /\ WorkerWithin /\ EvictedWithin

LEMMA WithinSubset ==
  ASSUME IsFiniteSet(Pods), NEW policy, NEW S \in SUBSET Pods, NEW T \in SUBSET S, Within(policy, S)
  PROVE  Within(policy, T)
<1>1. IsFiniteSet(S)
  BY FS_Subset
<1>2. /\ Cardinality(T) <= Cardinality(S)
      /\ Cardinality(T) \in Nat /\ Cardinality(S) \in Nat
  BY <1>1, FS_Subset, FS_CardinalityType
<1>3. Cardinality({p \in Pods : policy \in Matching[p]}) \in Nat
  <2>1. {p \in Pods : policy \in Matching[p]} \in SUBSET Pods
    OBVIOUS
  <2> QED
    BY <2>1, FS_Subset, FS_CardinalityType
<1> QED
  BY <1>2, <1>3 DEF Within

(* What passes the throttle is within the budget. *)
LEMMA ThrottleBounds ==
  ASSUME IsFiniteSet(Pods), NEW policy, NEW view, ~throttled(view, policy),
         NEW S \in SUBSET Pods,
         \A p \in S : view[p] # NoPod /\ view[p].unhealthy /\ policy \in Matching[p]
  PROVE  Within(policy, S)
<1> DEFINE all      == {r \in Pods : policy \in Matching[r]}
           matching == {r \in Pods : view[r] # NoPod /\ policy \in Matching[r]}
           bad      == {r \in matching : view[r].unhealthy}
<1>1. IsFiniteSet(all) /\ Cardinality(all) \in Nat
  BY FS_Subset, FS_CardinalityType
<1>2. IsFiniteSet(matching) /\ Cardinality(matching) \in Nat /\ Cardinality(matching) <= Cardinality(all)
  <2>1. matching \in SUBSET all
    OBVIOUS
  <2> HIDE DEF matching, all
  <2> QED
    BY <1>1, <2>1, FS_Subset, FS_CardinalityType
<1>3. bad \in SUBSET Pods
  OBVIOUS
<1>4. Cardinality(bad) \in Nat
  <2> HIDE DEF bad
  <2> QED
    BY <1>3, FS_Subset, FS_CardinalityType
<1>5. ~(20 * Cardinality(bad) > Cardinality(matching) /\ Cardinality(bad) > 1)
  BY DEF throttled
<1>6. S \in SUBSET bad
  OBVIOUS
<1> HIDE DEF matching, bad
<1>7. Within(policy, bad)
  <2>1. Cardinality(all) \in Nat
    BY <1>1
  <2>2. Cardinality(bad) <= 1 \/ 20 * Cardinality(bad) <= Cardinality(all)
    <3> HIDE DEF all
    <3> QED
      BY <1>2, <1>4, <1>5, <2>1
  <2> QED
    BY <2>2 DEF Within
<1> QED
  BY <1>3, <1>6, <1>7, WithinSubset

LEMMA ThrottleInit == Init => ThrottleInv
<1> SUFFICES ASSUME Init PROVE ThrottleInv
  OBVIOUS
<1>1. BadInv
  BY BadInit
<1>2. PICK view \in [Pods -> {NoPod} \cup {pod \in Pod : ~pod.unhealthy /\ ~pod.terminating}] : podViews = <<view>>
  BY DEF Init
<1>3. \A policy : BeingEvicted(policy) = {}
  BY <1>2 DEF BeingEvicted, pods
<1>4. EvictedWithin
  <2>1. Cardinality({}) = 0
    BY FS_EmptySet
  <2> QED
    BY <1>3, <2>1 DEF EvictedWithin, Within
<1> QED
  BY <1>1, <1>4 DEF Init, ThrottleInv, WorkerWithin, Idle

LEMMA ThrottleStep ==
  ASSUME ~VerdictMayLift, ~PodsMayReturn, IsFiniteSet(Pods),
         \A p \in Pods : \A a, b \in Matching[p] : a = b
  PROVE  ThrottleInv /\ [Next]_vars => ThrottleInv'
<1> SUFFICES ASSUME ThrottleInv, [Next]_vars PROVE ThrottleInv'
  OBVIOUS
<1>a. BadInv /\ TypeInv /\ TypeOK /\ WorkerShape /\ WorkerBad /\ ViewsWorsen /\ EvictedBad /\ WorkerWithin /\ EvictedWithin
  BY DEF ThrottleInv, BadInv, TypeInv
<1>b. BadInv'
  BY <1>a, BadStep
<1>p. /\ \A q \in Pods : pods[q] = NoPod => pods'[q] = NoPod
      /\ \A q \in Pods : Evicted(q)' => Evicted(q) \/ (worker.step = "evict" /\ q = worker.pod)
  BY <1>a, PodsStep
<1>q. worker.step \in Steps => worker \in Reconcile /\ worker.pod \in Pods
  BY <1>a, WorkerFacts DEF Reconcile
<1>e. worker.step = "evict" => worker.policy \in Matching[worker.pod]
  BY <1>a, PolicyAssumption DEF WorkerShape, WorkerBad, Steps
<1>d. /\ \A policy : \A q : q \in BeingEvicted(policy) <=> q \in Pods /\ policy \in Matching[q] /\ Evicted(q)
      /\ \A policy : \A q : q \in BeingEvicted(policy)' <=> q \in Pods /\ policy \in Matching[q] /\ Evicted(q)'
  BY DEF BeingEvicted, Evicted
<1>1. ASSUME NEW policy \in Policies PROVE Within(policy, BeingEvicted(policy)')
  <2>1. CASE BeingEvicted(policy)' \in SUBSET BeingEvicted(policy)
    BY <1>a, <1>d, <2>1, WithinSubset DEF EvictedWithin
  <2>2. CASE BeingEvicted(policy)' \notin SUBSET BeingEvicted(policy)
    <3>1. PICK q \in Pods : q \in BeingEvicted(policy)' /\ q \notin BeingEvicted(policy)
      BY <1>d, <2>2
    <3>2. worker.step = "evict" /\ q = worker.pod
      BY <1>d, <1>p, <3>1
    <3>3. worker.policy = policy
      BY <1>d, <1>e, <3>1, <3>2
    <3>4. pods[worker.pod] # NoPod
      BY <1>d, <1>p, <3>1, <3>2 DEF Evicted
    <3>5. Within(policy, BeingEvicted(policy) \cup {worker.pod})
      BY <1>a, <3>2, <3>3, <3>4 DEF WorkerWithin
    <3>6. BeingEvicted(policy)' \in SUBSET (BeingEvicted(policy) \cup {worker.pod})
      BY <1>d, <1>p
    <3>7. BeingEvicted(policy) \cup {worker.pod} \in SUBSET Pods
      BY <1>d, <3>2
    <3> QED
      BY <3>5, <3>6, <3>7, WithinSubset
  <2> QED
    BY <2>1, <2>2
<1>2. WorkerWithin'
  <2> SUFFICES ASSUME worker'.step = "evict", pods'[worker'.pod] # NoPod
               PROVE  Within(worker'.policy, BeingEvicted(worker.policy)' \cup {worker'.pod})
    BY DEF WorkerWithin, Within, BeingEvicted
  <2>1. CASE worker' = worker
    <3>1. worker.step = "evict" /\ worker.pod \in Pods /\ pods[worker.pod] # NoPod
      BY <1>p, <1>q, <2>1 DEF Steps
    <3>2. Within(worker.policy, BeingEvicted(worker.policy) \cup {worker.pod})
      BY <1>a, <3>1 DEF WorkerWithin
    <3>3. BeingEvicted(worker.policy) \cup {worker.pod} \in SUBSET Pods
      BY <1>d, <3>1
    <3>4. {q \in Pods : pods'[q] # NoPod /\ worker.policy \in Matching[q] /\ pods'[q].terminating}
            \in SUBSET (BeingEvicted(worker.policy) \cup {worker.pod})
      BY <1>d, <1>p DEF Evicted
    <3>5. BeingEvicted(worker.policy)' =
            {q \in Pods : pods'[q] # NoPod /\ worker.policy \in Matching[q] /\ pods'[q].terminating}
      BY <2>1 DEF BeingEvicted
    <3> QED
      BY <2>1, <3>2, <3>3, <3>4, <3>5, WithinSubset
  <2>2. CASE worker' # worker
    <3>1. worker' # Idle
      BY DEF Idle
    <3>2. ~UNCHANGED vars /\ ~EvictPod /\ ~RequestFails /\ ~OperatorRestart
      BY <2>2, <3>1 DEF vars, EvictPod, RequestFails, OperatorRestart, Done, Requeue
    <3>3. ~(DeliverPods \/ DeliverNodes \/ \E p \in Pods : RequeueTimer(p))
      BY <2>2 DEF DeliverPods, DeliverNodes, RequeueTimer
    <3>4. ~(\/ \E p \in Pods : CreatePod(p) \/ RemovePod(p)
            \/ \E p \in Pods, n \in Nodes : BindPod(p, n)
            \/ \E p \in Pods, u \in BOOLEAN : AgentMarks(p, u)
            \/ \E n \in Nodes : OtherTaints(n))
      BY <2>2 DEF CreatePod, RemovePod, BindPod, AgentMarks, OtherTaints
    <3>5. \A p \in Pods : ~StartReconcile(p)
      BY <3>1 DEF StartReconcile, Done
    <3>6. ~ReleaseNode /\ ~DecideTaint
      BY <1>q, <3>1, GoToType DEF ReleaseNode, DecideTaint, Done, Steps
    <3>7. ~TaintNode /\ ~UntaintNode
      BY <1>q, <3>1, GoToType DEF TaintNode, UntaintNode, NodeDone, Done, Steps
    <3>8. CheckThrottling
      BY <3>2, <3>3, <3>4, <3>5, <3>6, <3>7 DEF Next, Controller
    <3>9. /\ worker.step = "throttle" /\ worker.snapshot.unhealthy
          /\ ~throttled(podCache, worker.policy) /\ GoTo("evict") /\ podViews' = podViews
      BY <3>1, <3>8 DEF CheckThrottling, Done, Requeue
    <3>10. worker'.pod = worker.pod /\ worker'.policy = worker.policy /\ worker.pod \in Pods
      BY <1>q, <3>9, GoToType DEF Steps
    <3>11. AllBad(worker.pod) /\ worker.policy \in Matching[worker.pod]
      BY <1>a, <3>9, PolicyAssumption DEF WorkerBad, WorkerShape, Steps
    <3>12. pods' = pods
      BY <3>9 DEF pods
    <3>13. \A q \in Pods : pods[q] # NoPod /\ AllBad(q) => podCache[q] # NoPod /\ podCache[q].unhealthy
      <4>1. Len(podViews) \in Nat /\ Len(podViews) >= 1
        BY <1>a, ViewFacts
      <4>2. \A q \in Pods : Worse(podCache[q], pods[q])
        BY <1>a, <4>1 DEF ViewsWorsen, podCache, pods
      <4> QED
        BY <4>1, <4>2 DEF Worse, AllBad, podCache
    <3> DEFINE S == BeingEvicted(worker.policy) \cup {worker.pod}
    <3>14. S \in SUBSET Pods
      BY <1>d, <3>10
    <3>15. \A q \in S : podCache[q] # NoPod /\ podCache[q].unhealthy /\ worker.policy \in Matching[q]
      <4>1. \A q \in BeingEvicted(worker.policy) : q \in Pods /\ pods[q] # NoPod /\ AllBad(q) /\ worker.policy \in Matching[q]
        BY <1>a, <1>d DEF EvictedBad, Evicted
      <4> QED
        BY <3>10, <3>11, <3>12, <3>13, <4>1
    <3>16. Within(worker.policy, S)
      <4> HIDE DEF S
      <4> QED
        BY <3>9, <3>14, <3>15, ThrottleBounds
    <3>17. BeingEvicted(worker.policy)' = BeingEvicted(worker.policy)
      BY <3>10, <3>12 DEF BeingEvicted
    <3> QED
      BY <3>10, <3>16, <3>17
  <2> QED
    BY <2>1, <2>2
<1>3. EvictedWithin'
  BY <1>1 DEF EvictedWithin, Within
<1> QED
  BY <1>2, <1>3, <1>b DEF ThrottleInv

(* checkEvictionThrottling keeps the pods of a policy that are being       *)
(* evicted at the same time to one, or to 5% of its pods, however late the *)
(* cache it counts in (health_controller.go:131): for any number of pods   *)
(* and policies, as long as no verdict is lifted, no pod returns and no    *)
(* pod is matched by two policies.                                         *)
THEOREM EvictionThrottledHolds ==
  ASSUME ~VerdictMayLift, ~PodsMayReturn, IsFiniteSet(Pods),
         \A p \in Pods : \A a, b \in Matching[p] : a = b
  PROVE  Spec => []EvictionThrottled
<1>1. ThrottleInv => EvictionThrottled
  BY DEF ThrottleInv, EvictedWithin, Within, EvictionThrottled
<1> QED
  BY <1>1, ThrottleInit, ThrottleStep, PTL DEF Spec
-----------------------------------------------------------------------------
(* Reconcile implements EvictionBudget: each step moves at most one pod,   *)
(* and only as a step of EvictionBudget may.                               *)

Phase == [p \in Pods |-> PhaseOf(pods[p])]

LEMMA PhaseMoves ==
  ASSUME pods \in PodView, NEW p \in Pods, NEW v \in Pod \cup {NoPod}, pods' = [pods EXCEPT ![p] = v]
  PROVE  Phase' = [Phase EXCEPT ![p] = PhaseOf(v)]
<1>1. \A q \in Pods : pods'[q] = IF q = p THEN v ELSE pods[q]
  BY DEF PodView
<1>2. Phase' = [q \in Pods |-> PhaseOf(pods'[q])]
  BY DEF Phase, PhaseOf
<1>3. \A q \in Pods : PhaseOf(pods'[q]) = IF q = p THEN PhaseOf(v) ELSE PhaseOf(pods[q])
  BY <1>1
<1> QED
  BY <1>2, <1>3 DEF Phase

(* The pods that are away in EvictionBudget are the evicted ones. *)
LEMMA AwayIsEvicted ==
  ASSUME NEW policy, NEW p \in Pods, policy \in Matching[p],
         Within(policy, BeingEvicted(policy) \cup {p})
  PROVE  Budget!Affordable(policy, Budget!Evicted \cup {p})
<1> DEFINE ofPolicy == {q \in Pods : policy \in Matching[q]}
           away     == (Budget!Evicted \cup {p}) \cap ofPolicy
<1>1. \A q \in Pods : PhaseOf(pods[q]) = "evicted" <=> pods[q] # NoPod /\ pods[q].terminating
  BY DEF PhaseOf
<1>2. Budget!Evicted = {q \in Pods : PhaseOf(pods[q]) = "evicted"}
  BY DEF Budget!Evicted
<1>3. away = BeingEvicted(policy) \cup {p}
  BY <1>1, <1>2 DEF BeingEvicted
<1>4. Cardinality(away) <= 1 \/ 20 * Cardinality(away) <= Cardinality(ofPolicy)
  BY <1>3 DEF Within
<1>5. \A S : Budget!Cardinality(S) = Cardinality(S)
  BY DEF Budget!Cardinality, Cardinality
<1> QED
  BY <1>4, <1>5 DEF Budget!Affordable

LEMMA BudgetStep ==
  ASSUME ~VerdictMayLift, ~PodsMayReturn, \A p \in Pods : \A a, b \in Matching[p] : a = b,
         ThrottleInv, [Next]_vars
  PROVE  Phase' = Phase \/ Budget!Next
<1> DEFINE Goal == Phase' = Phase \/ Budget!Next
<1>a. /\ TypeInv /\ TypeOK /\ WorkerShape /\ WorkerBad /\ WorkerWithin /\ ViewsWorsen /\ EvictedBad
      /\ pods \in PodView /\ Len(podViews) \in 1 .. Len(podViews)
  BY ViewFacts DEF ThrottleInv, BadInv, TypeInv
<1>b. \A q \in Pods : pods[q] # NoPod /\ AllBad(q) => pods[q].unhealthy
  BY <1>a DEF AllBad, pods
<1>k. ASSUME pods' = pods PROVE Goal
  BY <1>k DEF Phase, PhaseOf
<1>w. ASSUME NEW p \in Pods, NEW v \in Pod \cup {NoPod}, WritePod(p, v), Worse(pods[p], v)
      PROVE  Budget!Move(p, PhaseOf(v))
  <2>1. pods' = [pods EXCEPT ![p] = v]
    BY <1>a, <1>w, WriteWorsens
  <2> QED
    BY <1>a, <2>1, PhaseMoves DEF Budget!Move, Phase
<1>s. ASSUME NEW p \in Pods, NEW v \in Pod \cup {NoPod}, WritePod(p, v), Worse(pods[p], v), PhaseOf(v) = PhaseOf(pods[p])
      PROVE  Goal
  <2>1. pods' = [pods EXCEPT ![p] = v]
    BY <1>a, <1>s, WriteWorsens
  <2>2. Phase' = [Phase EXCEPT ![p] = PhaseOf(v)]
    BY <1>a, <2>1, PhaseMoves
  <2> QED
    BY <1>s, <2>2 DEF Phase
<1>1. CASE UNCHANGED podViews
  BY <1>1, <1>k DEF pods
<1>2. CASE EvictPod
  <2>1. worker.step = "evict" /\ worker.pod \in Pods
    BY <1>2, <1>a, WorkerFacts DEF EvictPod, Steps, Reconcile
  <2>2. CASE UNCHANGED <<podViews, everMet>>
    BY <1>1, <2>2
  <2>3. CASE /\ pods[worker.pod] # NoPod
             /\ WritePod(worker.pod, [pods[worker.pod] EXCEPT !.terminating = TRUE])
    <3> DEFINE p == worker.pod
               v == [pods[p] EXCEPT !.terminating = TRUE]
    <3>1. pods[p] \in Pod
      BY <1>a, <2>1, <2>3 DEF PodView
    <3>2. v \in Pod /\ v.unhealthy = pods[p].unhealthy /\ v.terminating
      BY <3>1 DEF Pod
    <3>3. Worse(pods[p], v) /\ v # NoPod
      BY <2>3, <3>2, PodAssumption DEF Worse
    <3>4. PhaseOf(v) = "evicted"
      BY <3>2, <3>3 DEF PhaseOf
    <3>5. pods[p].unhealthy
      BY <1>a, <1>b, <2>1, <2>3 DEF WorkerBad, Steps
    <3>6. CASE pods[p].terminating
      <4>1. PhaseOf(pods[p]) = "evicted"
        BY <2>3, <3>6 DEF PhaseOf
      <4> QED
        BY <1>s, <2>1, <2>3, <3>2, <3>3, <3>4, <4>1
    <3>7. CASE ~pods[p].terminating
      <4>1. PhaseOf(pods[p]) = "unhealthy"
        BY <2>3, <3>5, <3>7 DEF PhaseOf
      <4>2. Budget!Move(p, "evicted")
        <5>1. Budget!Move(p, PhaseOf(v))
          BY <1>w, <2>1, <2>3, <3>2, <3>3
        <5> QED
          BY <3>4, <5>1
      <4>3. worker.policy \in Matching[p]
        BY <1>a, <2>1, PolicyAssumption DEF WorkerShape, WorkerBad, Steps
      <4>4. Within(worker.policy, BeingEvicted(worker.policy) \cup {p})
        BY <1>a, <2>1, <2>3 DEF WorkerWithin
      <4>5. Budget!Affordable(worker.policy, Budget!Evicted \cup {p})
        BY <2>1, <4>3, <4>4, AwayIsEvicted
      <4>6. \A policy \in Matching[p] : Budget!Affordable(policy, Budget!Evicted \cup {p})
        <5>1. \A policy \in Matching[p] : policy = worker.policy
          BY <2>1, <4>3
        <5> QED
          BY <4>5, <5>1
      <4>7. Budget!Evict(p)
        BY <2>1, <4>1, <4>2, <4>6 DEF Budget!Evict
      <4> QED
        BY <2>1, <4>7 DEF Budget!Next
    <3> QED
      BY <3>6, <3>7
  <2> QED
    BY <1>2, <2>2, <2>3 DEF EvictPod
<1>3. CASE DeliverPods \/ OperatorRestart
  BY <1>a, <1>3, <1>k, DropWorsens
<1>4. ASSUME NEW p \in Pods, RemovePod(p) PROVE Goal
  <2>1. PhaseOf(pods[p]) # "gone" /\ PhaseOf(NoPod) = "gone"
    BY <1>4 DEF RemovePod, PhaseOf
  <2>2. Budget!Move(p, PhaseOf(NoPod))
    BY <1>4, <1>w DEF RemovePod, Worse
  <2>3. Budget!Leave(p)
    BY <2>1, <2>2 DEF Budget!Leave
  <2> QED
    BY <2>3 DEF Budget!Next
<1>5. ASSUME NEW p \in Pods, NEW n \in Nodes, BindPod(p, n) PROVE Goal
  <2> DEFINE v == [pods[p] EXCEPT !.node = n]
  <2>1. pods[p] # NoPod /\ pods[p] \in Pod /\ WritePod(p, v)
    BY <1>a, <1>5 DEF BindPod, PodView
  <2>2. v \in Pod /\ v.unhealthy = pods[p].unhealthy /\ v.terminating = pods[p].terminating
    BY <2>1 DEF Pod
  <2>3. Worse(pods[p], v) /\ PhaseOf(v) = PhaseOf(pods[p])
    BY <2>1, <2>2, PodAssumption DEF Worse, PhaseOf
  <2> QED
    BY <1>s, <2>1, <2>2, <2>3
<1>6. ASSUME NEW p \in Pods, NEW u \in BOOLEAN, AgentMarks(p, u) PROVE Goal
  <2> DEFINE v == [pods[p] EXCEPT !.unhealthy = u]
  <2>1. pods[p] # NoPod /\ pods[p] \in Pod /\ u = TRUE /\ ~pods[p].unhealthy /\ WritePod(p, v)
    BY <1>a, <1>6 DEF AgentMarks, Bound, PodView
  <2>2. v \in Pod /\ v.unhealthy = u /\ v.terminating = pods[p].terminating
    BY <2>1 DEF Pod
  <2>3. ~pods[p].terminating
    BY <1>a, <1>b, <2>1 DEF EvictedBad, Evicted
  <2>4. /\ Worse(pods[p], v)
        /\ PhaseOf(pods[p]) = "healthy" /\ PhaseOf(v) = "unhealthy"
    BY <2>1, <2>2, <2>3, PodAssumption DEF Worse, PhaseOf
  <2>5. Budget!Move(p, PhaseOf(v))
    BY <1>w, <2>1, <2>2, <2>4
  <2>6. Budget!Mark(p)
    BY <2>4, <2>5 DEF Budget!Mark
  <2> QED
    BY <2>6 DEF Budget!Next
<1>7. CASE Controller /\ ~EvictPod
  BY <1>1, <1>7 DEF Controller, StartReconcile, ReleaseNode, DecideTaint, TaintNode, UntaintNode,
     CheckThrottling, RequestFails
<1>8. CASE \/ \E p \in Pods : RequeueTimer(p)
           \/ DeliverNodes
           \/ \E n \in Nodes : OtherTaints(n)
           \/ UNCHANGED vars
  BY <1>1, <1>8 DEF RequeueTimer, DeliverNodes, OtherTaints, vars
<1>9. \A p \in Pods : ~CreatePod(p)
  BY DEF CreatePod
<1> QED
  BY <1>2, <1>3, <1>4, <1>5, <1>6, <1>7, <1>8, <1>9 DEF Next

(* Reconcile, with its late caches, its queue, its throttle checked long   *)
(* before the eviction, failed requests and restarts, implements a         *)
(* controller that evicts a marked pod of a policy in one step and within  *)
(* the budget (health_controller.go:113, 117): for any number of pods and  *)
(* policies, under the conditions of EvictionThrottledHolds.               *)
THEOREM ImplementsBudgetHolds ==
  ASSUME ~VerdictMayLift, ~PodsMayReturn, IsFiniteSet(Pods),
         \A p \in Pods : \A a, b \in Matching[p] : a = b
  PROVE  Spec => ImplementsBudget
<1>1. Init => Budget!Init
  <2> SUFFICES ASSUME Init PROVE Phase \in [Pods -> {"healthy", "gone"}]
    BY DEF Budget!Init, Phase
  <2>1. PICK view \in [Pods -> {NoPod} \cup {pod \in Pod : ~pod.unhealthy /\ ~pod.terminating}] : podViews = <<view>>
    BY DEF Init
  <2>2. pods = view
    BY <2>1 DEF pods
  <2>3. \A p \in Pods : PhaseOf(pods[p]) \in {"healthy", "gone"}
    BY <2>1, <2>2 DEF PhaseOf
  <2> QED
    BY <2>3 DEF Phase
<1>2. ThrottleInv /\ [Next]_vars => ThrottleInv'
  BY ThrottleStep
<1>3. ThrottleInv /\ [Next]_vars => [Budget!Next]_([p \in Pods |-> PhaseOf(pods[p])])
  BY BudgetStep DEF Phase
<1> QED
  BY <1>1, <1>2, <1>3, ThrottleInit, PTL DEF Spec, ImplementsBudget, Budget!Spec
=============================================================================
