-------------------------- MODULE DetectionProofs --------------------------
(***************************************************************************)
(* While requests to the API server succeed, pods are not replaced and     *)
(* policies stay as they are, HealthEvaluator is exactly the sliding       *)
(* window its policies describe: a pod is flagged if, and only if, its own *)
(* policy says so.  Agents may restart, and fetches, syncs, ticks and      *)
(* events come in any order.  The argument: wherever a config is looked up *)
(* it is the pod's own one or missing, and it is missing only where        *)
(* nothing is kept of the pod, so that nothing is ever counted, pruned or  *)
(* forgotten by the window of another config.                              *)
(***************************************************************************)
EXTENDS HealthEvaluatorProofs

USE ConfigAssumption, AgeAssumption, NoEventAssumption, SwitchAssumption

(* The config in force for a pod: its annotation, else the agent's flags. *)
Own(p) == InForce(annotation[p])

InOwnWindow(p) == {a \in history[p] : a < Own(p).window}

(* Whoever has more violations in its window than its policy tolerates is  *)
(* flagged.                                                                *)
DetectsByOwnPolicy ==
  \A p \in Pods : Cardinality(InOwnWindow(p)) > Own(p).limit => p \in unhealthyPods

(* Nobody else gets flagged. *)
FlagsByOwnPolicy ==
  [][\A p \in Pods : p \in unhealthyPods' \ unhealthyPods
       => Cardinality(InOwnWindow(p)') > Own(p).limit]_vars

(* Every place a config is kept in holds the pod's own one, or none. *)
OwnConfigs ==
  /\ live = Pods
  /\ \A p \in Pods : podConfigs[p] \in {NoConfig, annotation[p]} /\ listed[p] \in {NoConfig, annotation[p]}
  /\ \A p \in Pods : lastSeenTimes[p] # Absent =>
       podConfigs[p] = annotation[p] \/ (pc \in {"fetch", "cache"} /\ cur.pod = p)
  /\ pc = "cache" => cur.config = annotation[cur.pod]
  /\ pc = "evaluate" => cur.config = annotation[cur.pod] /\ podConfigs[cur.pod] = annotation[cur.pod]

(* Nothing that counts is pruned, and who recovers has nothing that counts. *)
OwnWindows ==
  /\ \A p \in Pods : InOwnWindow(p) \subseteq violationTimes[p]
  /\ \A p \in podsToRecover : InOwnWindow(p) = {}
  /\ DetectsByOwnPolicy

ExactInv == IInv /\ OwnConfigs /\ OwnWindows

LEMMA OwnType ==
  ASSUME TypeOK, NEW p \in Pods
  PROVE  Own(p) \in InForceConfigs /\ Own(p).window \in Nat /\ Own(p).limit \in Nat
  <1>1. annotation[p] \in Configs \cup {NoConfig}
    BY DEF TypeOK
  <1>2. Own(p) \in InForceConfigs
    BY <1>1 DEF Own, InForce, InForceConfigs
  <1> QED
    BY <1>2

LEMMA ApiStays ==
  ASSUME ~PodsMayRestart, ~PolicyMayChange, live = Pods, [Next]_vars
  PROVE  live' = live /\ annotation' = annotation
  <1>1. \A p \in Pods, c \in Configs \cup {NoConfig} : ~CreatePod(p, c) /\ ~UpdateAnnotation(p, c) /\ ~DeletePod(p)
    BY DEF CreatePod, UpdateAnnotation, DeletePod
  <1> QED
    BY <1>1 DEF Next, vars, maps, loop, sync, api, ReceiveEvent, FetchConfig, CacheConfig, FastEvent,
       SlowEvent, MarkUnhealthy, CheckRecoveryAndCleanup, RecoverPod, SyncList, SyncStore, ClockTick,
       DeletePod, AgentRestart

LEMMA ListingIsAnnotation ==
  ASSUME TypeOK, live = Pods
  PROVE  /\ \A p \in Pods : Listing[p] = annotation[p]
         /\ ~ApiMayFail => \A configs \in FirstSync(Listing) : \A p \in Pods : configs[p] = annotation[p]
  BY DEF Listing, FirstSync, syncNodePods, EmptyListing

LEMMA OwnConfigsStep ==
  ASSUME ~ApiMayFail, ~PodsMayRestart, ~PolicyMayChange, TypeInv, TypeInv', OwnConfigs, [Next]_vars
  PROVE  OwnConfigs'
  <1>a. live' = Pods /\ annotation' = annotation /\ live = Pods
    BY ApiStays DEF OwnConfigs
  <1>b. \A p \in Pods : Listing[p] = annotation[p]
    BY <1>a, ListingIsAnnotation DEF TypeInv
  <1> USE DEF TypeInv, TypeOK, LoopShape, OwnConfigs
  <1>1. ASSUME NEW p \in Pods, NEW d \in Durations, ReceiveEvent(p, d) PROVE OwnConfigs'
    BY <1>1, <1>a DEF ReceiveEvent, sync
  <1>2. CASE FetchConfig
    <2>1. cur \in EventInHand /\ cur.pod \in Pods
      BY <1>2 DEF FetchConfig, EventInHand
    <2>2. /\ cur' = [cur EXCEPT !.config = annotation[cur.pod]]
          /\ pc' = IF annotation[cur.pod] = NoConfig THEN "evaluate" ELSE "cache"
      BY <1>2, <1>b, <2>1 DEF FetchConfig, fetchAndCachePodConfig
    <2>3. cur'.pod = cur.pod /\ cur'.config = annotation[cur.pod]
      BY <2>1, <2>2 DEF EventInHand
    <2>4. UNCHANGED <<podConfigs, listed, lastSeenTimes>> /\ pc = "fetch"
      BY <1>2 DEF FetchConfig, maps, sync
    <2> QED
      BY <1>a, <2>1, <2>2, <2>3, <2>4
  <1>3. CASE CacheConfig
    BY <1>3, <1>a DEF CacheConfig, sync, EventInHand
  <1>4. CASE FastEvent \/ SlowEvent \/ MarkUnhealthy
    BY <1>4, <1>a DEF FastEvent, SlowEvent, MarkUnhealthy, EventDone, maps, sync, EventInHand
  <1>5. CASE CheckRecoveryAndCleanup
    BY <1>5, <1>a DEF CheckRecoveryAndCleanup, sync
  <1>6. ASSUME NEW p \in Pods, RecoverPod(p) PROVE OwnConfigs'
    BY <1>6, <1>a DEF RecoverPod, sync
  <1>7. CASE SyncList
    BY <1>7, <1>a, <1>b DEF SyncList, maps, loop
  <1>8. CASE SyncStore
    <2>1. \A p \in Pods : /\ podConfigs'[p] = IF listed[p] # NoConfig THEN listed[p] ELSE podConfigs[p]
                          /\ listed'[p] = NoConfig
      BY <1>8 DEF SyncStore, syncNodePods, EmptyListing
    <2>2. UNCHANGED <<lastSeenTimes, pc, cur>>
      BY <1>8 DEF SyncStore, loop
    <2>3. pc = "evaluate" => cur.pod \in Pods
      BY DEF EventInHand
    <2> QED
      BY <1>a, <2>1, <2>2, <2>3
  <1>9. CASE ClockTick
    <2>1. \A p \in Pods : lastSeenTimes'[p] # Absent => lastSeenTimes[p] # Absent
      BY <1>9, AgeFacts DEF ClockTick
    <2>2. UNCHANGED <<podConfigs, listed, pc>>
      BY <1>9 DEF ClockTick, sync
    <2>3. cur \in EventInHand => cur'.pod = cur.pod /\ cur'.config = cur.config
      BY <1>9 DEF ClockTick, EventInHand
    <2> QED
      BY <1>a, <2>1, <2>2, <2>3 DEF EventInHand
  <1>10. CASE AgentRestart
    <2>1. \A p \in Pods : podConfigs'[p] = annotation[p]
      BY <1>10, <1>a, ListingIsAnnotation DEF AgentRestart
    <2> QED
      BY <1>10, <1>a, <2>1 DEF AgentRestart, EmptyListing
  <1>11. CASE UNCHANGED vars
    BY <1>11 DEF vars, maps, loop, sync, api
  <1>12. \A p \in Pods, c \in Configs \cup {NoConfig} : ~CreatePod(p, c) /\ ~UpdateAnnotation(p, c) /\ ~DeletePod(p)
    BY <1>a DEF CreatePod, UpdateAnnotation, DeletePod
  <1>13. \A p \in Pods : ~DeletePod(p)
    BY DEF DeletePod
  <1> QED
    BY <1>1, <1>2, <1>3, <1>4, <1>5, <1>6, <1>7, <1>8, <1>9, <1>10, <1>11, <1>12, <1>13 DEF Next
-----------------------------------------------------------------------------
(* Ageing brings nothing back into a window. *)
LEMMA AgeingShrinksWindow ==
  ASSUME NEW S \in SUBSET Age, NEW w \in Nat
  PROVE  Cardinality({a \in OlderAll(S) : a < w}) <= Cardinality({a \in S : a < w})
  <1> DEFINE R == {a \in S : a < w}
             T == {Older(a) : a \in R}
             f == [a \in R |-> Older(a)]
             U == {a \in OlderAll(S) : a < w}
  <1>1. R \in SUBSET Age /\ IsFiniteSet(R) /\ Cardinality(R) \in Nat
    BY AgesFinite
  <1>2. f \in Surjection(R, T)
    BY DEF Surjection
  <1>3. IsFiniteSet(T) /\ Cardinality(T) <= Cardinality(R)
    BY <1>1, <1>2, FS_Surjection
  <1>4. ASSUME NEW b \in U PROVE b \in T
    <2>1. PICK a \in S : b = Older(a)
      BY DEF OlderAll
    <2>2. a \in Nat /\ b \in Nat /\ b >= a
      BY <2>1, AgeFacts
    <2> QED
      BY <2>1, <2>2
  <1>5. U \in SUBSET T
    BY <1>4
  <1> HIDE DEF R, T, U
  <1>6. Cardinality(U) <= Cardinality(T) /\ Cardinality(T) \in Nat /\ Cardinality(U) \in Nat
    BY <1>3, <1>5, FS_Subset, FS_CardinalityType
  <1>7. Cardinality(U) <= Cardinality(R)
    BY <1>1, <1>3, <1>6
  <1> QED
    BY <1>7 DEF R, U

(* On the ticker a pod with timestamps is looked at by its own window. *)
LEMMA TickUsesOwnWindow ==
  ASSUME IInv, OwnConfigs, pc = "select", NEW p \in Pods,
         lastSeenTimes[p] # Absent \/ violationTimes[p] # {}
  PROVE  WindowOf(p) = Own(p).window
  <1>1. lastSeenTimes[p] # Absent
    BY DEF IInv, NoOrphanVerdict
  <1>2. podConfigs[p] = annotation[p]
    BY <1>1 DEF OwnConfigs
  <1> QED
    BY <1>2 DEF WindowOf, Own

(* The verdict on a slow operation is the one of the pod's own policy. *)
LEMMA VerdictIsOwn ==
  ASSUME IInv, OwnConfigs, OwnWindows, annotation' = annotation, SlowEvent, NEW p \in Pods, p = cur.pod
  PROVE  OverLimit <=> Cardinality(InOwnWindow(p)') > Own(p).limit
  <1> DEFINE V == violationTimes[p] \cup {cur.now}
  <1>1. cur \in EventInHand /\ pc = "evaluate"
    BY DEF IInv, TypeInv, LoopShape, SlowEvent, EventInHand
  <1>2. history'[p] = history[p] \cup {cur.now}
    BY <1>1 DEF SlowEvent, AppendViolation, IInv, TypeInv, TypeOK
  <1>3. InForce(cur.config) = Own(p)
    BY <1>1 DEF OwnConfigs, Own
  <1>4. violationTimes[p] \subseteq history[p] /\ {a \in history[p] : a < Own(p).window} \subseteq violationTimes[p]
    BY <1>1 DEF IInv, HistoryShape, OwnWindows, InOwnWindow
  <1>5. {a \in history'[p] : a < Own(p).window} = {a \in V : a < Own(p).window}
    BY <1>2, <1>4
  <1>6. Own(p)' = Own(p)
    BY DEF Own, InForce
  <1>7. InOwnWindow(p)' = {a \in V : a < Own(p).window}
    BY <1>5, <1>6 DEF InOwnWindow
  <1>8. OverLimit <=> Cardinality({a \in V : a < Own(p).window}) > Own(p).limit
    BY <1>3 DEF OverLimit, countViolations
  <1> QED
    BY <1>7, <1>8

(* An empty window raises no alarm. *)
LEMMA EmptyWindow ==
  ASSUME TypeOK, NEW p \in Pods
  PROVE  ~(Cardinality({}) > Own(p).limit)
  <1>1. Cardinality({}) = 0 /\ Own(p).limit \in Nat
    BY OwnType, FS_EmptySet
  <1> QED
    BY <1>1

LEMMA OwnWindowsStep ==
  ASSUME ~PodsMayRestart, ~PolicyMayChange, IInv, IInv', OwnConfigs, OwnWindows, [Next]_vars
  PROVE  OwnWindows'
  <1>a. annotation' = annotation /\ TypeInv /\ TypeOK
    BY ApiStays DEF OwnConfigs, IInv, TypeInv
  <1>b. \A p \in Pods : /\ Own(p)' = Own(p)
                        /\ InOwnWindow(p)' = {a \in history'[p] : a < Own(p).window}
                        /\ InOwnWindow(p) = {a \in history[p] : a < Own(p).window}
    <2>1. \A p \in Pods : Own(p)' = Own(p)
      BY <1>a DEF Own, InForce
    <2> QED
      BY <2>1 DEF InOwnWindow
  <1>c. /\ \A p \in Pods : InOwnWindow(p) \subseteq violationTimes[p]
        /\ \A p \in podsToRecover : InOwnWindow(p) = {}
        /\ \A p \in Pods : Cardinality(InOwnWindow(p)) > Own(p).limit => p \in unhealthyPods
    BY DEF OwnWindows, DetectsByOwnPolicy
  <1>d. /\ \A p \in Pods : history[p] \in SUBSET Age /\ Own(p).window \in Nat /\ Own(p).limit \in Nat
        /\ podsToRecover \in SUBSET Pods
    BY <1>a, OwnType DEF TypeOK
  <1>z. ASSUME \A p \in Pods : InOwnWindow(p)' \subseteq violationTimes'[p],
               \A p \in podsToRecover' : InOwnWindow(p)' = {},
               \A p \in Pods : Cardinality(InOwnWindow(p)') > Own(p).limit => p \in unhealthyPods'
        PROVE  OwnWindows'
    BY <1>b, <1>z DEF OwnWindows, DetectsByOwnPolicy
  <1>1. CASE UNCHANGED <<history, violationTimes, podsToRecover, unhealthyPods>>
    <2>1. \A p \in Pods : InOwnWindow(p)' = InOwnWindow(p)
      BY <1>1, <1>b
    <2> QED
      BY <1>1, <1>c, <1>d, <1>z, <2>1
  <1>2. CASE SlowEvent
    <2>1. cur \in EventInHand /\ cur.pod \in Pods /\ pc = "evaluate"
      BY <1>2, <1>a DEF TypeInv, LoopShape, SlowEvent, EventInHand
    <2>2. /\ \A p \in Pods : p # cur.pod => history'[p] = history[p] /\ violationTimes'[p] = violationTimes[p]
          /\ history'[cur.pod] = history[cur.pod] \cup {cur.now}
          /\ violationTimes'[cur.pod] = violationTimes[cur.pod] \cup {cur.now}
      BY <1>2, <1>a, <2>1 DEF SlowEvent, AppendViolation, TypeOK
    <2>3. podsToRecover' = {} /\ unhealthyPods \subseteq unhealthyPods'
      BY <1>2, <2>1 DEF SlowEvent, IInv, RecoveringPodsQuiet
    <2>4. ASSUME NEW p \in Pods PROVE InOwnWindow(p)' \subseteq violationTimes'[p]
      BY <1>b, <1>c, <2>2
    <2>5. ASSUME NEW p \in Pods, Cardinality(InOwnWindow(p)') > Own(p).limit PROVE p \in unhealthyPods'
      <3>1. CASE p = cur.pod
        <4>1. OverLimit
          BY <1>2, <1>a, <2>5, <3>1, VerdictIsOwn
        <4> QED
          BY <1>2, <3>1, <4>1 DEF SlowEvent
      <3>2. CASE p # cur.pod
        BY <1>b, <1>c, <2>2, <2>3, <2>5, <3>2
      <3> QED
        BY <3>1, <3>2
    <2> QED
      BY <1>z, <2>3, <2>4, <2>5
  <1>3. CASE CheckRecoveryAndCleanup
    <2>1. pc = "select" /\ history' = history
      BY <1>3 DEF CheckRecoveryAndCleanup
    <2>2. \A p \in Pods : lastSeenTimes[p] # Absent \/ violationTimes[p] # {} => WindowOf(p) = Own(p).window
      BY <2>1, TickUsesOwnWindow
    <2>3. \A p \in Pods : violationTimes'[p] = {a \in violationTimes[p] : a < WindowOf(p)}
      BY <1>3 DEF CheckRecoveryAndCleanup, ValidViolations
    <2>4. ASSUME NEW p \in Pods PROVE InOwnWindow(p)' \subseteq violationTimes'[p]
      BY <1>b, <1>c, <2>1, <2>2, <2>3
    <2>5. ASSUME NEW p \in podsToRecover' PROVE InOwnWindow(p)' = {}
      <3>1. p \in Pods /\ violationTimes[p] # {} /\ ValidViolations(p) = {}
        BY <1>3 DEF CheckRecoveryAndCleanup, RecoveryDue
      <3>2. \A a \in violationTimes[p] : ~(a < Own(p).window)
        BY <2>2, <3>1 DEF ValidViolations
      <3> QED
        BY <1>b, <1>c, <2>1, <3>1, <3>2
    <2>6. ASSUME NEW p \in Pods, StalePod(p) PROVE InOwnWindow(p)' = {}
      <3>1. lastSeenTimes[p] \in Nat /\ lastSeenTimes[p] > 3 * Own(p).window
        BY <1>a, <2>2, <2>6, AgeFacts DEF StalePod, RecoveryMultiplier, TypeOK
      <3>2. \A a \in history[p] : a \in Nat /\ a >= lastSeenTimes[p]
        BY <1>d, AgeFacts DEF IInv, HistoryShape
      <3>3. \A a \in history[p] : ~(a < Own(p).window)
        BY <1>d, <3>1, <3>2
      <3> QED
        BY <1>b, <2>1, <3>3
    <2>7. ASSUME NEW p \in Pods, Cardinality(InOwnWindow(p)') > Own(p).limit PROVE p \in unhealthyPods'
      <3>1. ~StalePod(p)
        BY <1>a, <2>6, <2>7, EmptyWindow
      <3>2. p \in unhealthyPods
        BY <1>b, <1>c, <2>1, <2>7
      <3> QED
        BY <1>3, <3>1, <3>2 DEF CheckRecoveryAndCleanup, VerdictsOfTrackedPods
    <2> QED
      BY <1>z, <2>4, <2>5, <2>7
  <1>4. ASSUME NEW q \in Pods, RecoverPod(q) PROVE OwnWindows'
    <2>1. /\ UNCHANGED <<history, violationTimes>> /\ q \in podsToRecover
          /\ podsToRecover' \subseteq podsToRecover /\ unhealthyPods' = unhealthyPods \ {q}
      BY <1>4 DEF RecoverPod
    <2>2. \A p \in Pods : InOwnWindow(p)' = InOwnWindow(p)
      BY <1>b, <2>1
    <2>3. ~(Cardinality(InOwnWindow(q)) > Own(q).limit)
      BY <1>a, <1>c, <2>1, EmptyWindow
    <2> QED
      BY <1>c, <1>d, <1>z, <2>1, <2>2, <2>3
  <1>5. CASE ClockTick
    <2>1. /\ \A p \in Pods : history'[p] = OlderAll(history[p]) /\ violationTimes'[p] = OlderAll(violationTimes[p])
          /\ UNCHANGED <<podsToRecover, unhealthyPods>>
      BY <1>5 DEF ClockTick
    <2>2. ASSUME NEW p \in Pods, NEW b \in InOwnWindow(p)'
          PROVE  \E a \in InOwnWindow(p) : b = Older(a)
      <3>1. PICK a \in history[p] : b = Older(a)
        BY <1>b, <2>1, <2>2 DEF OlderAll
      <3>2. a \in Nat /\ b \in Nat /\ b >= a
        BY <1>d, <3>1, AgeFacts
      <3>3. b < Own(p).window
        BY <1>b, <2>2
      <3>4. a < Own(p).window
        BY <1>d, <3>2, <3>3
      <3> QED
        BY <1>b, <3>1, <3>4
    <2>3. \A p \in Pods : InOwnWindow(p)' \subseteq violationTimes'[p]
      BY <1>c, <2>1, <2>2 DEF OlderAll
    <2>4. \A p \in podsToRecover' : InOwnWindow(p)' = {}
      BY <1>c, <1>d, <2>1, <2>2
    <2>5. ASSUME NEW p \in Pods, Cardinality(InOwnWindow(p)') > Own(p).limit PROVE p \in unhealthyPods'
      <3>1. Cardinality(InOwnWindow(p)') <= Cardinality(InOwnWindow(p))
        BY <1>b, <1>d, <2>1, AgeingShrinksWindow
      <3>2. Cardinality(InOwnWindow(p)') \in Nat /\ Cardinality(InOwnWindow(p)) \in Nat
        <4>1. history'[p] \in SUBSET Age
          BY <1>d, <2>1, OlderAllType
        <4>2. InOwnWindow(p)' \in SUBSET Age /\ InOwnWindow(p) \in SUBSET Age
          BY <1>b, <1>d, <4>1
        <4> QED
          BY <4>2, AgesFinite
      <3>3. Cardinality(InOwnWindow(p)) > Own(p).limit
        BY <1>d, <2>5, <3>1, <3>2
      <3> QED
        BY <1>c, <2>1, <3>3
    <2> QED
      BY <1>z, <2>3, <2>4, <2>5
  <1>6. CASE AgentRestart
    <2>1. podsToRecover' = {} /\ \A p \in Pods : history'[p] = {}
      BY <1>6 DEF AgentRestart
    <2>2. \A p \in Pods : InOwnWindow(p)' = {}
      BY <1>b, <2>1
    <2> QED
      BY <1>a, <1>z, <2>1, <2>2, EmptyWindow
  <1> QED
    BY <1>1, <1>2, <1>3, <1>4, <1>5, <1>6
    DEF Next, vars, maps, loop, sync, api, ReceiveEvent, FetchConfig, CacheConfig, FastEvent,
        MarkUnhealthy, SyncList, SyncStore, DeletePod, CreatePod, UpdateAnnotation

LEMMA ExactInductive ==
  ASSUME ~ApiMayFail, ~PodsMayRestart, ~PolicyMayChange
  PROVE  /\ Init => ExactInv
         /\ ExactInv /\ [Next]_vars => ExactInv'
  <1>1. ASSUME Init PROVE ExactInv
    <2>1. IInv /\ TypeOK
      BY <1>1, IInvInductive DEF IInv, TypeInv
    <2>2. \A p \in Pods : podConfigs[p] = annotation[p]
      BY <1>1 DEF Init, FirstSync, syncNodePods, EmptyListing
    <2>3. OwnConfigs
      BY <1>1, <2>2 DEF Init, OwnConfigs, EmptyListing
    <2>4. \A p \in Pods : InOwnWindow(p) = {}
      BY <1>1 DEF Init, InOwnWindow
    <2>5. podsToRecover = {}
      BY <1>1 DEF Init
    <2>6. OwnWindows
      BY <2>1, <2>4, <2>5, EmptyWindow DEF OwnWindows, DetectsByOwnPolicy
    <2> QED
      BY <2>1, <2>3, <2>6 DEF ExactInv
  <1>2. ASSUME ExactInv, [Next]_vars PROVE ExactInv'
    <2>1. IInv /\ IInv' /\ TypeInv /\ TypeInv'
      BY <1>2, IInvInductive DEF ExactInv, IInv
    <2> QED
      BY <1>2, <2>1, OwnConfigsStep, OwnWindowsStep DEF ExactInv
  <1> QED
    BY <1>1, <1>2

(* No slow pod is missed: a pod with more violations in the window of its  *)
(* own policy (evaluator.go:156-183) than that policy tolerates is         *)
(* flagged, in whatever order events, fetches, syncs and ticks came and    *)
(* however often the agent restarted.                                      *)
THEOREM DetectsByOwnPolicyHolds ==
  ASSUME ~ApiMayFail, ~PodsMayRestart, ~PolicyMayChange
  PROVE  Spec => []DetectsByOwnPolicy
  <1>1. ExactInv => DetectsByOwnPolicy
    BY DEF ExactInv, OwnWindows
  <1> QED
    BY <1>1, ExactInductive, PTL DEF Spec

(* No pod is flagged by mistake: processEvent sets the flag of a pod only  *)
(* when the violations in the window of the pod's own policy exceed the    *)
(* limit of that policy, and no other step sets it.                        *)
THEOREM FlagsByOwnPolicyHolds ==
  ASSUME ~ApiMayFail, ~PodsMayRestart, ~PolicyMayChange
  PROVE  Spec => FlagsByOwnPolicy
  <1>1. ASSUME ExactInv, [Next]_vars, NEW p \in Pods, p \in unhealthyPods' \ unhealthyPods
        PROVE  Cardinality(InOwnWindow(p)') > Own(p).limit
    <2>1. SlowEvent
      BY <1>1 DEF Next, vars, maps, loop, sync, api, ReceiveEvent, FetchConfig, CacheConfig, FastEvent,
         MarkUnhealthy, CheckRecoveryAndCleanup, VerdictsOfTrackedPods, RecoverPod, SyncList, SyncStore,
         ClockTick, DeletePod, CreatePod, UpdateAnnotation, AgentRestart
    <2>2. OverLimit /\ p = cur.pod
      BY <1>1, <2>1 DEF SlowEvent
    <2>3. annotation' = annotation
      BY <1>1, ApiStays DEF ExactInv, OwnConfigs
    <2> QED
      BY <1>1, <2>1, <2>2, <2>3, VerdictIsOwn DEF ExactInv
  <1>2. ExactInv /\ [Next]_vars =>
          [\A p \in Pods : p \in unhealthyPods' \ unhealthyPods
             => Cardinality(InOwnWindow(p)') > Own(p).limit]_vars
    BY <1>1
  <1> QED
    BY <1>2, ExactInductive, PTL DEF Spec, FlagsByOwnPolicy
=============================================================================
