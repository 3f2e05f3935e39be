----------------------- MODULE HealthEvaluatorProofs -----------------------
(* Proofs about HealthEvaluator, for any set of pods, any configs, any     *)
(* durations and any combination of the fault switches.                    *)
EXTENDS HealthEvaluator, FiniteSetTheorems, TLAPS

USE ConfigAssumption, AgeAssumption, NoEventAssumption, SwitchAssumption

CfgOrNone == Configs \cup {NoConfig}

(* The ages are totally ordered numbers, and ageing keeps them ages. *)
LEMMA AgeFacts ==
  /\ Age \subseteq Nat
  /\ 0 \in Age
  /\ Absent \notin Age /\ Absent \in Int /\ \A a \in Age : a >= Absent
  /\ \A a \in Age : Older(a) \in Age /\ Older(a) >= a /\ Older(a) # Absent
  /\ Older(Absent) = Absent
  /\ \A a, b \in Age : a >= b => Older(a) >= Older(b)
  BY DEF Age, Absent, Older

LEMMA AgeOrAbsentIsInt ==
  ASSUME NEW a \in Age \cup {Absent}
  PROVE  a \in Int
  BY DEF Age, Absent

LEMMA OlderAllType ==
  ASSUME NEW S \in SUBSET Age
  PROVE  OlderAll(S) \in SUBSET Age
  BY AgeFacts DEF OlderAll

(* syncNodePods maps caches and listings to caches. *)
LEMMA SyncType ==
  ASSUME NEW f \in [Pods -> CfgOrNone], NEW g \in [Pods -> CfgOrNone]
  PROVE  syncNodePods(f, g) \in [Pods -> CfgOrNone]
  BY DEF syncNodePods, CfgOrNone

LEMMA ListingType ==
  ASSUME annotation \in [Pods -> CfgOrNone]
  PROVE  Listing \in [Pods -> CfgOrNone] /\ EmptyListing \in [Pods -> CfgOrNone]
  BY DEF Listing, EmptyListing, CfgOrNone

LEMMA FirstSyncType ==
  ASSUME NEW g \in [Pods -> CfgOrNone], NEW h \in FirstSync(g)
  PROVE  h \in [Pods -> CfgOrNone]
  <1>1. EmptyListing \in [Pods -> CfgOrNone]
    BY DEF EmptyListing, CfgOrNone
  <1> QED
    BY <1>1, SyncType DEF FirstSync

(* Every cached config has a window, and a config in force is one of the   *)
(* known ones.                                                             *)
LEMMA WindowType ==
  ASSUME TypeOK, NEW p \in Pods
  PROVE  /\ InForce(podConfigs[p]) \in InForceConfigs
         /\ WindowOf(p) \in Nat
  <1>1. podConfigs[p] \in Configs \cup {NoConfig}
    BY DEF TypeOK
  <1>2. InForce(podConfigs[p]) \in InForceConfigs
    BY <1>1 DEF InForce, InForceConfigs
  <1> QED
    BY <1>2 DEF WindowOf

(* While an event is being processed its record is in hand, and only then. *)
LoopShape ==
  /\ pc \in {"fetch", "cache", "evaluate", "mark"} => cur \in EventInHand
  /\ pc \in {"select", "recover"} => cur = NoEvent
  /\ pc = "cache" => cur \in EventInHand /\ cur.config # NoConfig

TypeInv == TypeOK /\ LoopShape

LEMMA TypeInit == Init => TypeInv
  <1> SUFFICES ASSUME Init PROVE TypeInv
    OBVIOUS
  <1>1. podConfigs \in [Pods -> CfgOrNone]
    BY FirstSyncType DEF Init, CfgOrNone
  <1> QED
    BY <1>1, AgeFacts DEF Init, TypeInv, TypeOK, LoopShape, EmptyListing, CfgOrNone

LEMMA TypeStep == TypeInv /\ [Next]_vars => TypeInv'
  <1> SUFFICES ASSUME TypeInv, [Next]_vars PROVE TypeInv'
    OBVIOUS
  <1> USE DEF TypeInv, TypeOK, LoopShape, maps, loop, sync, api
  <1>1. ASSUME NEW p \in Pods, NEW d \in Durations, ReceiveEvent(p, d) PROVE TypeInv'
    BY <1>1, AgeFacts DEF ReceiveEvent, EventInHand
  <1>2. CASE FetchConfig
    <2>1. PICK c \in fetchAndCachePodConfig(cur.pod) :
            cur' = [cur EXCEPT !.config = c] /\ pc' = IF c = NoConfig THEN "evaluate" ELSE "cache"
      BY <1>2 DEF FetchConfig
    <2>2. c \in Configs \cup {NoConfig}
      BY <1>2, ListingType DEF FetchConfig, fetchAndCachePodConfig, EventInHand, CfgOrNone
    <2> QED
      BY <1>2, <2>1, <2>2 DEF FetchConfig, EventInHand
  <1>3. CASE CacheConfig
    BY <1>3 DEF CacheConfig, EventInHand
  <1>4. CASE FastEvent
    BY <1>4 DEF FastEvent, EventDone
  <1>5. CASE SlowEvent
    BY <1>5 DEF SlowEvent, EventDone, AppendViolation, EventInHand
  <1>6. CASE MarkUnhealthy
    BY <1>6 DEF MarkUnhealthy, EventDone, markPodStatus, EventInHand
  <1>7. CASE CheckRecoveryAndCleanup
    BY <1>7, AgeFacts DEF CheckRecoveryAndCleanup, ValidViolations, VerdictsOfTrackedPods
  <1>8. ASSUME NEW p \in Pods, RecoverPod(p) PROVE TypeInv'
    BY <1>8 DEF RecoverPod, markPodStatus
  <1>9. CASE SyncList
    BY <1>9, ListingType DEF SyncList, CfgOrNone
  <1>10. CASE SyncStore
    BY <1>10, SyncType, ListingType DEF SyncStore, CfgOrNone
  <1>11. CASE ClockTick
    BY <1>11, AgeFacts, OlderAllType DEF ClockTick, EventInHand
  <1>12. ASSUME NEW p \in Pods, DeletePod(p) PROVE TypeInv'
    BY <1>12 DEF DeletePod
  <1>13. ASSUME NEW p \in Pods, NEW c \in Configs \cup {NoConfig}, CreatePod(p, c) PROVE TypeInv'
    BY <1>13 DEF CreatePod
  <1>14. ASSUME NEW p \in Pods, NEW c \in Configs \cup {NoConfig}, UpdateAnnotation(p, c) PROVE TypeInv'
    BY <1>14 DEF UpdateAnnotation
  <1>15. CASE AgentRestart
    <2>1. podConfigs' \in [Pods -> CfgOrNone]
      BY <1>15, FirstSyncType, ListingType DEF AgentRestart, CfgOrNone
    <2> QED
      BY <1>15, <2>1, AgeFacts DEF AgentRestart, EmptyListing, CfgOrNone
  <1>16. CASE UNCHANGED vars
    BY <1>16 DEF vars
  <1> QED
    BY <1>1, <1>2, <1>3, <1>4, <1>5, <1>6, <1>7, <1>8, <1>9, <1>10, <1>11, <1>12,
       <1>13, <1>14, <1>15, <1>16 DEF Next

(* Type correctness: the maps of the evaluator, the locals of its two      *)
(* goroutines and the annotations keep their types through every handler.  *)
THEOREM TypeCorrect == Spec => []TypeOK
  <1>1. Init => TypeInv
    BY TypeInit
  <1>2. TypeInv /\ [Next]_vars => TypeInv'
    BY TypeStep
  <1>3. TypeInv => TypeOK
    BY DEF TypeInv
  <1> QED
    BY <1>1, <1>2, <1>3, PTL DEF Spec
-----------------------------------------------------------------------------
(* The inductive invariant behind the safety properties. *)

(* A violation was reported by an event, so it is at least as old as the   *)
(* last event of its pod; what is pruned is older than what is kept.       *)
HistoryShape ==
  \A p \in Pods :
    /\ violationTimes[p] \subseteq history[p]
    /\ \A a \in history[p] : a >= lastSeenTimes[p]
    /\ \A a \in history[p] \ violationTimes[p] : \A b \in violationTimes[p] : a >= b

(* The event in hand is the last one of its pod. *)
EventIsLatest == cur # NoEvent => lastSeenTimes[cur.pod] = cur.now

Quiet(p) ==
  \A a \in history[p] : \E c \in InForceConfigs : a > RecoveryMultiplier * c.window

(* Until the pods found quiet are patched no event is processed. *)
RecoveringPodsQuiet ==
  /\ \A p \in podsToRecover : Quiet(p)
  /\ pc # "recover" => podsToRecover = {}

IInv ==
  /\ TypeInv
  /\ HistoryShape
  /\ EventIsLatest
  /\ NoOrphanVerdict
  /\ RecentViolationsKept
  /\ RecoveringPodsQuiet

LEMMA RecentFact ==
  ASSUME TypeOK, NEW p \in Pods, NEW a \in Age, \A c \in InForceConfigs : a < c.window
  PROVE  a < WindowOf(p)
  BY WindowType DEF WindowOf

(* The steps that touch no timestamp. *)
TimestampsKept == UNCHANGED <<violationTimes, lastSeenTimes, history>>

LEMMA KeptOrNamed ==
  ASSUME Next
  PROVE  \/ TimestampsKept /\ (cur' = NoEvent \/ cur' = cur \/ FetchConfig)
         \/ \E p \in Pods, d \in Durations : ReceiveEvent(p, d)
         \/ SlowEvent
         \/ CheckRecoveryAndCleanup
         \/ ClockTick
         \/ AgentRestart
  BY DEF Next, TimestampsKept, maps, loop, sync, api, FetchConfig, CacheConfig, FastEvent,
         EventDone, MarkUnhealthy, RecoverPod, SyncList, SyncStore, DeletePod, CreatePod,
         UpdateAnnotation

LEMMA HistoryStep ==
  ASSUME TypeInv, TypeInv', HistoryShape, EventIsLatest, [Next]_vars
  PROVE  HistoryShape' /\ EventIsLatest'
  <1> USE DEF TypeInv, TypeOK, LoopShape, HistoryShape, EventIsLatest
  <1>1. CASE TimestampsKept /\ (cur' = NoEvent \/ cur' = cur \/ FetchConfig)
    <2>1. HistoryShape'
      BY <1>1 DEF TimestampsKept
    <2>2. CASE FetchConfig
      <3>1. cur \in EventInHand /\ cur # NoEvent
        BY <2>2 DEF FetchConfig
      <3>2. PICK c \in fetchAndCachePodConfig(cur.pod) : cur' = [cur EXCEPT !.config = c]
        BY <2>2 DEF FetchConfig
      <3>3. cur'.pod = cur.pod /\ cur'.now = cur.now
        BY <3>1, <3>2 DEF EventInHand
      <3> QED
        BY <2>1, <1>1, <3>1, <3>3 DEF TimestampsKept
    <2> QED
      BY <1>1, <2>1, <2>2 DEF TimestampsKept
  <1>2. ASSUME NEW p \in Pods, NEW d \in Durations, ReceiveEvent(p, d)
        PROVE  HistoryShape' /\ EventIsLatest'
    BY <1>2, AgeFacts DEF ReceiveEvent, EventInHand
  <1>3. CASE SlowEvent
    <2>1. cur \in EventInHand /\ cur # NoEvent /\ cur.pod \in Pods /\ cur.now \in Age
      BY <1>3 DEF SlowEvent, EventInHand
    <2>2. EventIsLatest'
      BY <1>3, <2>1 DEF SlowEvent, EventDone
    <2>3. lastSeenTimes' = lastSeenTimes
      BY <1>3 DEF SlowEvent
    <2>4. ASSUME NEW q \in Pods
          PROVE  \/ q = cur.pod /\ violationTimes'[q] = violationTimes[q] \cup {cur.now}
                                /\ history'[q] = history[q] \cup {cur.now}
                 \/ violationTimes'[q] = violationTimes[q] /\ history'[q] = history[q]
      BY <1>3, <2>1 DEF SlowEvent, AppendViolation
    <2>5. ASSUME NEW q \in Pods
          PROVE  history[q] \subseteq Age /\ lastSeenTimes[q] \in Int
      <3>1. history[q] \in SUBSET Age /\ lastSeenTimes[q] \in Age \cup {Absent}
        OBVIOUS
      <3> HIDE DEF TypeInv, TypeOK, LoopShape, HistoryShape, EventIsLatest
      <3>2. lastSeenTimes[q] \in Int
        BY <3>1, AgeOrAbsentIsInt
      <3>3. history[q] \subseteq Age
        BY <3>1
      <3> QED
        BY <3>2, <3>3
    <2>6. HistoryShape'
      BY <2>1, <2>3, <2>4, <2>5, AgeFacts
    <2> QED
      BY <2>2, <2>6
  <1>4. CASE CheckRecoveryAndCleanup
    <2>1. EventIsLatest'
      BY <1>4 DEF CheckRecoveryAndCleanup
    <2>2. ASSUME NEW p \in Pods
          PROVE  /\ violationTimes'[p] = {a \in violationTimes[p] : a < WindowOf(p)}
                 /\ history'[p] = history[p]
                 /\ lastSeenTimes'[p] \in {lastSeenTimes[p], Absent}
                 /\ WindowOf(p) \in Nat
                 /\ history[p] \subseteq Nat
      BY <1>4, WindowType, AgeFacts DEF CheckRecoveryAndCleanup, ValidViolations
    <2>3. HistoryShape'
      BY <2>2 DEF Absent
    <2> QED
      BY <2>1, <2>3
  <1>5. CASE ClockTick
    <2>1. EventIsLatest'
      BY <1>5, AgeFacts DEF ClockTick, EventInHand
    <2>2. ASSUME NEW p \in Pods
          PROVE  /\ violationTimes'[p] = {Older(a) : a \in violationTimes[p]}
                 /\ history'[p] = {Older(a) : a \in history[p]}
                 /\ lastSeenTimes'[p] = Older(lastSeenTimes[p])
      BY <1>5 DEF ClockTick, OlderAll
    <2>3. ASSUME NEW p \in Pods, NEW a \in history'[p]
          PROVE  a >= lastSeenTimes'[p]
      <3>1. PICK b \in history[p] : a = Older(b)
        BY <2>2
      <3>2. b \in Age /\ b >= lastSeenTimes[p] /\ lastSeenTimes[p] \in Age \cup {Absent}
        OBVIOUS
      <3>3. lastSeenTimes'[p] = Older(lastSeenTimes[p])
        BY <2>2
      <3> HIDE DEF TypeInv, TypeOK, LoopShape, HistoryShape, EventIsLatest
      <3>4. CASE lastSeenTimes[p] = Absent
        BY <3>1, <3>2, <3>3, <3>4, AgeFacts
      <3>5. CASE lastSeenTimes[p] \in Age
        BY <3>1, <3>2, <3>3, <3>5, AgeFacts
      <3> QED
        BY <3>2, <3>4, <3>5
    <2>4. ASSUME NEW p \in Pods, NEW a \in history'[p] \ violationTimes'[p],
                 NEW b \in violationTimes'[p]
          PROVE  a >= b
      BY <2>2, AgeFacts
    <2> QED
      BY <2>1, <2>2, <2>3, <2>4
  <1>6. CASE AgentRestart
    BY <1>6 DEF AgentRestart
  <1>7. CASE UNCHANGED vars
    BY <1>7 DEF vars, maps, loop
  <1> QED
    BY <1>1, <1>2, <1>3, <1>4, <1>5, <1>6, <1>7, KeptOrNamed

LEMMA OrphanStep ==
  ASSUME TypeInv, HistoryShape, EventIsLatest, NoOrphanVerdict, [Next]_vars
  PROVE  NoOrphanVerdict'
  <1> USE DEF TypeInv, TypeOK, LoopShape, NoOrphanVerdict
  <1>1. CASE TimestampsKept /\ unhealthyPods' \subseteq unhealthyPods
    BY <1>1 DEF TimestampsKept
  <1>2. ASSUME NEW p \in Pods, NEW d \in Durations, ReceiveEvent(p, d)
        PROVE  NoOrphanVerdict'
    BY <1>2, AgeFacts DEF ReceiveEvent
  <1>3. CASE SlowEvent
    <2>1. cur \in EventInHand /\ lastSeenTimes[cur.pod] # Absent
      BY <1>3, AgeFacts DEF SlowEvent, EventIsLatest, EventInHand
    <2> QED
      BY <1>3, <2>1 DEF SlowEvent, AppendViolation, EventInHand
  <1>4. CASE CheckRecoveryAndCleanup
    <2>1. ASSUME NEW p \in Pods, StalePod(p)
          PROVE  ValidViolations(p) = {}
      <3>1. \A a \in violationTimes[p] : a \in Nat /\ a >= lastSeenTimes[p]
        BY AgeFacts DEF HistoryShape
      <3>2. WindowOf(p) \in Nat /\ lastSeenTimes[p] \in Nat /\ lastSeenTimes[p] > 3 * WindowOf(p)
        BY <2>1, WindowType, AgeFacts DEF StalePod, RecoveryMultiplier
      <3> QED
        BY <3>1, <3>2 DEF ValidViolations
    <2> QED
      BY <1>4, <2>1 DEF CheckRecoveryAndCleanup, VerdictsOfTrackedPods, ValidViolations
  <1>5. CASE ClockTick
    BY <1>5, AgeFacts DEF ClockTick, OlderAll
  <1>6. CASE AgentRestart
    BY <1>6 DEF AgentRestart
  <1>7. CASE UNCHANGED vars
    BY <1>7 DEF vars, maps
  <1> QED
    BY <1>1, <1>2, <1>3, <1>4, <1>5, <1>6, <1>7
    DEF Next, TimestampsKept, maps, loop, sync, api, FetchConfig, CacheConfig, FastEvent,
        MarkUnhealthy, RecoverPod, SyncList, SyncStore, DeletePod, CreatePod, UpdateAnnotation

LEMMA RecentStep ==
  ASSUME TypeInv, RecentViolationsKept, [Next]_vars
  PROVE  RecentViolationsKept'
  <1> USE DEF TypeInv, TypeOK, LoopShape, RecentViolationsKept, Recent
  <1>1. CASE UNCHANGED <<violationTimes, history>>
    BY <1>1
  <1>2. CASE SlowEvent
    BY <1>2 DEF SlowEvent, AppendViolation, EventInHand
  <1>3. CASE CheckRecoveryAndCleanup
    <2>1. ASSUME NEW p \in Pods, NEW a \in Recent(history[p])
          PROVE  a \in ValidViolations(p)
      BY <2>1, RecentFact DEF ValidViolations
    <2> QED
      BY <1>3, <2>1 DEF CheckRecoveryAndCleanup
  <1>4. CASE ClockTick
    <2>1. ASSUME NEW p \in Pods, NEW a \in history[p],
                 \A c \in InForceConfigs : Older(a) < c.window
          PROVE  a \in violationTimes[p]
      <3>1. a \in Nat /\ Older(a) \in Nat /\ a <= Older(a)
        BY AgeFacts
      <3>2. ASSUME NEW c \in InForceConfigs PROVE a < c.window
        BY <2>1, <3>1
      <3> QED
        BY <3>2
    <2> QED
      BY <1>4, <2>1 DEF ClockTick, OlderAll
  <1>5. CASE AgentRestart
    BY <1>5 DEF AgentRestart
  <1> QED
    BY <1>1, <1>2, <1>3, <1>4, <1>5
    DEF Next, vars, maps, loop, sync, api, ReceiveEvent, FetchConfig, CacheConfig, FastEvent,
        MarkUnhealthy, RecoverPod, SyncList, SyncStore, DeletePod, CreatePod, UpdateAnnotation

(* A pod is found quiet by what is left in the window, and what was pruned *)
(* is older still.                                                         *)
LEMMA DueIsQuiet ==
  ASSUME TypeInv, HistoryShape, NEW p \in Pods, RecoveryDue(p)
  PROVE  Quiet(p)
  <1> DEFINE c == InForce(podConfigs[p])
             w == RecoveryMultiplier * c.window
  <1>1. c \in InForceConfigs /\ c.window \in Nat
    BY WindowType DEF TypeInv, WindowOf
  <1>2. PICK b \in violationTimes[p] : b > w
    BY DEF RecoveryDue, WindowOf
  <1>3. violationTimes[p] \in SUBSET Age /\ history[p] \in SUBSET Age
    BY DEF TypeInv, TypeOK
  <1>4. \A a \in violationTimes[p] : a > w
    BY DEF RecoveryDue, WindowOf
  <1>5. \A a \in history[p] \ violationTimes[p] : a >= b
    BY <1>2 DEF HistoryShape
  <1>6. w \in Nat
    BY <1>1 DEF RecoveryMultiplier
  <1> HIDE DEF w
  <1>7. ASSUME NEW a \in history[p] PROVE a > w
    <2>1. a \in Nat /\ b \in Nat
      BY <1>2, <1>3, AgeFacts
    <2>2. a \in violationTimes[p] \/ a >= b
      BY <1>5
    <2> QED
      BY <1>2, <1>4, <1>6, <2>1, <2>2
  <1> USE DEF w
  <1> HIDE DEF c
  <1> QED
    BY <1>1, <1>7 DEF Quiet

LEMMA QuietStep ==
  ASSUME TypeInv, HistoryShape, RecoveringPodsQuiet, [Next]_vars
  PROVE  RecoveringPodsQuiet'
  <1> USE DEF RecoveringPodsQuiet
  <1>1. CASE podsToRecover' = podsToRecover /\ history' = history /\ (pc' # pc => pc' # "recover" /\ pc # "recover")
    BY <1>1 DEF Quiet
  <1>2. CASE SlowEvent
    BY <1>2 DEF SlowEvent, EventDone
  <1>3. CASE CheckRecoveryAndCleanup
    <2>1. \A p \in podsToRecover' : Quiet(p)
      BY <1>3, DueIsQuiet DEF CheckRecoveryAndCleanup
    <2> QED
      BY <1>3, <2>1 DEF CheckRecoveryAndCleanup, Quiet
  <1>4. ASSUME NEW p \in Pods, RecoverPod(p) PROVE RecoveringPodsQuiet'
    BY <1>4 DEF RecoverPod, Quiet
  <1>5. CASE ClockTick
    <2>1. ASSUME NEW p \in podsToRecover, NEW a \in history'[p]
          PROVE  \E c \in InForceConfigs : a > RecoveryMultiplier * c.window
      <3>1. p \in Pods /\ history[p] \in SUBSET Age
        BY DEF TypeInv, TypeOK
      <3>2. PICK b \in history[p] : a = Older(b)
        BY <1>5, <3>1 DEF ClockTick, OlderAll
      <3>3. PICK c \in InForceConfigs : b > RecoveryMultiplier * c.window
        BY DEF Quiet
      <3>4. a \in Nat /\ b \in Nat /\ a >= b
        BY <3>1, <3>2, AgeFacts
      <3>5. RecoveryMultiplier * c.window \in Nat
        <4>1. c.window \in Nat
          BY ConfigAssumption
        <4> QED
          BY <4>1 DEF RecoveryMultiplier
      <3> QED
        BY <3>3, <3>4, <3>5
    <2> QED
      BY <1>5, <2>1 DEF ClockTick, Quiet
  <1>6. CASE AgentRestart
    BY <1>6 DEF AgentRestart
  <1> QED
    BY <1>1, <1>2, <1>3, <1>4, <1>5, <1>6
    DEF Next, vars, maps, loop, sync, api, ReceiveEvent, FetchConfig, CacheConfig, FastEvent,
        EventDone, MarkUnhealthy, SyncList, SyncStore, DeletePod, CreatePod, UpdateAnnotation

LEMMA IInvInductive ==
  /\ Init => IInv
  /\ IInv /\ [Next]_vars => IInv'
  <1>1. ASSUME Init PROVE IInv
    BY <1>1, TypeInit
    DEF Init, IInv, HistoryShape, EventIsLatest, NoOrphanVerdict, RecentViolationsKept, Recent,
        RecoveringPodsQuiet
  <1>2. ASSUME IInv, [Next]_vars PROVE IInv'
    BY <1>2, TypeStep, HistoryStep, OrphanStep, RecentStep, QuietStep DEF IInv
  <1> QED
    BY <1>1, <1>2

(* Whatever is remembered of a pod belongs to a tracked pod, so the        *)
(* clean-up reaches it: inductive only together with the fact that no      *)
(* violation is younger than the last event of its pod.                    *)
THEOREM NoOrphanVerdictHolds == Spec => []NoOrphanVerdict
  <1>1. IInv => NoOrphanVerdict
    BY DEF IInv
  <1> QED
    BY <1>1, IInvInductive, PTL DEF Spec

(* Pruning, refetching and late syncs never lose a violation that counts   *)
(* under every config.                                                     *)
THEOREM RecentViolationsKeptHolds == Spec => []RecentViolationsKept
  <1>1. IInv => RecentViolationsKept
    BY DEF IInv
  <1> QED
    BY <1>1, IInvInductive, PTL DEF Spec

(* A pod is declared healthy only after RecoveryMultiplier windows without *)
(* a violation, the pruned ones included.                                  *)
THEOREM HealthyOnlyAfterQuietHolds == Spec => HealthyOnlyAfterQuiet
  <1>1. ASSUME IInv, [Next]_vars, NEW p \in Pods, health'[p] = "healthy", health[p] # "healthy"
        PROVE  Quiet(p)
    <2>1. health \in [Pods -> {"none", "healthy", "unhealthy"}]
      BY <1>1 DEF IInv, TypeInv, TypeOK
    <2>2. CASE MarkUnhealthy
      BY <1>1, <2>1, <2>2 DEF MarkUnhealthy, markPodStatus
    <2>3. ASSUME NEW q \in Pods, RecoverPod(q) PROVE q = p /\ p \in podsToRecover
      BY <1>1, <2>1, <2>3 DEF RecoverPod, markPodStatus
    <2>4. ASSUME NEW q \in Pods, DeletePod(q) PROVE FALSE
      BY <1>1, <2>1, <2>4 DEF DeletePod
    <2>5. CASE health' = health
      BY <1>1, <2>5
    <2>6. p \in podsToRecover => Quiet(p)
      BY <1>1 DEF IInv, RecoveringPodsQuiet
    <2> QED
      BY <1>1, <2>2, <2>3, <2>4, <2>5, <2>6
      DEF Next, vars, maps, loop, sync, api, ReceiveEvent, FetchConfig, CacheConfig, FastEvent,
          SlowEvent, CheckRecoveryAndCleanup, SyncList, SyncStore, ClockTick, CreatePod,
          UpdateAnnotation, AgentRestart
  <1>2. IInv /\ [Next]_vars =>
          [\A p \in Pods : health'[p] = "healthy" /\ health[p] # "healthy" =>
             \A a \in history[p] :
               \E c \in InForceConfigs : a > RecoveryMultiplier * c.window]_vars
    BY <1>1 DEF Quiet
  <1> QED
    BY <1>2, IInvInductive, PTL DEF Spec, HealthyOnlyAfterQuiet
-----------------------------------------------------------------------------
(* Detection *)

LEMMA AgesFinite ==
  ASSUME NEW S \in SUBSET Age
  PROVE  IsFiniteSet(S) /\ Cardinality(S) \in Nat
  <1>1. IsFiniteSet(Age)
    BY FS_Interval DEF Age
  <1>2. IsFiniteSet(S)
    BY <1>1, FS_Subset
  <1> QED
    BY <1>2, FS_CardinalityType

(* Ageing adds nothing to what is recent. *)
LEMMA AgeingShrinksRecent ==
  ASSUME NEW S \in SUBSET Age
  PROVE  Cardinality(Recent(OlderAll(S))) <= Cardinality(Recent(S))
  <1> DEFINE R == Recent(S)
             T == {Older(a) : a \in R}
             f == [a \in R |-> Older(a)]
  <1>1. R \in SUBSET Age /\ IsFiniteSet(R) /\ Cardinality(R) \in Nat
    BY AgesFinite DEF Recent
  <1>2. f \in Surjection(R, T)
    BY DEF Surjection
  <1>3. IsFiniteSet(T) /\ Cardinality(T) <= Cardinality(R)
    BY <1>1, <1>2, FS_Surjection
  <1>4. ASSUME NEW b \in Recent(OlderAll(S)) PROVE b \in T
    <2>1. PICK a \in S : b = Older(a)
      BY DEF Recent, OlderAll
    <2>2. a \in Nat /\ b \in Nat /\ b >= a
      BY <2>1, AgeFacts
    <2>3. \A c \in InForceConfigs : b < c.window
      BY DEF Recent
    <2>4. ASSUME NEW c \in InForceConfigs PROVE a < c.window
      BY <2>2, <2>3
    <2> QED
      BY <2>1, <2>4 DEF Recent
  <1>5. Recent(OlderAll(S)) \in SUBSET T
    BY <1>4
  <1> HIDE DEF R, T
  <1>6. Cardinality(Recent(OlderAll(S))) <= Cardinality(T)
    BY <1>3, <1>5, FS_Subset
  <1>7. Cardinality(T) \in Nat /\ Cardinality(Recent(OlderAll(S))) \in Nat
    BY <1>3, <1>5, FS_Subset, FS_CardinalityType
  <1>8. Cardinality(Recent(OlderAll(S))) <= Cardinality(R)
    BY <1>1, <1>3, <1>6, <1>7
  <1> QED
    BY <1>8 DEF R

Alarm(p) == \A c \in InForceConfigs : Cardinality(Recent(history[p])) > c.limit

(* Without a recent violation there is no alarm. *)
LEMMA NoAlarmWhenOld ==
  ASSUME NEW p \in Pods, Recent(history[p]) = {}
  PROVE  ~Alarm(p)
  <1>1. Default \in InForceConfigs /\ Default.limit \in Nat
    BY DEF InForceConfigs
  <1>2. Cardinality(Recent(history[p])) = 0
    BY FS_EmptySet
  <1> QED
    BY <1>1, <1>2 DEF Alarm

LEMMA DetectionStep ==
  ASSUME IInv, IInv', NoMissedDetection, [Next]_vars
  PROVE  NoMissedDetection'
  <1>a. TypeInv /\ TypeOK
    BY DEF IInv, TypeInv
  <1>b. \A p \in Pods : Alarm(p) => p \in unhealthyPods
    BY DEF NoMissedDetection, Alarm
  <1> SUFFICES ASSUME NEW p \in Pods, Alarm(p)' PROVE p \in unhealthyPods'
    BY DEF NoMissedDetection, Alarm
  <1>c. history[p] \in SUBSET Age /\ history'[p] \in SUBSET Age
    BY <1>a DEF IInv, TypeInv, TypeOK
  <1>1. CASE history' = history /\ unhealthyPods' = unhealthyPods
    BY <1>1, <1>b DEF Alarm
  <1>2. CASE SlowEvent
    <2>1. CASE p # cur.pod
      <3>1. history'[p] = history[p] /\ (p \in unhealthyPods => p \in unhealthyPods')
        BY <1>2, <1>a, <2>1 DEF SlowEvent, AppendViolation, TypeOK
      <3> QED
        BY <3>1, <1>b DEF Alarm
    <2>2. CASE p = cur.pod
      <3> DEFINE c == InForce(cur.config)
                 V == violationTimes[cur.pod] \cup {cur.now}
      <3>1. cur \in EventInHand /\ c \in InForceConfigs
        BY <1>2, <1>a DEF SlowEvent, TypeInv, LoopShape, EventInHand, InForce, InForceConfigs
      <3>2. violationTimes'[p] = V
        BY <1>2, <1>a, <2>2, <3>1 DEF SlowEvent, AppendViolation, TypeOK, EventInHand
      <3>3. V \in SUBSET Age
        BY <1>a, <3>1 DEF TypeOK, EventInHand
      <3>4. Recent(history'[p]) \subseteq V
        BY <3>2 DEF IInv, RecentViolationsKept
      <3>5. Recent(history'[p]) \in SUBSET {a \in V : a < c.window}
        BY <3>1, <3>4 DEF Recent
      <3>6. IsFiniteSet({a \in V : a < c.window})
        BY <3>3, AgesFinite
      <3>7. Cardinality(Recent(history'[p])) <= Cardinality({a \in V : a < c.window})
        BY <3>5, <3>6, FS_Subset
      <3>8. Cardinality(Recent(history'[p])) > c.limit
        BY <3>1 DEF Alarm
      <3>9. /\ Cardinality(Recent(history'[p])) \in Nat
            /\ Cardinality({a \in V : a < c.window}) \in Nat
            /\ c.limit \in Nat
        BY <3>1, <3>3, <1>c, AgesFinite DEF Recent
      <3> HIDE DEF c, V
      <3>10. Cardinality({a \in V : a < c.window}) > c.limit
        BY <3>7, <3>8, <3>9
      <3>11. OverLimit
        BY <3>10 DEF OverLimit, countViolations, c, V
      <3> QED
        BY <1>2, <2>2, <3>11 DEF SlowEvent
    <2> QED
      BY <2>1, <2>2
  <1>3. CASE CheckRecoveryAndCleanup
    <2>1. ~StalePod(p)
      <3> SUFFICES ASSUME StalePod(p) PROVE FALSE
        OBVIOUS
      <3>1. WindowOf(p) \in Nat /\ lastSeenTimes[p] \in Nat /\ lastSeenTimes[p] > 3 * WindowOf(p)
        BY <1>a, WindowType, AgeFacts DEF StalePod, RecoveryMultiplier, TypeOK
      <3>2. \A a \in history[p] : a \in Nat /\ a >= lastSeenTimes[p]
        BY <1>c, AgeFacts DEF IInv, HistoryShape
      <3>3. \A a \in Recent(history[p]) : a < WindowOf(p)
        BY <1>a, <1>c, RecentFact DEF Recent
      <3>4. Recent(history[p]) = {}
        BY <3>1, <3>2, <3>3 DEF Recent
      <3>5. history' = history
        BY <1>3 DEF CheckRecoveryAndCleanup
      <3> QED
        BY <3>4, <3>5, NoAlarmWhenOld DEF Alarm
    <2> QED
      BY <1>3, <1>b, <2>1 DEF CheckRecoveryAndCleanup, VerdictsOfTrackedPods, Alarm
  <1>4. ASSUME NEW q \in Pods, RecoverPod(q) PROVE p \in unhealthyPods'
    <2>1. history' = history
      BY <1>4 DEF RecoverPod
    <2>2. CASE q # p
      BY <1>4, <1>b, <2>1, <2>2 DEF RecoverPod, Alarm
    <2>3. CASE q = p
      <3>1. Quiet(p)
        BY <1>4, <2>3 DEF RecoverPod, IInv, RecoveringPodsQuiet
      <3>2. ASSUME NEW a \in Recent(history[p]) PROVE FALSE
        <4>1. PICK c \in InForceConfigs : a > RecoveryMultiplier * c.window
          BY <3>1 DEF Quiet, Recent
        <4>2. a < c.window /\ a \in Age
          BY <1>c DEF Recent
        <4>3. c.window \in Nat /\ a \in Nat
          BY <4>2, AgeFacts, ConfigAssumption
        <4> QED
          BY <4>1, <4>2, <4>3 DEF RecoveryMultiplier
      <3> QED
        BY <2>1, <3>2, NoAlarmWhenOld DEF Alarm
    <2> QED
      BY <2>2, <2>3
  <1>5. CASE ClockTick
    <2>1. history'[p] = OlderAll(history[p]) /\ unhealthyPods' = unhealthyPods
      BY <1>5 DEF ClockTick
    <2>2. Cardinality(Recent(history'[p])) <= Cardinality(Recent(history[p]))
      BY <1>c, <2>1, AgeingShrinksRecent
    <2>3. Cardinality(Recent(history'[p])) \in Nat /\ Cardinality(Recent(history[p])) \in Nat
      BY <1>c, AgesFinite DEF Recent
    <2>4. ASSUME NEW c \in InForceConfigs PROVE Cardinality(Recent(history[p])) > c.limit
      <3>1. Cardinality(Recent(history'[p])) > c.limit /\ c.limit \in Nat
        BY DEF Alarm
      <3> QED
        BY <2>2, <2>3, <3>1
    <2> QED
      BY <1>b, <2>1, <2>4 DEF Alarm
  <1>6. CASE AgentRestart
    <2>1. Recent(history'[p]) = {}
      BY <1>6 DEF AgentRestart, Recent
    <2>2. ~Alarm(p)'
      <3>1. Default \in InForceConfigs /\ Default.limit \in Nat
        BY DEF InForceConfigs
      <3> QED
        BY <2>1, <3>1, FS_EmptySet DEF Alarm
    <2> QED
      BY <2>2
  <1> QED
    BY <1>1, <1>2, <1>3, <1>4, <1>5, <1>6
    DEF Next, vars, maps, loop, sync, api, ReceiveEvent, FetchConfig, CacheConfig, FastEvent,
        MarkUnhealthy, SyncList, SyncStore, DeletePod, CreatePod, UpdateAnnotation

(* A pod with more recent violations than every limit in force is flagged, *)
(* whatever processEvent, the ticker, the syncs and the restarts did in    *)
(* between.                                                                *)
THEOREM NoMissedDetectionHolds == Spec => []NoMissedDetection
  <1>1. Init => NoMissedDetection
    <2> SUFFICES ASSUME Init, NEW p \in Pods PROVE ~Alarm(p)
      BY DEF NoMissedDetection, Alarm
    <2>1. Recent(history[p]) = {}
      BY DEF Init, Recent
    <2> QED
      BY <2>1, NoAlarmWhenOld
  <1>2. IInv /\ IInv' /\ NoMissedDetection /\ [Next]_vars => NoMissedDetection'
    BY DetectionStep
  <1> QED
    BY <1>1, <1>2, IInvInductive, PTL DEF Spec
-----------------------------------------------------------------------------
(* Publication *)

ReliableInv ==
  /\ TypeInv
  /\ live = Pods
  /\ VerdictPublished
  /\ podsToRecover # {} => pc = "recover"

(* While requests succeed and pods are not replaced, every pod flagged in  *)
(* memory is annotated unhealthy, the moment of the patch excepted.        *)
THEOREM VerdictPublishedHolds ==
  ASSUME ~ApiMayFail, ~PodsMayRestart
  PROVE  Spec => []VerdictPublished
  <1>1. Init => ReliableInv
    BY TypeInit DEF Init, ReliableInv, VerdictPublished
  <1>2. ReliableInv /\ [Next]_vars => ReliableInv'
    <2> SUFFICES ASSUME ReliableInv, [Next]_vars PROVE ReliableInv'
      OBVIOUS
    <2> USE DEF ReliableInv, VerdictPublished
    <2>a. TypeInv'
      BY TypeStep
    <2>b. /\ pc \in {"fetch", "cache", "evaluate", "mark"} => cur \in EventInHand
          /\ health \in [Pods -> {"none", "healthy", "unhealthy"}]
      BY DEF TypeInv, TypeOK, LoopShape
    <2>c. ASSUME NEW p \in Pods, NEW st, markPodStatus(p, st)
          PROVE  health' = [health EXCEPT ![p] = st]
      BY <2>c, Zenon DEF markPodStatus
    <2>1. CASE /\ UNCHANGED <<live, health, podsToRecover>> /\ unhealthyPods' \subseteq unhealthyPods
               /\ pc # "mark" /\ pc # "recover" /\ pc' # "mark"
      BY <2>a, <2>1
    <2>2. CASE UNCHANGED <<live, health, podsToRecover, unhealthyPods, pc, cur>>
      BY <2>a, <2>2
    <2>3. CASE SlowEvent
      BY <2>a, <2>3 DEF SlowEvent, EventDone, api
    <2>4. CASE MarkUnhealthy
      <3>1. cur.pod \in Pods
        BY <2>b, <2>4 DEF MarkUnhealthy, EventInHand
      <3>2. health' = [health EXCEPT ![cur.pod] = "unhealthy"]
        BY <2>4, <3>1, <2>c DEF MarkUnhealthy
      <3>3. pc = "mark" /\ UNCHANGED <<live, podsToRecover, unhealthyPods>>
        BY <2>4 DEF MarkUnhealthy, maps
      <3> QED
        BY <2>a, <2>b, <3>1, <3>2, <3>3
    <2>5. CASE CheckRecoveryAndCleanup
      BY <2>a, <2>5 DEF CheckRecoveryAndCleanup, VerdictsOfTrackedPods, api
    <2>6. ASSUME NEW p \in Pods, RecoverPod(p) PROVE ReliableInv'
      <3>1. health' = [health EXCEPT ![p] = "healthy"]
        BY <2>6, <2>c DEF RecoverPod
      <3>2. /\ pc = "recover" /\ live' = live /\ unhealthyPods' = unhealthyPods \ {p}
            /\ podsToRecover' # {} => pc' = "recover"
        BY <2>6 DEF RecoverPod
      <3> QED
        BY <2>a, <2>b, <3>1, <3>2
    <2>7. CASE ClockTick
      <3>1. UNCHANGED <<live, health, podsToRecover, unhealthyPods, pc>>
        BY <2>7 DEF ClockTick, api
      <3>2. pc = "mark" => cur'.pod = cur.pod
        BY <2>b, <2>7 DEF ClockTick, EventInHand
      <3> QED
        BY <2>a, <3>1, <3>2
    <2>8. CASE AgentRestart
      BY <2>a, <2>8 DEF AgentRestart, api
    <2> QED
      BY <2>1, <2>2, <2>3, <2>4, <2>5, <2>6, <2>7, <2>8
      DEF Next, vars, maps, loop, sync, api, ReceiveEvent, FetchConfig, CacheConfig, FastEvent,
          EventDone, SyncList, SyncStore, DeletePod, CreatePod, UpdateAnnotation
  <1>3. ReliableInv => VerdictPublished
    BY DEF ReliableInv
  <1> QED
    BY <1>1, <1>2, <1>3, PTL DEF Spec
=============================================================================
