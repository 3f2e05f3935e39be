-------------------------- MODULE HealthEvaluator --------------------------
(***************************************************************************)
(* The agent's HealthEvaluator (agent/collector/evaluator.go): the         *)
(* goroutine runLoop judges every pod of the node by a sliding window of   *)
(* slow NCCL operations and publishes the verdict as a pod annotation; the *)
(* goroutine periodicSync refreshes the cached policies; both share four   *)
(* maps under one mutex and talk to the API server outside of it.          *)
(*                                                                         *)
(* Time.  A timestamp is kept as its age, saturating at AgeCap, which is   *)
(* older than every cutoff the code computes.  "t.After(now - w)" is then  *)
(* age < w and "t.Before(now - w)" is age > w.  The clock never stops, so  *)
(* no bound on the length of a behaviour is needed.  The quantum of the    *)
(* clock is finer than the distance of two events of one pod (the Go clock *)
(* has nanoseconds): the timestamps of one pod are distinct, and a slice   *)
(* of timestamps is a set of ages.                                         *)
(*                                                                         *)
(* Events that processEvent drops at its first two returns (another metric *)
(* type, an unnamed pod) change nothing and are not inputs here.           *)
(***************************************************************************)
EXTENDS Integers, FiniteSets

CONSTANTS
  Pods,             \* pod keys "namespace/name" of this node
  Configs,          \* governance configs a pod annotation may carry
  Default,          \* the agent's own flags: window-size, error-count-limit, threshold-us
  NoConfig,         \* a missing map entry, or a pod without a readable annotation
  NoEvent,          \* runLoop is not inside processEvent
  Durations,        \* values of MetricEvent.DurationUs
  AgeCap,           \* bound: ages saturate here
  ApiMayFail,       \* requests to the API server may fail
  PodsMayRestart,   \* pods may be deleted and created again under their name
  PolicyMayChange,  \* the annotation of a living pod may change
  AgentMayRestart   \* the agent process may crash and start again

RecoveryMultiplier == 3

InForceConfigs == Configs \cup {Default}

ASSUME ConfigAssumption ==
  /\ InForceConfigs \subseteq [threshold : Nat, window : Nat, limit : Nat]
  /\ NoConfig \notin Configs
  /\ Durations \subseteq Nat

ASSUME AgeAssumption ==
  /\ AgeCap \in Nat \ {0}
  /\ \A c \in InForceConfigs : RecoveryMultiplier * c.window < AgeCap

Absent == -1            \* no entry in lastSeenTimes
Age    == 0 .. AgeCap

EventInHand ==
  [pod : Pods, duration : Durations, now : Age, config : Configs \cup {NoConfig}]

ASSUME NoEventAssumption == NoEvent \notin EventInHand

ASSUME SwitchAssumption ==
  {ApiMayFail, PodsMayRestart, PolicyMayChange, AgentMayRestart} \subseteq BOOLEAN

VARIABLES
  violationTimes,  \* HealthEvaluator.violationTimes; a pod has an entry iff its set is not empty
  lastSeenTimes,   \* HealthEvaluator.lastSeenTimes
  unhealthyPods,   \* HealthEvaluator.unhealthyPods, the keys that map to true
  podConfigs,      \* HealthEvaluator.podConfigs
  pc,              \* where runLoop is
  cur,             \* the locals of processEvent
  podsToRecover,   \* the local of checkRecoveryAndCleanup
  syncing,         \* periodicSync holds a listing it has not stored yet
  listed,          \* that listing: the annotations by pod
  live,            \* API server: pods that exist
  health,          \* API server: the health annotation
  annotation,      \* API server: the governance-config annotation
  history          \* ghost: ages of all violations since the agent started, never pruned

maps   == <<violationTimes, lastSeenTimes, unhealthyPods, podConfigs>>
loop   == <<pc, cur, podsToRecover>>
sync   == <<syncing, listed>>
api    == <<live, health, annotation>>
vars   == <<maps, loop, sync, api, history>>

TypeOK ==
  /\ violationTimes \in [Pods -> SUBSET Age]
  /\ lastSeenTimes  \in [Pods -> Age \cup {Absent}]
  /\ unhealthyPods  \in SUBSET Pods
  /\ podConfigs     \in [Pods -> Configs \cup {NoConfig}]
  /\ pc             \in {"select", "fetch", "cache", "evaluate", "mark", "recover"}
  /\ cur            \in EventInHand \cup {NoEvent}
  /\ podsToRecover  \in SUBSET Pods
  /\ syncing        \in BOOLEAN
  /\ listed         \in [Pods -> Configs \cup {NoConfig}]
  /\ live           \in SUBSET Pods
  /\ health         \in [Pods -> {"none", "healthy", "unhealthy"}]
  /\ annotation     \in [Pods -> Configs \cup {NoConfig}]
  /\ history        \in [Pods -> SUBSET Age]
-----------------------------------------------------------------------------
(* Mutant: a cached entry is never overwritten. *)
syncNewPodsOnly(configs, listing) ==
  [p \in Pods |-> IF configs[p] # NoConfig THEN configs[p] ELSE listing[p]]

(* What syncNodePods stores: a listing overrides the entries of the pods   *)
(* it has a readable config for and leaves every other entry alone.        *)
syncNodePods(configs, listing) ==
  [p \in Pods |-> IF listing[p] # NoConfig THEN listing[p] ELSE configs[p]]

Listing == [p \in Pods |-> IF p \in live THEN annotation[p] ELSE NoConfig]

EmptyListing == [p \in Pods |-> NoConfig]

(* The caches Start may leave behind: one synchronous sync, whose failure  *)
(* is only logged.                                                         *)
FirstSync(listing) ==
  {syncNodePods(EmptyListing, listing)} \cup {c \in {EmptyListing} : ApiMayFail}

(* NewHealthEvaluator and Start: empty maps and the first sync. *)
Init ==
  /\ live = Pods
  /\ health         = [p \in Pods |-> "none"]
  /\ annotation    \in [Pods -> Configs \cup {NoConfig}]
  /\ violationTimes = [p \in Pods |-> {}]
  /\ lastSeenTimes  = [p \in Pods |-> Absent]
  /\ unhealthyPods  = {}
  /\ podConfigs    \in FirstSync(annotation)
  /\ pc = "select" /\ cur = NoEvent /\ podsToRecover = {}
  /\ syncing = FALSE /\ listed = EmptyListing
  /\ history        = [p \in Pods |-> {}]
-----------------------------------------------------------------------------
(* processEvent *)

(* The config an event is judged by: the pod's own, else the agent flags.  *)
InForce(config) == IF config = NoConfig THEN Default ELSE config

countViolations(times, window) == Cardinality({a \in times : a < window})

(* Lines 129-148: the timestamp is taken and the pod's config looked up    *)
(* under the mutex.                                                        *)
ReceiveEvent(p, d) ==
  /\ pc = "select"
  /\ lastSeenTimes[p] # 0        \* the timestamps of one pod are distinct
  /\ lastSeenTimes' = [lastSeenTimes EXCEPT ![p] = 0]
  /\ cur' = [pod |-> p, duration |-> d, now |-> 0, config |-> podConfigs[p]]
  /\ pc'  = IF podConfigs[p] = NoConfig THEN "fetch" ELSE "evaluate"
  /\ UNCHANGED <<violationTimes, unhealthyPods, podConfigs, podsToRecover, sync, api, history>>

(* Mutant: a pod without a config is given, and caches, the agent's flags. *)
fetchAndCacheDefault(p) == {InForce(Listing[p])}

(* What fetchAndCachePodConfig may return: the annotation as it is on the  *)
(* API server now, or nil for an error and for a missing or unreadable     *)
(* annotation.                                                             *)
fetchAndCachePodConfig(p) == {Listing[p]} \cup {c \in {NoConfig} : ApiMayFail}

(* The request, outside of the mutex; nil is not cached. *)
FetchConfig ==
  /\ pc = "fetch"
  /\ \E c \in fetchAndCachePodConfig(cur.pod) :
       /\ cur' = [cur EXCEPT !.config = c]
       /\ pc'  = IF c = NoConfig THEN "evaluate" ELSE "cache"
  /\ UNCHANGED <<maps, podsToRecover, sync, api, history>>

CacheConfig ==
  /\ pc = "cache"
  /\ podConfigs' = [podConfigs EXCEPT ![cur.pod] = cur.config]
  /\ pc' = "evaluate"
  /\ UNCHANGED <<violationTimes, lastSeenTimes, unhealthyPods, cur, podsToRecover, sync, api, history>>

(* Lines 156-183: the verdict, under the mutex. *)
EventDone == pc' = "select" /\ cur' = NoEvent

SlowOperation == cur.duration > InForce(cur.config).threshold

AppendViolation ==
  /\ violationTimes' = [violationTimes EXCEPT ![cur.pod] = @ \cup {cur.now}]
  /\ history'        = [history        EXCEPT ![cur.pod] = @ \cup {cur.now}]

(* Mutant: the violations are counted before the new one is appended. *)
OverLimitBeforeAppend ==
  LET c == InForce(cur.config)
  IN  countViolations(violationTimes[cur.pod], c.window) > c.limit

OverLimit ==
  LET c == InForce(cur.config)
  IN  countViolations(violationTimes[cur.pod] \cup {cur.now}, c.window) > c.limit

FastEvent ==
  /\ pc = "evaluate"
  /\ ~SlowOperation
  /\ EventDone
  /\ UNCHANGED <<maps, podsToRecover, sync, api, history>>

SlowEvent ==
  /\ pc = "evaluate"
  /\ SlowOperation
  /\ AppendViolation
  /\ IF OverLimit /\ cur.pod \notin unhealthyPods
     THEN /\ unhealthyPods' = unhealthyPods \cup {cur.pod}
          /\ pc' = "mark"
          /\ UNCHANGED cur
     ELSE EventDone /\ UNCHANGED unhealthyPods
  /\ UNCHANGED <<lastSeenTimes, podConfigs, podsToRecover, sync, api>>

(* markPodStatus: a merge patch of the annotation, addressed by name.  An  *)
(* error is logged and dropped.                                            *)
markPodStatus(p, status) ==
  \/ p \in live /\ health' = [health EXCEPT ![p] = status]
  \/ (ApiMayFail \/ p \notin live) /\ UNCHANGED health

MarkUnhealthy ==
  /\ pc = "mark"
  /\ markPodStatus(cur.pod, "unhealthy")
  /\ EventDone
  /\ UNCHANGED <<maps, podsToRecover, sync, live, annotation, history>>
-----------------------------------------------------------------------------
(* checkRecoveryAndCleanup, on the 2 second ticker *)

WindowOf(p) == InForce(podConfigs[p]).window

(* Mutant: the window is short by one. *)
ValidViolationsOffByOne(p) == {a \in violationTimes[p] : a + 1 < WindowOf(p)}

ValidViolations(p) == {a \in violationTimes[p] : a < WindowOf(p)}

(* Mutant: quiet for one window is enough. *)
RecoveryDueAfterWindow(p) ==
  /\ violationTimes[p] # {} /\ ValidViolations(p) = {}
  /\ p \in unhealthyPods

(* Lines 223-228: an entry that leaves the window is deleted, and only in  *)
(* that moment its pod may be found quiet for long enough.                 *)
RecoveryDue(p) ==
  /\ violationTimes[p] # {} /\ ValidViolations(p) = {}
  /\ p \in unhealthyPods
  /\ \A a \in violationTimes[p] : a > RecoveryMultiplier * WindowOf(p)

(* Mutant: pods with a verdict are not cleaned up. *)
StaleHealthyPod(p) ==
  /\ p \notin unhealthyPods
  /\ lastSeenTimes[p] # Absent
  /\ lastSeenTimes[p] > RecoveryMultiplier * WindowOf(p)

(* Line 242. *)
StalePod(p) ==
  /\ lastSeenTimes[p] # Absent
  /\ lastSeenTimes[p] > RecoveryMultiplier * WindowOf(p)

(* Mutant: the verdict of a stale pod is not deleted. *)
KeepVerdicts == unhealthyPods

(* Line 244. *)
VerdictsOfTrackedPods == {p \in unhealthyPods : ~StalePod(p)}

(* Lines 196-248, one critical section. *)
CheckRecoveryAndCleanup ==
  /\ pc = "select"
  /\ violationTimes' = [p \in Pods |-> ValidViolations(p)]
  /\ lastSeenTimes'  = [p \in Pods |-> IF StalePod(p) THEN Absent ELSE lastSeenTimes[p]]
  /\ podConfigs'     = [p \in Pods |-> IF StalePod(p) THEN NoConfig ELSE podConfigs[p]]
  /\ unhealthyPods'  = VerdictsOfTrackedPods
  /\ podsToRecover'  = {p \in Pods : RecoveryDue(p)}
  /\ pc' = IF podsToRecover' = {} THEN "select" ELSE "recover"
  /\ UNCHANGED <<cur, sync, api, history>>

(* Mutant: the flag of a recovered pod is not deleted. *)
RecoverPodKeepsFlag(p) ==
  /\ pc = "recover"
  /\ p \in podsToRecover
  /\ markPodStatus(p, "healthy")
  /\ podsToRecover' = podsToRecover \ {p}
  /\ pc' = IF podsToRecover' = {} THEN "select" ELSE "recover"
  /\ UNCHANGED <<maps, cur, sync, live, annotation, history>>

(* Lines 250-259.  No other goroutine uses unhealthyPods, so the patch and *)
(* the deletion that follows it are one step.                              *)
RecoverPod(p) ==
  /\ pc = "recover"
  /\ p \in podsToRecover
  /\ markPodStatus(p, "healthy")
  /\ unhealthyPods' = unhealthyPods \ {p}
  /\ podsToRecover' = podsToRecover \ {p}
  /\ pc' = IF podsToRecover' = {} THEN "select" ELSE "recover"
  /\ UNCHANGED <<violationTimes, lastSeenTimes, podConfigs, cur, sync, live, annotation, history>>
-----------------------------------------------------------------------------
(* periodicSync: the listing is read before the mutex is taken.  A failed  *)
(* listing changes nothing.                                                *)
SyncList ==
  /\ ~syncing
  /\ syncing' = TRUE
  /\ listed'  = Listing
  /\ UNCHANGED <<maps, loop, api, history>>

SyncStore ==
  /\ syncing
  /\ podConfigs' = syncNodePods(podConfigs, listed)
  /\ syncing' = FALSE
  /\ listed'  = EmptyListing
  /\ UNCHANGED <<violationTimes, lastSeenTimes, unhealthyPods, loop, api, history>>
-----------------------------------------------------------------------------
(* The world around the evaluator *)

Older(a) == IF a = Absent \/ a = AgeCap THEN a ELSE a + 1

OlderAll(ages) == {Older(a) : a \in ages}

(* The clock advances by one quantum. *)
ClockTick ==
  /\ violationTimes' = [p \in Pods |-> OlderAll(violationTimes[p])]
  /\ history'        = [p \in Pods |-> OlderAll(history[p])]
  /\ lastSeenTimes'  = [p \in Pods |-> Older(lastSeenTimes[p])]
  /\ cur' = IF cur = NoEvent THEN cur ELSE [cur EXCEPT !.now = Older(@)]
  /\ UNCHANGED <<unhealthyPods, podConfigs, pc, podsToRecover, sync, api>>

DeletePod(p) ==
  /\ PodsMayRestart
  /\ p \in live
  /\ live' = live \ {p}
  /\ health'     = [health EXCEPT ![p] = "none"]
  /\ annotation' = [annotation EXCEPT ![p] = NoConfig]
  /\ UNCHANGED <<maps, loop, sync, history>>

CreatePod(p, c) ==
  /\ p \notin live
  /\ live' = live \cup {p}
  /\ annotation' = [annotation EXCEPT ![p] = c]
  /\ UNCHANGED <<maps, loop, sync, health, history>>

(* Somebody edits the annotation of a living pod.  (The edit is refused    *)
(* while the webhook would inject the pod once more: see PodMutator.)      *)
UpdateAnnotation(p, c) ==
  /\ PolicyMayChange
  /\ p \in live
  /\ annotation' = [annotation EXCEPT ![p] = c]
  /\ UNCHANGED <<maps, loop, sync, live, health, history>>

(* The agent loses its maps; the annotations it wrote stay. *)
AgentRestart ==
  /\ AgentMayRestart
  /\ violationTimes' = [p \in Pods |-> {}]
  /\ lastSeenTimes'  = [p \in Pods |-> Absent]
  /\ unhealthyPods'  = {}
  /\ podConfigs'    \in FirstSync(Listing)
  /\ pc' = "select" /\ cur' = NoEvent /\ podsToRecover' = {}
  /\ syncing' = FALSE /\ listed' = EmptyListing
  /\ history'        = [p \in Pods |-> {}]
  /\ UNCHANGED api
-----------------------------------------------------------------------------
Next ==
  \/ \E p \in Pods, d \in Durations : ReceiveEvent(p, d)
  \/ FetchConfig \/ CacheConfig
  \/ FastEvent \/ SlowEvent \/ MarkUnhealthy
  \/ CheckRecoveryAndCleanup
  \/ \E p \in Pods : RecoverPod(p)
  \/ SyncList \/ SyncStore
  \/ ClockTick
  \/ \E p \in Pods : DeletePod(p)
  \/ \E p \in Pods, c \in Configs \cup {NoConfig} : CreatePod(p, c) \/ UpdateAnnotation(p, c)
  \/ AgentRestart

Spec == Init /\ [][Next]_vars

(* Every step of runLoop that does not wait for input is taken, time       *)
(* passes and periodicSync keeps its period.  The ticker of runLoop        *)
(* competes with the event channel in a select, which picks a ready case   *)
(* at random: a case ready again and again is taken, hence SF.             *)
Fairness ==
  /\ WF_vars(FetchConfig) /\ WF_vars(CacheConfig)
  /\ WF_vars(FastEvent) /\ WF_vars(SlowEvent) /\ WF_vars(MarkUnhealthy)
  /\ \A p \in Pods : WF_vars(RecoverPod(p))
  /\ SF_vars(CheckRecoveryAndCleanup)
  /\ WF_vars(SyncList) /\ WF_vars(SyncStore)
  /\ WF_vars(ClockTick)

FairSpec == Spec /\ Fairness
-----------------------------------------------------------------------------
(* Properties *)

(* No orphaned state: whatever the evaluator remembers of a pod's          *)
(* violations and verdict belongs to a pod that lastSeenTimes still        *)
(* tracks.  Only tracked pods are ever cleaned up, and a verdict left      *)
(* behind would keep its pod from being marked again.                      *)
NoOrphanVerdict ==
  \A p \in Pods :
    p \in unhealthyPods \/ violationTimes[p] # {} => lastSeenTimes[p] # Absent

(* The ages in the window of every config that may be in force. *)
Recent(ages) == {a \in ages : \A c \in InForceConfigs : a < c.window}

(* Pruning never loses a violation that still counts: a violation younger  *)
(* than every window in force is still in violationTimes, whatever configs *)
(* were cached, dropped, refetched or overwritten by a late sync.          *)
RecentViolationsKept ==
  \A p \in Pods : Recent(history[p]) \subseteq violationTimes[p]

(* No missed detection: a pod with more recent violations than every limit *)
(* in force is flagged, in whatever order events, ticks and syncs came.    *)
NoMissedDetection ==
  \A p \in Pods :
    (\A c \in InForceConfigs : Cardinality(Recent(history[p])) > c.limit)
      => p \in unhealthyPods

(* evaluator.go:40 "unhealthyPods tracks pods that are currently marked as *)
(* unhealthy": a pod flagged in memory carries the annotation the operator *)
(* acts on, except in the moment between the verdict and its patch.  True  *)
(* as long as requests succeed and pods are not replaced.                  *)
VerdictPublished ==
  \A p \in unhealthyPods :
    health[p] = "unhealthy" \/ (pc = "mark" /\ cur.pod = p)

(* A pod is declared healthy only after RecoveryMultiplier windows (of the *)
(* shortest config that may be in force) without any violation, pruned     *)
(* violations included.                                                    *)
HealthyOnlyAfterQuiet ==
  [][\A p \in Pods :
       health'[p] = "healthy" /\ health[p] # "healthy" =>
         \A a \in history[p] :
           \E c \in InForceConfigs : a > RecoveryMultiplier * c.window]_vars

(* A pod that stays silent is forgotten: its timestamps, its violations    *)
(* and its verdict are dropped and do not wait for a pod of the same name. *)
(* Its config may stay: the sync caches it anew for every listed pod.      *)
SilentPodForgotten ==
  \A p \in Pods :
    lastSeenTimes[p] = AgeCap ~>
      \/ lastSeenTimes[p] = Absent /\ violationTimes[p] = {} /\ p \notin unhealthyPods
      \/ lastSeenTimes[p] # Absent /\ lastSeenTimes[p] < AgeCap

(* The config annotated on a pod reaches the cache, or is replaced first:  *)
(* a listing that was outdated when it was stored is corrected later.      *)
PolicyReachesEvaluator ==
  \A p \in Pods, c \in Configs :
    p \in live /\ annotation[p] = c ~>
      podConfigs[p] = c \/ p \notin live \/ annotation[p] # c

(* evaluator.go:21 "RecoveryMultiplier defines how long to wait after the  *)
(* last violation before marking a pod as healthy again": an unhealthy pod *)
(* whose violations are all older than that is marked healthy, unless it   *)
(* violates again.                                                         *)
QuietPodRecovers ==
  \A p \in Pods :
    health[p] = "unhealthy" /\ history[p] \subseteq {AgeCap} ~>
      health[p] = "healthy" \/ ~(history[p] \subseteq {AgeCap})
=============================================================================
