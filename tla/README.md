# Compute-Sentry: TLA+ models, checks and proofs

Compute-Sentry watches GPU training pods. A preloaded library times NCCL
calls, a node agent judges pods by a sliding window, and an operator taints
nodes and evicts pods. This directory holds TLA+ models of its core, the TLC
configurations that check them, and TLAPS proofs about them. `PROJECT.json`
lists components, runs, mutants, the map from definitions to source lines,
findings, hazards and theorems.

Run a check with `tlc -config EvaluatorSafety.cfg MCHealthEvaluator`, a proof
with `tlapm HealthEvaluatorProofs.tla`.

## The system

| Component | State | Operations | Hard part |
|---|---|---|---|
| Spy (`spy/src/spy.cpp`, `queue.h`, `uds.h`) | ring of 4096 events, cached pod name, socket | `ncclAllReduce` pushes, `BackgroundSender` pops and sends | threads without locks, full ring, agent restarts |
| Agent main and collector (`agent/main.go`, `agent/collector/collector.go`) | the library and the script on the host, the socket, two channels of 1000 events | `distributeFile`, `listen`, the forwarding loop | files replaced while in use, drops and blocking, restarts |
| Health evaluator (`agent/collector/evaluator.go`) | `violationTimes`, `lastSeenTimes`, `unhealthyPods`, `podConfigs` | `processEvent`, `checkRecoveryAndCleanup`, `periodicSync` | time, two goroutines, requests outside the mutex, failed patches, state by pod name |
| Pod webhook (`operator/internal/webhook/v1/pod_mutator.go`) | none of its own; policies in a cache | `Handle` on CREATE and UPDATE | idempotence, policies that change |
| Health controller (`operator/internal/controller/health_controller.go`) | informer caches, workqueue | `Reconcile` | late caches, retries, throttling, whole-list patches |
| Pre-check (`scripts/precheck.sh`) | none | one decision | defaults, skipped tests, a script that is being replaced |
| Policy API, policy controller, exporter, wiring | - | scaffolding, metrics, set-up | - |

They interact as follows. The agent copies the library and the script to the
host. The webhook writes `LD_PRELOAD`, volumes, a
pre-check and the annotation `governance-config` into a pod. The spy in the pod
sends events to the agent over a datagram socket. The evaluator reads
`governance-config`, and writes the annotation `health`. The controller watches
pods, and turns `health` into taints and evictions. Every annotation write
passes the webhook again.

What makes each part correct: events arrive once and in order, and get
lost only where the design says so; no pod starts unmeasured or unobserved; a pod with too many slow operations is flagged and annotated, and
recovers after the quiet period; injection happens once; a node is tainted
exactly while its pods meet a threshold; evictions are throttled yet happen.

## Modules

| Module | Models | Role |
|---|---|---|
| `HealthEvaluator`, `MCHealthEvaluator`, `HealthEvaluatorProofs`, `DetectionProofs` | `evaluator.go` | component, instances, proofs |
| `SpyQueue`, `SpyQueueProofs` | `queue.h` with its callers in `spy.cpp` | component (run directly), proofs |
| `BoundedFifo` | - | what the queue promises, refined by `SpyQueue` |
| `EventPipeline`, `MCEventPipeline`, `EventPipelineProofs` | `spy.cpp`, `uds.h`, `collector.go`, the loop of `agent/main.go` | composition of spy and agent, instance, proofs |
| `LossyStream` | - | what the way of the events promises, refined by `EventPipeline` |
| `NodeBootstrap`, `MCNodeBootstrap`, `NodeBootstrapProofs` | start-up of `agent/main.go`, `precheck.sh`, the init container of `pod_mutator.go` | composition, instance, proofs |
| `HealthController`, `MCHealthController`, `HealthControllerProofs`, `EvictionProofs` | `health_controller.go` | component, instances, proofs |
| `EvictionBudget` | - | what the controller promises the owners of pods, refined by `HealthController` |
| `PodMutator`, `MCPodMutator`, `PodMutatorProofs` | `pod_mutator.go` and its registration | component, instance, proofs |

**HealthEvaluator.** The four maps of the struct are variables; `pc` and `cur`
are the position and locals of `runLoop`, so that a request to the API server,
which is made without the mutex, is a step of its own (`FetchConfig`,
`MarkUnhealthy`, `RecoverPod`). `periodicSync` is `SyncList` and `SyncStore`,
since the listing is read before the mutex is taken. Critical sections are one
step. A timestamp is its age, which saturates at `AgeCap`; `ClockTick` makes
everything older, so behaviours are unbounded without a bound on time. A slice
of timestamps is a set of ages: the timestamps of a pod are distinct. `history`
is a ghost, the violations as if they were never pruned. Four switches turn
faults on: failing requests, re-created pods, edited annotations, agent
restarts.

**SpyQueue.** One step per access of shared memory. Slots are plain memory: a
slot written while another thread accesses it holds `Garbage` or the value. The
code runs `Push` in every thread that calls `ncclAllReduce`, hence `Producers`.

**EventPipeline.** One step per hop of an event: the spy's queue (as the FIFO
that `SpyQueue` implements for one calling thread), the kernel's buffer of the
socket, the event in the hand of `listen`, `MetricsChan`, the evaluator's
channel. `fd` says what the socket of a pod is connected to: nothing, the agent
that lives, or one that died, whose address nobody serves any more. `main` of
the agent is in `col.Start` (`binding`), then in `evaluator.Start` (`starting`:
a blocking listing without a timeout, while `listen` takes events already and
nobody empties `MetricsChan`), then in its loop (`up`). What an event carries,
the pod's name included, no buffer looks at, so it is left out; the pod and the
number of the operation are ghosts. `RecordPanics` is the panic of
`WithLabelValues` on a GPU model that is not UTF-8: `strncpy(..., 31)` leaves
the last byte of the model unwritten.

**NodeBootstrap.** `main` copies the library, then the script, each by
create/truncate, copy and chmod, and may die after any step. The init container
runs whatever is at the path of the script: a file without the executable bit
is refused, one that is open for writing may be refused or may be read as far as
it is written (the script is shorter than the block a shell reads at once). The
decision of `precheck.sh` is an operator on what its tools measure; `evidence`
is a ghost, the measurement behind a pass, and `rewritten` another: the files
that were truncated when pods could pass already. `PrecheckSound` compares the
measurement with the policy's limits themselves, not with the script's reading
of them. It cannot promise a P2P figure, because the script does without one.

**HealthController.** A watch delivers changes in order, so a cache is a past
state of the server: `podViews` and `nodeViews` are the states from the cache
(first) to the server (last). `worker` is the one reconcile under way, a step
per read or write. The policies and which pods they match are constants; with
several matches any one may be first. `everMet` is a ghost.

**PodMutator.** A write goes through `Handle` and then the API server's
validation (external, from Kubernetes): no repeated volumes or mounts, no change of
the spec by an update. `answer` is a ghost, the outcome of the last write.

Three abstract specifications say what a part promises. `BoundedFifo` is the
queue; `ImplementsFifo` is the refinement, with the occupied slots, oldest
first, as its `fifo`. `LossyStream` is the way of the events
(`ImplementsStream`). `EvictionBudget` is a controller without cache, queue and
worker, which marks, evicts within the budget and loses pods in single steps;
`ImplementsBudget` is the refinement, with the phase of each pod on the API
server as its `phase`.

## What the runs show

| Run | Properties | Result |
|---|---|---|
| `evaluator_safety` | `TypeOK`, `NoOrphanVerdict`, `RecentViolationsKept`, `NoMissedDetection`, `HealthyOnlyAfterQuiet` | hold with failing requests, re-created pods and agent restarts |
| `evaluator_reliable` | `VerdictPublished`, `SilentPodForgotten`, `PolicyReachesEvaluator` | hold when requests succeed and pods are not replaced |
| `spy_queue` | `TypeOK`, `NoDataRace`, `ImplementsFifo`, `FullQueueDrains` | hold with one producer |
| `controller_safety` | `TypeOK`, `TaintOnlyIfOnceMet`, `NoEvictionForgotten`, `HealthyEvictedOnlyUnseen` | hold with every fault |
| `controller_liveness` | `EvictionThrottled`, `ImplementsBudget`, `UnhealthyNodeTainted`, `LoneUnhealthyPodEvicted` | hold through failing requests, while verdicts are not lifted and pods do not return |
| `mutator_safety` | `TypeOK`, `InjectedOnce`, `PrecheckMatchesGovernance` | hold |
| `pipeline` | `TypeOK`, `ImplementsStream`, `LossHasCause`, `NewcomerConnects`, `AgentDrains` | hold with dying agents and processes and every buffer full; `AgentDrains` unless `evaluator.Start` never returns |
| `bootstrap` | `TypeOK`, `PrecheckSound`, `SpyAlwaysLoaded`, `ServingNodeRepaired`, `PodStarts` | hold, `PrecheckSound` and `SpyAlwaysLoaded` until a file in use is written again |

Four runs refute what a comment or a document says; each is a finding:

| Run | The code |
|---|---|
| `evaluator_quiet_recovery` | looks for recovery only when the violation list empties, one window after the last violation, and wants three: a pod that then stays quiet is never declared healthy |
| `controller_untaint` | computes the untaint patch the wrong way round: taints are never removed. The property leaves out pods that are removed and decisions on a late cache of the nodes, which keep a taint too; with the patch the right way round it holds |
| `mutator_verdict_patch` | injects again on UPDATE, so the API server refuses the agent's verdict on injected pods |
| `pipeline_restart` | never closes a socket whose send failed: a spy connected to an agent that died is silent until its process ends |

More disagreements are behaviours of the models, without a run of their own.
They are why the switches of some passing runs are off, and where the premises
of some properties come from:

- `queue.h:18`: with two producers an event whose `Push` returned true is lost,
  against "捕获每一个 NCCL 通信算子" (every NCCL operation is captured,
  `docs/Compute-Sentry开发路线与业务逻辑.md:16`). `SpyQueue` with two
  `Producers` shows it.
- `health_controller.go:151`: two unhealthy pods of a set of less than forty
  throttle each other for ever, while `docs/K8S_TEST_PLAN.md:261` has them
  evicted once the throttle opens. `LoneUnhealthyPodEvicted` is what remains.
- `health_controller.go:217` evicts by name without a UID: a healthy successor,
  or a pod whose verdict was lifted meanwhile, is evicted in place of "the
  specific unhealthy pod" of line 108 (`PodsMayReturn`, `VerdictMayLift`).
  `HealthyEvictedOnlyUnseen` is what remains: it happens only while the
  controller has that change still to reconcile.
- `health_controller.go:51` returns for a pod that is gone without a look at its
  node, and `health_controller.go:320` may read a node from a cache that has not
  its taint yet: in both cases a taint stays that nothing brings up again.
- `health_controller.go:149` counts verdicts, not evictions, and under one of
  the policies of a pod only: once a verdict is lifted, or an evicted pod has
  returned, or where policies overlap, evictions overlap (`VerdictMayLift`,
  `PodsMayReturn`).
- `health_controller.go:200` writes back a list of taints from a late cache and
  undoes a taint set by someone else meanwhile (`OthersMayTaint`).
- `health_controller.go:75` ignores `enableEvict` without `enableTaint`.
- `evaluator.go:279` drops a failed patch, and the flag set before it prevents
  another one: the verdict never reaches the API server (`ApiMayFail`).
- `evaluator.go:175` keeps the flag by name: a re-created pod is not annotated
  (`PodsMayRestart`).
- `agent/main.go:146` truncates the script that pods may be running. What is
  left of it, nothing at first, ends with 0 and lets the pod through
  unmeasured; if the agent dies there, that lasts until the next one. Against
  "只有通过 HBM/P2P 指标校验的节点才被允许进入 Running 状态"
  (`docs/Compute-Sentry项目方案.md:28`). The library is truncated under running
  processes in the same way (`ContainerExits`).
- `precheck.sh:56-76` lets a pod through without a P2P figure if the tool is
  missing, if there are fewer than two GPUs, or if the test gave none (it then
  estimates one), against the same line of the document. Moreover
  `pod_mutator.go:179` limits the init container to one GPU, so that
  `precheck.sh:63` always skips the check; the model leaves the number of GPUs
  open.
- `agent/main.go:77` waits for `evaluator.Start`, whose listing has no timeout,
  before the loop: while it hangs, events are accepted and reach neither metrics
  nor evaluator. `agent/main.go:44` waits in the same way before any file is
  copied.
- `precheck.sh:39` compares the second figure with the first one as texts (awk
  takes the stored figure for a string), so either direction may be the one
  that is judged.

Names of pods in events are not modelled. Two things can be wrong with them:
`spy.cpp:127` reads the cached name while `DetectPodInfo` may be writing it, so
that early events have the name `unknown` or a torn one; and names are cut at 63
characters (`spy.cpp:30`), of which pods may have 253, so that pods with the
same beginning are taken for one.

### Bounds

- `EvaluatorSafety`: one pod (pods share nothing but the loop), windows of 2
  and 3 quanta, limits 1 and 0, `AgeCap` 10, one more than three times the
  longest window: every cutoff of the code separates ages. Two slow operations
  in the shorter window, pruning under one config and counting under the other,
  and recovery all happen. The config of a pod name changes when the pod is
  re-created; edits in place belong to `EvaluatorReliable`, which has two
  policies, so that one can replace the other. It and `EvaluatorQuietRecovery`
  use windows of 1 (`AgeCap` 4).
- `SpyQueue`: capacity 4, the smallest with more than two items under way and
  a wrap-around; two items tell orders apart.
- `Pipeline*`: two pods, one of which makes three calls, a queue of two slots
  and other buffers of one: every buffer gets full, events of a pod are on their
  way in different buffers and behind each other in one, and agents and
  processes die between any two steps, any number of times.
- `Bootstrap`: two pods, one of which is not restarted, with measurements for
  every branch of the script, at and around its thresholds, the default one of
  P2P included; no bound on starts.
- `Controller*`: two pods, enough for one to throttle the other; one node
  (reconciles of different nodes share only the worker). `MaxLag` is how many
  changes a cache may be behind before the cluster waits for it; the
  controller's own writes come on top. `ControllerSafety` has a pod with two
  matching policies, of which one taints at a percentage and evicts, and a pod
  with none.
- `MutatorSafety`: two pods, two containers (one with its own `LD_PRELOAD`), two
  labels, three overlapping policies.

`CHECK_DEADLOCK FALSE` is given for the controller only where no fault keeps
the cluster moving: when all pods are gone, nothing is left to do.

### Fairness

- Evaluator: the steps of `runLoop` that wait for nothing are weakly fair, as
  are the clock and the sync ticker. The recovery tick competes with events in a
  `select`, which picks a ready case at random: strong fairness.
- Queue: `BackgroundSender` calls `Pop` in a loop.
- Pipeline: the sender thread, `listen` and the main loop go on, and so does
  `col.Start` once the socket is bound (weak). Nothing is assumed of the jobs,
  of crashes, of the start of an agent, of `evaluator.Start` or of the
  evaluator: the last three may wait for the API server for ever.
- Bootstrap: the kubelet runs init containers and containers (weak). Nothing is
  assumed of the agent; `PodStarts` has the premise that at last one stays.
- Controller: the worker goes on, watches deliver, timers expire (weak). The
  workqueue is first in first out and retried requests succeed at last (strong).
  Nothing is assumed of users, agents or the scheduler.

## What is proved

For every value of the constants (under their assumptions):

- `HealthEvaluatorProofs`: `TypeOK`, `NoOrphanVerdict`, `RecentViolationsKept`,
  `NoMissedDetection`, `HealthyOnlyAfterQuiet`, and `VerdictPublished` if
  requests succeed and pods are not replaced. The inductive invariant `IInv`
  adds to the types: kept violations are part of the history; the event in hand
  is younger than every violation of its pod; pods about to be recovered have
  been quiet for the whole period. The second is what lets an event be appended,
  and the third carries the tick's observation to the patch that follows later.
- `DetectionProofs`: detection is exact where nothing is late. The properties
  above speak of all windows in force, because a pod may be judged by a config
  that is not its own any more. If requests succeed, and pods and policies stay,
  then a pod with more violations in the window of its own policy than that
  policy tolerates is flagged (`DetectsByOwnPolicy`), and no pod is flagged for
  anything else (`FlagsByOwnPolicy`, an action property), for any number of pods
  with any mix of policies and any number of agent restarts. The invariant
  `ExactInv` follows the pod's own config through the cache, the listing of the
  sync and the event in hand (`OwnConfigs`), and says that pruning and recovery
  spare what that config counts (`OwnWindows`). No run has these switches;
  `OwnConfigs` and `OwnWindows` were checked on the instance of
  `EvaluatorSafety` with the three faults off.
- `SpyQueueProofs` (any capacity, any number of producers): `TypeOK` without a
  condition, so that no index leaves the ring even where `Push` races;
  `NoDataRace` and the refinement `ImplementsFifo` as long as no two threads are
  in `Push` at once (`OneAtATime`), of which the run's one producer is a special
  case. The invariant `QInv` says that the local copies of `tail` and `head` are
  current, that a slot being written is outside the occupied range, and one
  being read inside.
- `HealthControllerProofs`: `TypeOK`, `TaintOnlyIfOnceMet`,
  `NoEvictionForgotten` and `HealthyEvictedOnlyUnseen`, for any lag, any policies
  and every fault. None of the last three is inductive alone. A cause that is gone on the server lives on in
  late views of the pods (`ViewsMet`), in late views of the taints, which patches
  write back (`TaintsMet`), and in a worker on its way to `taintNode`
  (`WorkerMet`). That no eviction is forgotten needs
  (`DueInv`) that a marked pod is bound, so that `Reconcile` does not return at
  once (`MarkedBound`), and that the reconcile under way knows its pod as the
  cache does, or the pod is queued once more (`WorkerFresh`): so a reconcile that
  ends without eviction or requeue saw a pod that was not due, or one whose
  change is still to be delivered. A worker about to evict has read an unhealthy
  pod (`WorkerFresh` too); if the pod on the server is not, the change is behind
  the cache or queued, which is `HealthyEvictedOnlyUnseen`.
- `EvictionProofs`: `EvictionThrottled` and the refinement `ImplementsBudget`,
  for any lag and number of pods and policies, if no verdict is lifted, no pod
  returns and no pod is matched by two policies. The invariant says that from the cache to the server pods only
  get worse (`ViewsWorsen`), hence that a pod being evicted, or about to be, is
  unhealthy or gone in every view (`EvictedBad`, `WorkerBad`): the throttle
  counted it. So the eviction of a reconcile that got past the throttle, added
  to those under way, is still within 5% of the policy's pods, or the only one
  (`WorkerWithin`), whatever happens before it is sent. The refinement maps
  `EvictPod` to `Evict` or a stutter and needs the same invariant for `Evict`'s
  guards, which are about the true state of the pods, not the cache.
- `EventPipelineProofs`: `TypeOK`, the refinement `ImplementsStream` and
  `LossHasCause`, for any pods and sizes. The
  invariant says that the buffers, put one after the other from the evaluator
  back to the spy, hold the numbers of each pod in ascending order, above the
  last one seen and not above the calls made, and that an event in the queue of
  a pod is its own.
- `NodeBootstrapProofs`: `TypeOK`, `PrecheckSound`, `SpyAlwaysLoaded`,
  `ServingNodeRepaired`, for any pods, policies and measurements. The invariant
  says which state of the files goes with every place of `main`: an executable
  script is whole until it is written again, the library is whole wherever the
  script is executable, and what `main` has passed it has left whole
  (`Repaired`), whatever the agent before it left.
- `PodMutatorProofs`: `TypeOK`, `InjectedOnce`, `PrecheckMatchesGovernance`. The
  invariant holds of single pods (`PodOK`); its core is that a second injection
  repeats a volume and is refused.

Every invariant, action property and refinement of the passing runs is proved.
Only model-checked are the liveness properties (fairness and `ENABLED` are out
of the prover's reach): `SilentPodForgotten`, `PolicyReachesEvaluator`,
`FullQueueDrains`, `UnhealthyNodeTainted`, `LoneUnhealthyPodEvicted`,
`NewcomerConnects`, `AgentDrains`, `PodStarts`; and the four violations.
`NoEvictionForgotten` is the safety half of `LoneUnhealthyPodEvicted`: it says
that the request is somewhere, fairness that it gets its turn.

## Not modelled

- The counters of the exporter (of a library; only the panic of `Record` is
  modelled) and the topology labels, which go into metrics only.
- The policy controller and the policy webhooks: scaffolding without effect.
- Generated deep copies, flags and set-up of the two programs, examples, mocks.
- Floating-point rounding of the percentage in `evaluateNodeTaintDecision`: the
  model compares exactly. Events that `processEvent` drops at once. Pods and
  nodes of other namespaces or kinds. The content of events. Datagrams of a wrong size
  (`collector.go:79`): a spy sends whole events.
- Several threads of one pod in `EventPipeline`, which would lose events in the
  queue as `SpyQueue` shows.
- A composition of evaluator, webhook and controller. Its link, the annotation
  patch, is refused for every injected pod (`mutator_verdict_patch`), so that
  nothing would follow but what the parts show.

Assumed of the surroundings: a watch delivers changes in order; the API server
refuses a change of a pod's spec and repeated volumes; a datagram to a socket
whose owner died fails; the linker ignores a preload it cannot load; a shell
takes an empty file for a script that succeeds.

## Plan

Done: every component that keeps state, each with proofs, the compositions
`EventPipeline` and `NodeBootstrap`, three refinements, and a theorem for every
safety property of the passing runs. Left:

1. A safety half of `UnhealthyNodeTainted`, as `NoEvictionForgotten` is for the
   eviction. It needs a condition: the reconcile of a deleted pod does not look
   at its node, although the deletion may make a percentage true, and a pod that
   is marked is judged by its own policy only.
2. `podConfigs` of pods that never send an event, which nothing removes, and a
   window of 0, which counts nothing, in `HealthEvaluator`.
3. The rounding of the percentage.
