--------------------------- MODULE EventPipeline ---------------------------
(***************************************************************************)
(* The way of a metric event from ncclAllReduce in a pod to the evaluator  *)
(* of the node's agent: the spy's queue and BackgroundSender               *)
(* (spy/src/spy.cpp), the datagram client (spy/include/uds.h), the         *)
(* collector (agent/collector/collector.go) and the forwarding loop        *)
(* (agent/main.go).                                                        *)
(*                                                                         *)
(* The spy's queue is the bounded FIFO that SpyQueue implements for one    *)
(* calling thread.  An event is known by the pod that recorded it and by   *)
(* the number of the call; both are ghosts.  What the event carries, the   *)
(* name of the pod included, no buffer looks at.                           *)
(***************************************************************************)
EXTENDS Integers, Sequences

CONSTANTS
  Pods,         \* pods of the node that run the spy
  QueueSlots,   \* LockFreeQueue: Capacity - 1, 4095 in the code
  SocketSlots,  \* datagrams the kernel queues for a socket
  ChanSlots,    \* Collector.MetricsChan, 1000 in the code
  EvalSlots,    \* the channel of the evaluator, 1000 in the code
  MaxCalls      \* bound: operations of each pod

ASSUME SlotAssumption ==
  /\ {QueueSlots, SocketSlots, ChanSlots, EvalSlots} \subseteq Nat \ {0}
  /\ MaxCalls \in [Pods -> Nat]

Event == [pod : Pods, number : Nat]

VARIABLES
  spy,          \* BackgroundSender of each pod
  calls,        \* ncclAllReduce calls of each pod
  queue,        \* event_queue of each pod
  fd,           \* UDSClient.fd_ of each pod: closed, or connected to the agent of now or before
  agent,        \* main of the agent: down, in col.Start, in evaluator.Start, in its loop
  evaluating,   \* HealthEvaluator.Start succeeded
  socket,       \* datagrams the kernel holds for the agent
  reader,       \* the event listen is about to put into MetricsChan
  metricsChan,  \* Collector.MetricsChan
  evalChan,     \* HealthEvaluator.metricsChan
  seen          \* ghost: number of the last operation of each pod the evaluator took

channels == <<socket, reader, metricsChan, evalChan>>
vars     == <<spy, calls, queue, fd, agent, evaluating, channels, seen>>

TypeOK ==
  /\ spy   \in [Pods -> {"off", "detect", "loop"}]
  /\ calls \in [Pods -> Nat]
  /\ queue \in [Pods -> Seq(Event)]
  /\ \A p \in Pods : Len(queue[p]) <= QueueSlots
  /\ fd    \in [Pods -> {"closed", "current", "stale"}]
  /\ agent \in {"down", "binding", "starting", "up"}
  /\ evaluating \in BOOLEAN
  /\ socket \in Seq(Event) /\ Len(socket) <= SocketSlots
  /\ reader \in Seq(Event) /\ Len(reader) <= 1
  /\ metricsChan \in Seq(Event) /\ Len(metricsChan) <= ChanSlots
  /\ evalChan \in Seq(Event) /\ Len(evalChan) <= EvalSlots
  /\ seen \in [Pods -> Nat]

Init ==
  /\ spy   = [p \in Pods |-> "off"]
  /\ calls = [p \in Pods |-> 0]
  /\ queue = [p \in Pods |-> <<>>]
  /\ fd    = [p \in Pods |-> "closed"]
  /\ agent = "down" /\ evaluating = FALSE
  /\ socket = <<>> /\ reader = <<>> /\ metricsChan = <<>> /\ evalChan = <<>>
  /\ seen  = [p \in Pods |-> 0]
-----------------------------------------------------------------------------
(* The spy *)

(* InitSpy, also of the process after a restart of the container. *)
InitSpy(p) ==
  /\ spy[p] = "off"
  /\ spy' = [spy EXCEPT ![p] = "detect"]
  /\ UNCHANGED <<calls, queue, fd, agent, evaluating, channels, seen>>

(* DetectGPUModel and DetectPodInfo, before the loop of BackgroundSender:  *)
(* calls are recorded beside them, but nothing is sent.                    *)
DetectPodInfo(p) ==
  /\ spy[p] = "detect"
  /\ spy' = [spy EXCEPT ![p] = "loop"]
  /\ UNCHANGED <<calls, queue, fd, agent, evaluating, channels, seen>>

(* The result of Push is ignored: on a full queue the event is dropped. *)
ncclAllReduce(p) ==
  /\ spy[p] # "off"
  /\ calls[p] < MaxCalls[p]
  /\ calls' = [calls EXCEPT ![p] = @ + 1]
  /\ queue' = IF Len(queue[p]) < QueueSlots
              THEN [queue EXCEPT ![p] = Append(@, [pod |-> p, number |-> calls[p] + 1])]
              ELSE queue
  /\ UNCHANGED <<spy, fd, agent, evaluating, channels, seen>>

(* The socket of the agent is open to every pod: Chmod is done. *)
Open == agent \in {"starting", "up"}

(* Mutant: without Chmod the socket stays open to root only. *)
ConnectNeedsRoot(p) ==
  IF fd[p] # "closed" THEN {fd[p]}
  ELSE {f \in {"current"} : agent # "down"} \cup {"closed"}

(* What fd_ may be after Connect.  Between bind and chmod the socket is    *)
(* open only to pods that run as root.                                     *)
Connect(p) ==
  IF fd[p] # "closed" THEN {fd[p]}
  ELSE {f \in {"current"} : agent # "down"} \cup {f \in {"closed"} : ~Open}

(* Mutant: an event is tried again unless it was lost. *)
SendEventRetries(p) ==
  /\ spy[p] = "loop"
  /\ queue[p] # <<>>
  /\ \E f \in Connect(p) :
       LET sent == f = "current" /\ Len(socket) < SocketSlots
       IN  /\ fd' = [fd EXCEPT ![p] = f]
           /\ socket' = IF sent THEN Append(socket, Head(queue[p])) ELSE socket
           /\ queue' = IF sent THEN queue ELSE [queue EXCEPT ![p] = Tail(@)]
  /\ UNCHANGED <<spy, calls, agent, evaluating, reader, metricsChan, evalChan, seen>>

(* Pop and Send: the event is gone whether it was sent or not, and fd_     *)
(* stays what it is when the send fails.                                   *)
SendEvent(p) ==
  /\ spy[p] = "loop"
  /\ queue[p] # <<>>
  /\ queue' = [queue EXCEPT ![p] = Tail(@)]
  /\ \E f \in Connect(p) :
       /\ fd' = [fd EXCEPT ![p] = f]
       /\ socket' = IF f = "current" /\ Len(socket) < SocketSlots
                    THEN Append(socket, Head(queue[p]))
                    ELSE socket
  /\ UNCHANGED <<spy, calls, agent, evaluating, reader, metricsChan, evalChan, seen>>

(* DeinitSpy, or the process is killed: what is queued is lost. *)
DeinitSpy(p) ==
  /\ spy[p] # "off"
  /\ spy'   = [spy EXCEPT ![p] = "off"]
  /\ queue' = [queue EXCEPT ![p] = <<>>]
  /\ fd'    = [fd EXCEPT ![p] = "closed"]
  /\ UNCHANGED <<calls, agent, evaluating, channels, seen>>
-----------------------------------------------------------------------------
(* The agent *)

(* Collector.Start up to ListenUnixgram: the old path is removed first. *)
Listen ==
  /\ agent = "down"
  /\ agent' = "binding"
  /\ UNCHANGED <<spy, calls, queue, fd, evaluating, channels, seen>>

(* The rest of Collector.Start: Chmod and the goroutine of listen. *)
Serve ==
  /\ agent = "binding"
  /\ agent' = "starting"
  /\ UNCHANGED <<spy, calls, queue, fd, evaluating, channels, seen>>

(* evaluator.Start returns, and main enters its loop, with or without an   *)
(* evaluator.  Start waits for a list request that has no timeout.         *)
StartEvaluator ==
  /\ agent = "starting"
  /\ agent' = "up"
  /\ evaluating' \in BOOLEAN
  /\ UNCHANGED <<spy, calls, queue, fd, channels, seen>>

(* The process ends: a crash, a rollout or log.Fatalf.  Sockets of the     *)
(* pods stay connected to a socket that is no more.                        *)
Die ==
  /\ agent' = "down" /\ evaluating' = FALSE
  /\ fd' = [p \in Pods |-> IF fd[p] = "current" THEN "stale" ELSE fd[p]]
  /\ socket' = <<>> /\ reader' = <<>> /\ metricsChan' = <<>> /\ evalChan' = <<>>
  /\ UNCHANGED <<spy, calls, queue, seen>>

AgentDies == agent # "down" /\ Die

(* listen: Read, which does not wait for the main loop. *)
Read ==
  /\ Open
  /\ reader = <<>> /\ socket # <<>>
  /\ reader' = <<Head(socket)>>
  /\ socket' = Tail(socket)
  /\ UNCHANGED <<spy, calls, queue, fd, agent, evaluating, metricsChan, evalChan, seen>>

(* Mutant: MetricsChan grows without a bound. *)
PublishUnbounded ==
  /\ Open
  /\ reader # <<>>
  /\ metricsChan' = Append(metricsChan, Head(reader))
  /\ reader' = Tail(reader)
  /\ UNCHANGED <<spy, calls, queue, fd, agent, evaluating, socket, evalChan, seen>>

(* Mutant: listen drops the event when MetricsChan is full. *)
PublishDrops ==
  /\ Open
  /\ reader # <<>>
  /\ metricsChan' = IF Len(metricsChan) < ChanSlots THEN Append(metricsChan, Head(reader)) ELSE metricsChan
  /\ reader' = Tail(reader)
  /\ UNCHANGED <<spy, calls, queue, fd, agent, evaluating, socket, evalChan, seen>>

(* listen: the send, which waits for room. *)
Publish ==
  /\ Open
  /\ reader # <<>> /\ Len(metricsChan) < ChanSlots
  /\ metricsChan' = Append(metricsChan, Head(reader))
  /\ reader' = Tail(reader)
  /\ UNCHANGED <<spy, calls, queue, fd, agent, evaluating, socket, evalChan, seen>>

(* Record of the exporter panics on a GPU model that is not UTF-8: byte 31 *)
(* of the model is never written by ncclAllReduce.                         *)
RecordPanics == agent = "up" /\ metricsChan # <<>> /\ Die

(* Mutant: the main loop waits for room in the channel of the evaluator. *)
ForwardWaits ==
  /\ agent = "up"
  /\ metricsChan # <<>> /\ Len(evalChan) < EvalSlots
  /\ metricsChan' = Tail(metricsChan)
  /\ evalChan' = Append(evalChan, Head(metricsChan))
  /\ UNCHANGED <<spy, calls, queue, fd, agent, evaluating, socket, reader, seen>>

(* The main loop: Record, then the evaluator if its channel has room. *)
Forward ==
  /\ agent = "up"
  /\ metricsChan # <<>>
  /\ metricsChan' = Tail(metricsChan)
  /\ evalChan' = IF Len(evalChan) < EvalSlots THEN Append(evalChan, Head(metricsChan)) ELSE evalChan
  /\ UNCHANGED <<spy, calls, queue, fd, agent, evaluating, socket, reader, seen>>

(* runLoop of the evaluator takes an event: see HealthEvaluator. *)
Evaluate ==
  /\ agent = "up" /\ evaluating
  /\ evalChan # <<>>
  /\ evalChan' = Tail(evalChan)
  /\ seen' = [seen EXCEPT ![Head(evalChan).pod] = Head(evalChan).number]
  /\ UNCHANGED <<spy, calls, queue, fd, agent, evaluating, socket, reader, metricsChan>>
-----------------------------------------------------------------------------
Next ==
  \/ \E p \in Pods : InitSpy(p) \/ DetectPodInfo(p) \/ ncclAllReduce(p) \/ SendEvent(p) \/ DeinitSpy(p)
  \/ Listen \/ Serve \/ StartEvaluator \/ AgentDies
  \/ Read \/ Publish \/ RecordPanics \/ Forward \/ Evaluate

Spec == Init /\ [][Next]_vars

(* Running threads run on.  Nothing is assumed of the training jobs, of    *)
(* what ends a process, nor of what waits for the API server without a     *)
(* timeout: main before Listen, StartEvaluator and Evaluate.               *)
FairSpec ==
  /\ Spec
  /\ \A p \in Pods : WF_vars(DetectPodInfo(p)) /\ WF_vars(SendEvent(p))
  /\ WF_vars(Serve) /\ WF_vars(Read) /\ WF_vars(Publish) /\ WF_vars(Forward)
-----------------------------------------------------------------------------
(* Properties *)

Elements(s) == {s[i] : i \in DOMAIN s}

Events(p) ==
  {e \in Elements(queue[p]) \cup Elements(socket) \cup Elements(reader)
         \cup Elements(metricsChan) \cup Elements(evalChan) : e.pod = p}

InFlight == [p \in Pods |-> {e.number : e \in Events(p)}]

Stream == INSTANCE LossyStream WITH sent <- calls, inFlight <- InFlight, last <- seen

(* The whole way, through five buffers, dead and new agents and restarted  *)
(* processes, is a lossy stream: what the evaluator takes of a pod it      *)
(* takes once and in the order of the calls.                               *)
ImplementsStream == Stream!StreamSpec

Lost(p) == {e \in Events(p) : e \notin Events(p)' /\ seen'[p] # e.number}

(* Between a pod that is connected and an agent that lives events are lost *)
(* only where a buffer is full: behind a lost event there is always a full *)
(* buffer, the end of a process or a socket without an agent.              *)
LossHasCause ==
  [][\A p \in Pods : Lost(p) # {} =>
       \/ spy'[p] = "off"
       \/ agent' = "down"
       \/ fd'[p] # "current"
       \/ Len(socket) = SocketSlots
       \/ Len(evalChan) = EvalSlots]_vars

(* A spy that was started before the agent, or between two of them, is not *)
(* lost: while it has events to send to an agent that lives, it connects.  *)
NewcomerConnects ==
  \A p \in Pods :
    spy[p] = "loop" /\ fd[p] = "closed" /\ queue[p] # <<>> /\ Open ~>
      fd[p] = "current" \/ spy[p] # "loop" \/ ~Open

Accepted(p, n) ==
  \E e \in Elements(socket) \cup Elements(reader) \cup Elements(metricsChan) : e.pod = p /\ e.number = n

(* An event the collector has accepted leaves it again: it gets through    *)
(* the main loop, or its process ends.  listen accepts events while main   *)
(* is still in evaluator.Start, and they wait there as long as the API     *)
(* server does not answer; nothing else holds them for ever, neither an    *)
(* evaluator that did not start nor one that is stuck later on.            *)
AgentDrains ==
  \A p \in Pods : \A n \in 1 .. MaxCalls[p] :
    <>[](agent = "starting") \/ (Accepted(p, n) ~> ~Accepted(p, n))

(* docs "the stream of metrics is pushed through the UDS to the agent of   *)
(* the node": a spy with events to send is, or gets, connected to the      *)
(* agent that lives.                                                       *)
TrafficResumes ==
  \A p \in Pods :
    spy[p] = "loop" /\ queue[p] # <<>> /\ Open ~>
      fd[p] = "current" \/ spy[p] # "loop" \/ ~Open
=============================================================================
