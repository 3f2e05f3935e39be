------------------------ MODULE EventPipelineProofs ------------------------
(***************************************************************************)
(* For any pods and buffer sizes: EventPipeline keeps to its types,        *)
(* implements LossyStream and loses nothing without a cause.  The          *)
(* inductive invariant orders the buffers: of each pod, what is further    *)
(* down the way was called before what is further up.                      *)
(***************************************************************************)
EXTENDS EventPipeline, TLAPS

Before(S, T) == \A d \in S, e \in T : d.pod = e.pod => d.number < e.number

Sorted(s) == \A i, j \in DOMAIN s : i < j /\ s[i].pod = s[j].pod => s[i].number < s[j].number

Queued == UNION {Elements(queue[p]) : p \in Pods}

Everything ==
  Elements(evalChan) \cup Elements(metricsChan) \cup Elements(reader) \cup Elements(socket) \cup Queued

Room(s, slots) == s \in Seq(Event) /\ Len(s) <= slots

(* Every buffer is in the order of the calls. *)
BuffersSorted ==
  /\ Sorted(evalChan) /\ Sorted(metricsChan) /\ Sorted(reader) /\ Sorted(socket)
  /\ \A p \in Pods : Sorted(queue[p])

(* And so are the buffers among each other. *)
WaySorted ==
  /\ Before(Elements(evalChan), Elements(metricsChan) \cup Elements(reader) \cup Elements(socket) \cup Queued)
  /\ Before(Elements(metricsChan), Elements(reader) \cup Elements(socket) \cup Queued)
  /\ Before(Elements(reader), Elements(socket) \cup Queued)
  /\ Before(Elements(socket), Queued)

(* An event is still to be evaluated, and was called. *)
Pending == \A e \in Everything : seen[e.pod] < e.number /\ e.number <= calls[e.pod]

SeenCalled == \A p \in Pods : seen[p] <= calls[p]

OwnQueue == \A p \in Pods : \A e \in Elements(queue[p]) : e.pod = p

Inv == TypeOK /\ BuffersSorted /\ WaySorted /\ Pending /\ SeenCalled /\ OwnQueue
-----------------------------------------------------------------------------
(* Append and Tail *)

LEMMA AppendElements ==
  ASSUME NEW s \in Seq(Event), NEW e \in Event
  PROVE  Append(s, e) \in Seq(Event) /\ Elements(Append(s, e)) = Elements(s) \cup {e}
<1>1. Append(s, e) \in Seq(Event) /\ Len(Append(s, e)) = Len(s) + 1
  OBVIOUS
<1>2. DOMAIN Append(s, e) = 1 .. Len(s) + 1 /\ DOMAIN s = 1 .. Len(s) /\ Len(s) \in Nat
  BY <1>1
<1>3. \A i \in 1 .. Len(s) : Append(s, e)[i] = s[i]
  OBVIOUS
<1>4. Append(s, e)[Len(s) + 1] = e
  OBVIOUS
<1>5. Elements(Append(s, e)) \subseteq Elements(s) \cup {e}
  BY <1>2, <1>3, <1>4 DEF Elements
<1>6. Elements(s) \cup {e} \subseteq Elements(Append(s, e))
  BY <1>2, <1>3, <1>4 DEF Elements
<1> QED
  BY <1>1, <1>5, <1>6

LEMMA TailElements ==
  ASSUME NEW s \in Seq(Event), s # <<>>
  PROVE  /\ Tail(s) \in Seq(Event) /\ Head(s) \in Event
         /\ Len(Tail(s)) = Len(s) - 1
         /\ Elements(s) = {Head(s)} \cup Elements(Tail(s))
<1>1. Tail(s) \in Seq(Event) /\ Len(Tail(s)) = Len(s) - 1 /\ Head(s) = s[1] /\ Len(s) \in Nat /\ Len(s) > 0
  OBVIOUS
<1>2. DOMAIN Tail(s) = 1 .. Len(s) - 1 /\ DOMAIN s = 1 .. Len(s)
  BY <1>1
<1>3. \A i \in 1 .. Len(s) - 1 : Tail(s)[i] = s[i + 1]
  OBVIOUS
<1>4. Elements(Tail(s)) \subseteq Elements(s) /\ Head(s) \in Elements(s) /\ Head(s) \in Event
  BY <1>1, <1>2, <1>3 DEF Elements
<1>5. ASSUME NEW i \in DOMAIN s, i # 1 PROVE s[i] \in Elements(Tail(s))
  <2>1. i - 1 \in 1 .. Len(s) - 1
    BY <1>1, <1>2, <1>5
  <2>2. Tail(s)[i - 1] = s[i]
    BY <1>1, <1>2, <1>3, <2>1
  <2> QED
    BY <1>2, <2>1, <2>2 DEF Elements
<1>6. Elements(s) \subseteq {Head(s)} \cup Elements(Tail(s))
  BY <1>1, <1>5 DEF Elements
<1> QED
  BY <1>1, <1>4, <1>6

LEMMA AppendSorted ==
  ASSUME NEW s \in Seq(Event), NEW e \in Event, Sorted(s), Before(Elements(s), {e})
  PROVE  Sorted(Append(s, e))
<1>1. DOMAIN Append(s, e) = 1 .. Len(s) + 1 /\ DOMAIN s = 1 .. Len(s) /\ Len(s) \in Nat
  OBVIOUS
<1>2. \A i \in 1 .. Len(s) : Append(s, e)[i] = s[i] /\ s[i] \in Elements(s)
  BY <1>1 DEF Elements
<1>3. Append(s, e)[Len(s) + 1] = e
  OBVIOUS
<1>4. ASSUME NEW i \in DOMAIN Append(s, e), NEW j \in DOMAIN Append(s, e),
             i < j, Append(s, e)[i].pod = Append(s, e)[j].pod
      PROVE  Append(s, e)[i].number < Append(s, e)[j].number
  <2>1. i \in 1 .. Len(s)
    BY <1>1, <1>4
  <2>2. CASE j \in 1 .. Len(s)
    BY <1>1, <1>2, <1>4, <2>1, <2>2 DEF Sorted
  <2>3. CASE j = Len(s) + 1
    BY <1>2, <1>3, <1>4, <2>1, <2>3 DEF Before
  <2> QED
    BY <1>1, <2>2, <2>3
<1> QED
  BY <1>4 DEF Sorted

LEMMA TailSorted ==
  ASSUME NEW s \in Seq(Event), s # <<>>, Sorted(s)
  PROVE  Sorted(Tail(s)) /\ Before({Head(s)}, Elements(Tail(s)))
<1>1. Tail(s) \in Seq(Event) /\ Len(Tail(s)) = Len(s) - 1 /\ Head(s) = s[1] /\ Len(s) \in Nat /\ Len(s) > 0
  OBVIOUS
<1>2. DOMAIN Tail(s) = 1 .. Len(s) - 1 /\ DOMAIN s = 1 .. Len(s)
  BY <1>1
<1>3. \A i \in 1 .. Len(s) - 1 : Tail(s)[i] = s[i + 1] /\ i + 1 \in DOMAIN s
  BY <1>1, <1>2
<1>4. Sorted(Tail(s))
  <2>1. \A i, j \in 1 .. Len(s) - 1 : i < j => i + 1 < j + 1
    BY <1>1
  <2> QED
    BY <1>2, <1>3, <2>1 DEF Sorted
<1>5. \A i \in 1 .. Len(s) - 1 : s[1].pod = s[i + 1].pod => s[1].number < s[i + 1].number
  <2>1. 1 \in DOMAIN s /\ \A i \in 1 .. Len(s) - 1 : 1 < i + 1
    BY <1>1, <1>2
  <2> QED
    BY <1>3, <2>1 DEF Sorted
<1>6. Before({Head(s)}, Elements(Tail(s)))
  BY <1>1, <1>2, <1>3, <1>5 DEF Before, Elements
<1> QED
  BY <1>4, <1>6

LEMMA NoElements ==
  <<>> \in Seq(Event) /\ Len(<<>>) = 0 /\ Elements(<<>>) = {} /\ Sorted(<<>>)
BY DEF Elements, Sorted

LEMMA EverythingTyped ==
  ASSUME TypeOK
  PROVE  Everything \subseteq Event /\ \A e \in Everything : e.pod \in Pods /\ e.number \in Nat
<1>1. \A s \in Seq(Event) : Elements(s) \subseteq Event
  BY DEF Elements
<1>2. Queued \subseteq Event
  BY <1>1 DEF Queued, TypeOK
<1>3. Everything \subseteq Event
  BY <1>1, <1>2 DEF Everything, TypeOK
<1> QED
  BY <1>3 DEF Event

LEMMA Slots == QueueSlots > 0 /\ SocketSlots > 0 /\ ChanSlots > 0 /\ EvalSlots > 0
               /\ {QueueSlots, SocketSlots, ChanSlots, EvalSlots} \subseteq Nat
BY SlotAssumption
-----------------------------------------------------------------------------
(* The inductive invariant *)

LEMMA InitEstablishes == Init => Inv
<1> SUFFICES ASSUME Init PROVE Inv
  OBVIOUS
<1>1. \A p \in Pods : queue[p] = <<>>
  BY DEF Init
<1>2. Everything = {} /\ Queued = {}
  BY <1>1, NoElements DEF Init, Everything, Queued
<1>3. TypeOK
  <2>1. Room(<<>>, SocketSlots) /\ Room(<<>>, 1) /\ Room(<<>>, ChanSlots) /\ Room(<<>>, EvalSlots)
    BY Slots, NoElements DEF Room
  <2>2. queue \in [Pods -> Seq(Event)] /\ \A p \in Pods : Len(queue[p]) <= QueueSlots
    BY <1>1, Slots, NoElements DEF Init
  <2> QED
    BY <2>1, <2>2 DEF Init, TypeOK, Room
<1>4. BuffersSorted /\ OwnQueue
  BY <1>1, NoElements DEF Init, BuffersSorted, OwnQueue
<1>5. WaySorted
  BY <1>2, NoElements DEF Init, WaySorted, Before
<1> QED
  BY <1>2, <1>3, <1>4, <1>5 DEF Init, Inv, Pending, SeenCalled

LEMMA TypeSteps == TypeOK /\ Next => TypeOK'
<1> SUFFICES ASSUME TypeOK, Next PROVE TypeOK'
  OBVIOUS
<1> USE Slots DEF TypeOK, channels
<1>1. ASSUME NEW p \in Pods, InitSpy(p) \/ DetectPodInfo(p) \/ DeinitSpy(p) PROVE TypeOK'
  <2>1. CASE InitSpy(p) \/ DetectPodInfo(p)
    BY <2>1 DEF InitSpy, DetectPodInfo
  <2>2. CASE DeinitSpy(p)
    BY <2>2, NoElements DEF DeinitSpy
  <2> QED
    BY <1>1, <2>1, <2>2
<1>2. ASSUME NEW p \in Pods, ncclAllReduce(p) PROVE TypeOK'
  <2> DEFINE event == [pod |-> p, number |-> calls[p] + 1]
  <2>1. event \in Event
    BY DEF Event
  <2>2. queue' \in [Pods -> Seq(Event)] /\ \A q \in Pods : Len(queue'[q]) <= QueueSlots
    BY <1>2, <2>1 DEF ncclAllReduce
  <2> QED
    BY <1>2, <2>2 DEF ncclAllReduce
<1>3. ASSUME NEW p \in Pods, SendEvent(p) PROVE TypeOK'
  <2>1. PICK f \in Connect(p) :
          /\ fd' = [fd EXCEPT ![p] = f]
          /\ socket' = IF f = "current" /\ Len(socket) < SocketSlots
                       THEN Append(socket, Head(queue[p])) ELSE socket
    BY <1>3 DEF SendEvent
  <2>2. f \in {"closed", "current", "stale"}
    BY DEF Connect
  <2>3. queue[p] \in Seq(Event) /\ queue[p] # <<>> /\ queue' = [queue EXCEPT ![p] = Tail(@)]
    BY <1>3 DEF SendEvent
  <2>4. Tail(queue[p]) \in Seq(Event) /\ Head(queue[p]) \in Event /\ Len(Tail(queue[p])) <= QueueSlots
    BY <2>3, TailElements
  <2>5. socket' \in Seq(Event) /\ Len(socket') <= SocketSlots
    BY <2>1, <2>4
  <2> QED
    BY <1>3, <2>1, <2>2, <2>3, <2>4, <2>5 DEF SendEvent
<1>4. CASE Listen \/ Serve \/ StartEvaluator
  BY <1>4 DEF Listen, Serve, StartEvaluator
<1>5. CASE AgentDies \/ RecordPanics
  <2>1. Room(<<>>, SocketSlots) /\ Room(<<>>, 1) /\ Room(<<>>, ChanSlots) /\ Room(<<>>, EvalSlots)
    BY NoElements DEF Room
  <2>2. fd' \in [Pods -> {"closed", "current", "stale"}]
    BY <1>5 DEF AgentDies, RecordPanics, Die
  <2> QED
    BY <1>5, <2>1, <2>2 DEF AgentDies, RecordPanics, Die, Room
<1>6. CASE Read
  <2>1. Tail(socket) \in Seq(Event) /\ Head(socket) \in Event /\ Len(Tail(socket)) <= SocketSlots
    BY <1>6, TailElements DEF Read
  <2> QED
    BY <1>6, <2>1 DEF Read
<1>7. CASE Publish
  <2>1. Tail(reader) \in Seq(Event) /\ Head(reader) \in Event /\ Len(Tail(reader)) <= 1
    BY <1>7, TailElements DEF Publish
  <2> QED
    BY <1>7, <2>1 DEF Publish
<1>8. CASE Forward
  <2>1. Tail(metricsChan) \in Seq(Event) /\ Head(metricsChan) \in Event /\ Len(Tail(metricsChan)) <= ChanSlots
    BY <1>8, TailElements DEF Forward
  <2> QED
    BY <1>8, <2>1 DEF Forward
<1>9. CASE Evaluate
  <2>1. Tail(evalChan) \in Seq(Event) /\ Head(evalChan) \in Event /\ Len(Tail(evalChan)) <= EvalSlots
    BY <1>9, TailElements DEF Evaluate
  <2> QED
    BY <1>9, <2>1 DEF Evaluate, Event
<1> QED
  BY <1>1, <1>2, <1>3, <1>4, <1>5, <1>6, <1>7, <1>8, <1>9 DEF Next

(* A queue is replaced by what is left of it. *)
LEMMA QueueShrinks ==
  ASSUME TypeOK, NEW p \in Pods, NEW s, queue' = [queue EXCEPT ![p] = s], Elements(s) \subseteq Elements(queue[p])
  PROVE  /\ \A q \in Pods : Elements(queue'[q]) \subseteq Elements(queue[q])
         /\ Queued' \subseteq Queued
<1>1. \A q \in Pods : queue'[q] = IF q = p THEN s ELSE queue[q]
  BY DEF TypeOK
<1>2. \A q \in Pods : Elements(queue'[q]) \subseteq Elements(queue[q])
  BY <1>1
<1> QED
  BY <1>2 DEF Queued

(* What only loses events keeps their order. *)
LEMMA LosingSteps ==
  ASSUME Inv, TypeOK', BuffersSorted', UNCHANGED <<calls, seen>>,
         Elements(evalChan') \subseteq Elements(evalChan),
         Elements(metricsChan') \subseteq Elements(metricsChan),
         Elements(reader') \subseteq Elements(reader),
         Elements(socket') \subseteq Elements(socket),
         \A q \in Pods : Elements(queue'[q]) \subseteq Elements(queue[q]),
         Queued' \subseteq Queued
  PROVE  Inv'
<1>1. Everything' \subseteq Everything
  BY DEF Everything
<1>2. WaySorted'
  BY DEF Inv, WaySorted, Before
<1>3. Pending' /\ SeenCalled' /\ OwnQueue'
  BY <1>1 DEF Inv, Pending, SeenCalled, OwnQueue
<1> QED
  BY <1>2, <1>3 DEF Inv

LEMMA SpySteps ==
  ASSUME Inv, NEW p \in Pods, InitSpy(p) \/ DetectPodInfo(p) \/ DeinitSpy(p), TypeOK'
  PROVE  Inv'
<1>1. UNCHANGED <<calls, socket, reader, metricsChan, evalChan, seen>>
  BY DEF InitSpy, DetectPodInfo, DeinitSpy, channels
<1>2. CASE queue' = queue
  <2>1. Queued' = Queued /\ BuffersSorted'
    BY <1>1, <1>2 DEF Queued, Inv, BuffersSorted
  <2> QED
    BY <1>1, <1>2, <2>1, LosingSteps
<1>3. CASE queue' = [queue EXCEPT ![p] = <<>>]
  <2>1. \A q \in Pods : queue'[q] = <<>> \/ queue'[q] = queue[q]
    BY <1>3 DEF Inv, TypeOK
  <2>2. BuffersSorted'
    BY <1>1, <2>1, NoElements DEF Inv, BuffersSorted
  <2>3. /\ \A q \in Pods : Elements(queue'[q]) \subseteq Elements(queue[q])
        /\ Queued' \subseteq Queued
    BY <1>3, NoElements, QueueShrinks DEF Inv
  <2> QED
    BY <1>1, <2>2, <2>3, LosingSteps
<1> QED
  BY <1>2, <1>3 DEF InitSpy, DetectPodInfo, DeinitSpy

LEMMA RecordSteps ==
  ASSUME Inv, NEW p \in Pods, ncclAllReduce(p), TypeOK'
  PROVE  Inv'
<1> DEFINE event == [pod |-> p, number |-> calls[p] + 1]
<1>1. queue' = IF Len(queue[p]) < QueueSlots THEN [queue EXCEPT ![p] = Append(@, event)] ELSE queue
  BY DEF ncclAllReduce
<1>2. calls[p] \in Nat
  BY DEF Inv, TypeOK
<1>3. event \in Event /\ event.pod = p /\ event.number = calls[p] + 1
  BY <1>2 DEF Event
<1>4. UNCHANGED <<socket, reader, metricsChan, evalChan, seen>>
      /\ calls' = [calls EXCEPT ![p] = @ + 1]
  BY DEF ncclAllReduce, channels
<1>5. \A q \in Pods : calls[q] \in Nat /\ calls[q] <= calls'[q] /\ queue[q] \in Seq(Event)
      /\ calls'[p] = calls[p] + 1
  BY <1>4 DEF Inv, TypeOK
<1> HIDE DEF event
<1>6. SeenCalled'
  BY <1>4, <1>5 DEF Inv, TypeOK, SeenCalled
<1>7. CASE queue' = queue
  <2>1. Queued' = Queued /\ Everything' = Everything
    BY <1>4, <1>7 DEF Queued, Everything
  <2>2. BuffersSorted' /\ WaySorted' /\ OwnQueue'
    BY <1>4, <1>7, <2>1 DEF Inv, BuffersSorted, WaySorted, OwnQueue
  <2>3. Pending'
    <3>1. \A e \in Everything : e.pod \in Pods /\ e.number \in Nat
      BY EverythingTyped DEF Inv
    <3> QED
      BY <1>4, <1>5, <2>1, <3>1 DEF Inv, Pending
  <2> QED
    BY <2>2, <2>3, <1>6 DEF Inv
<1>8. CASE queue' = [queue EXCEPT ![p] = Append(@, event)]
  <2>1. \A q \in Pods : queue'[q] = IF q = p THEN Append(queue[p], event) ELSE queue[q]
    BY <1>8 DEF Inv, TypeOK
  <2>2. \A q \in Pods : Elements(queue'[q]) = IF q = p THEN Elements(queue[p]) \cup {event} ELSE Elements(queue[q])
    BY <1>3, <1>5, <2>1, AppendElements
  <2>3. Queued' = Queued \cup {event} /\ Everything' = Everything \cup {event}
    BY <1>4, <2>2 DEF Queued, Everything
  <2>4. \A e \in Everything : e.pod \in Pods /\ e.number \in Nat /\ e.number <= calls[e.pod] /\ seen[e.pod] < e.number
    BY EverythingTyped DEF Inv, Pending
  <2>5. Before(Everything, {event})
    BY <1>3, <1>5, <2>4 DEF Before
  <2>6. BuffersSorted'
    <3>1. Elements(queue[p]) \subseteq Everything
      BY DEF Everything, Queued
    <3>2. Sorted(Append(queue[p], event))
      BY <1>3, <1>5, <2>5, <3>1, AppendSorted DEF Before, Inv, BuffersSorted
    <3> QED
      BY <1>4, <2>1, <3>2 DEF Inv, BuffersSorted
  <2>7. WaySorted'
    BY <1>4, <2>3, <2>5 DEF Inv, WaySorted, Before, Everything
  <2>8. Pending'
    <3>1. \A q \in Pods : seen[q] \in Nat
      BY DEF Inv, TypeOK
    <3>2. seen[p] < event.number
      BY <1>3, <1>5, <3>1 DEF Inv, SeenCalled
    <3> QED
      BY <1>3, <1>4, <1>5, <2>3, <2>4, <3>1, <3>2 DEF Pending
  <2>9. OwnQueue'
    BY <1>3, <2>2, <2>3 DEF Inv, OwnQueue
  <2> QED
    BY <1>6, <2>6, <2>7, <2>8, <2>9 DEF Inv
<1> QED
  BY <1>1, <1>7, <1>8

(* The head of a queue is gone, or is now at the end of the socket. *)
LEMMA SendSteps ==
  ASSUME Inv, NEW p \in Pods, SendEvent(p), TypeOK'
  PROVE  Inv'
<1>1. queue[p] \in Seq(Event) /\ queue[p] # <<>> /\ queue' = [queue EXCEPT ![p] = Tail(@)]
      /\ UNCHANGED <<calls, reader, metricsChan, evalChan, seen>>
  BY DEF SendEvent, Inv, TypeOK
<1> DEFINE head == Head(queue[p])
<1>2. head \in Event /\ Elements(queue[p]) = {head} \cup Elements(Tail(queue[p]))
  BY <1>1, TailElements
<1>3. \A q \in Pods : queue'[q] = IF q = p THEN Tail(queue[p]) ELSE queue[q]
  BY <1>1 DEF Inv, TypeOK
<1>4. /\ \A q \in Pods : Elements(queue'[q]) \subseteq Elements(queue[q])
      /\ Queued' \subseteq Queued
  <2>1. queue' = [queue EXCEPT ![p] = Tail(queue[p])]
    BY <1>1
  <2> QED
    BY <1>2, <2>1, QueueShrinks DEF Inv
<1>5. Sorted(Tail(queue[p])) /\ Before({head}, Elements(Tail(queue[p])))
  BY <1>1, TailSorted DEF Inv, BuffersSorted
<1>6. \A q \in Pods : Sorted(queue'[q])
  BY <1>3, <1>5 DEF Inv, BuffersSorted
<1>7. CASE socket' = socket
  <2>1. BuffersSorted'
    BY <1>1, <1>6, <1>7 DEF Inv, BuffersSorted
  <2> QED
    BY <1>1, <1>4, <1>7, <2>1, LosingSteps
<1>8. CASE socket' = Append(socket, head)
  <2>1. socket \in Seq(Event) /\ head \in Queued /\ head.pod = p
    BY <1>2 DEF Inv, TypeOK, Queued, OwnQueue
  <2>2. Elements(socket') = Elements(socket) \cup {head}
    BY <1>2, <1>8, <2>1, AppendElements
  <2>3. Before({head}, Queued')
    <3>1. ASSUME NEW e \in Queued', e.pod = p PROVE e \in Elements(Tail(queue[p]))
      <4>1. PICK q \in Pods : e \in Elements(queue'[q])
        BY <3>1 DEF Queued
      <4>2. q = p
        BY <1>4, <3>1, <4>1 DEF Inv, OwnQueue
      <4> QED
        BY <1>3, <4>1, <4>2
    <3> QED
      BY <1>5, <2>1, <3>1 DEF Before
  <2>4. Before(Elements(socket), {head})
    BY <2>1 DEF Inv, WaySorted, Before
  <2>5. BuffersSorted'
    <3>1. Sorted(socket')
      BY <1>2, <1>8, <2>1, <2>4, AppendSorted DEF Inv, BuffersSorted
    <3> QED
      BY <1>1, <1>6, <3>1 DEF Inv, BuffersSorted
  <2>6. WaySorted'
    BY <1>1, <1>4, <2>1, <2>2, <2>3 DEF Inv, WaySorted, Before
  <2>7. Everything' \subseteq Everything
    BY <1>1, <1>4, <2>1, <2>2 DEF Everything
  <2>8. Pending' /\ SeenCalled' /\ OwnQueue'
    BY <1>1, <1>4, <2>7 DEF Inv, Pending, SeenCalled, OwnQueue
  <2> QED
    BY <2>5, <2>6, <2>8 DEF Inv
<1> QED
  BY <1>7, <1>8 DEF SendEvent

LEMMA AgentSteps ==
  ASSUME Inv, Listen \/ Serve \/ StartEvaluator \/ AgentDies \/ RecordPanics, TypeOK'
  PROVE  Inv'
<1>1. UNCHANGED <<calls, queue, seen>>
  BY DEF Listen, Serve, StartEvaluator, AgentDies, RecordPanics, Die
<1>2. Queued' = Queued /\ \A q \in Pods : Elements(queue'[q]) = Elements(queue[q])
  BY <1>1 DEF Queued
<1>3. CASE Listen \/ Serve \/ StartEvaluator
  <2>1. UNCHANGED <<socket, reader, metricsChan, evalChan>>
    BY <1>3 DEF Listen, Serve, StartEvaluator, channels
  <2>2. BuffersSorted'
    BY <1>1, <2>1 DEF Inv, BuffersSorted
  <2> QED
    BY <1>1, <1>2, <2>1, <2>2, LosingSteps
<1>4. CASE AgentDies \/ RecordPanics
  <2>1. socket' = <<>> /\ reader' = <<>> /\ metricsChan' = <<>> /\ evalChan' = <<>>
    BY <1>4 DEF AgentDies, RecordPanics, Die
  <2>2. BuffersSorted'
    BY <1>1, <2>1, NoElements DEF Inv, BuffersSorted
  <2> QED
    BY <1>1, <1>2, <2>1, <2>2, NoElements, LosingSteps
<1> QED
  BY <1>3, <1>4

(* The head of the socket is now with the reader. *)
LEMMA ReadSteps ==
  ASSUME Inv, Read, TypeOK'
  PROVE  Inv'
<1>1. socket \in Seq(Event) /\ socket # <<>> /\ reader = <<>> /\ socket' = Tail(socket)
      /\ UNCHANGED <<calls, queue, metricsChan, evalChan, seen>>
  BY DEF Read, Inv, TypeOK
<1> DEFINE head == Head(socket)
<1>2. head \in Event /\ Elements(socket) = {head} \cup Elements(socket')
  BY <1>1, TailElements
<1>3. reader' = Append(<<>>, head) /\ Elements(reader) = {}
  BY <1>1, <1>2, NoElements DEF Read
<1>4. Elements(reader') = {head} /\ Sorted(reader')
  BY <1>2, <1>3, NoElements, AppendElements, AppendSorted DEF Before
<1>5. Sorted(socket') /\ Before({head}, Elements(socket'))
  BY <1>1, TailSorted DEF Inv, BuffersSorted
<1>6. Queued' = Queued
  BY <1>1 DEF Queued
<1>7. BuffersSorted'
  BY <1>1, <1>4, <1>5 DEF Inv, BuffersSorted
<1>8. WaySorted'
  BY <1>1, <1>2, <1>3, <1>4, <1>5, <1>6 DEF Inv, WaySorted, Before
<1>9. Everything' = Everything
  BY <1>1, <1>2, <1>3, <1>4, <1>6 DEF Everything
<1>10. Pending' /\ SeenCalled' /\ OwnQueue'
  BY <1>1, <1>9 DEF Inv, Pending, SeenCalled, OwnQueue
<1> QED
  BY <1>7, <1>8, <1>10 DEF Inv

(* The event of the reader is now at the end of MetricsChan. *)
LEMMA PublishSteps ==
  ASSUME Inv, Publish, TypeOK'
  PROVE  Inv'
<1>1. reader \in Seq(Event) /\ metricsChan \in Seq(Event) /\ reader # <<>> /\ reader' = Tail(reader)
      /\ UNCHANGED <<calls, queue, socket, evalChan, seen>>
  BY DEF Publish, Inv, TypeOK
<1> DEFINE head == Head(reader)
<1>2. head \in Event /\ Elements(reader) = {head} \cup Elements(reader')
  BY <1>1, TailElements
<1>3. metricsChan' = Append(metricsChan, head)
  BY DEF Publish
<1>4. Elements(metricsChan') = Elements(metricsChan) \cup {head}
  BY <1>1, <1>2, <1>3, AppendElements
<1>5. Before(Elements(metricsChan), {head})
  BY <1>2 DEF Inv, WaySorted, Before
<1>6. Sorted(metricsChan')
  BY <1>1, <1>2, <1>3, <1>5, AppendSorted DEF Inv, BuffersSorted
<1>7. Sorted(reader') /\ Before({head}, Elements(reader'))
  BY <1>1, TailSorted DEF Inv, BuffersSorted
<1>8. Queued' = Queued
  BY <1>1 DEF Queued
<1>9. BuffersSorted'
  BY <1>1, <1>6, <1>7 DEF Inv, BuffersSorted
<1>10. WaySorted'
  BY <1>1, <1>2, <1>4, <1>7, <1>8 DEF Inv, WaySorted, Before
<1>11. Everything' = Everything
  BY <1>1, <1>2, <1>4, <1>8 DEF Everything
<1>12. Pending' /\ SeenCalled' /\ OwnQueue'
  BY <1>1, <1>11 DEF Inv, Pending, SeenCalled, OwnQueue
<1> QED
  BY <1>9, <1>10, <1>12 DEF Inv

(* The head of MetricsChan is gone, or is now at the end of the channel of *)
(* the evaluator.                                                          *)
LEMMA ForwardSteps ==
  ASSUME Inv, Forward, TypeOK'
  PROVE  Inv'
<1>1. metricsChan \in Seq(Event) /\ evalChan \in Seq(Event)
      /\ metricsChan # <<>> /\ metricsChan' = Tail(metricsChan)
      /\ UNCHANGED <<calls, queue, socket, reader, seen>>
  BY DEF Forward, Inv, TypeOK
<1> DEFINE head == Head(metricsChan)
<1>2. head \in Event /\ Elements(metricsChan) = {head} \cup Elements(metricsChan')
  BY <1>1, TailElements
<1>3. Sorted(metricsChan') /\ Before({head}, Elements(metricsChan'))
  BY <1>1, TailSorted DEF Inv, BuffersSorted
<1>4. Queued' = Queued /\ \A q \in Pods : Elements(queue'[q]) = Elements(queue[q])
  BY <1>1 DEF Queued
<1>5. CASE evalChan' = evalChan
  <2>1. BuffersSorted'
    BY <1>1, <1>3, <1>5 DEF Inv, BuffersSorted
  <2> QED
    BY <1>1, <1>2, <1>4, <1>5, <2>1, LosingSteps
<1>6. CASE evalChan' = Append(evalChan, head)
  <2>1. Elements(evalChan') = Elements(evalChan) \cup {head}
    BY <1>1, <1>2, <1>6, AppendElements
  <2>2. Before(Elements(evalChan), {head})
    BY <1>2 DEF Inv, WaySorted, Before
  <2>3. Sorted(evalChan')
    BY <1>1, <1>2, <1>6, <2>2, AppendSorted DEF Inv, BuffersSorted
  <2>4. BuffersSorted'
    BY <1>1, <1>3, <2>3 DEF Inv, BuffersSorted
  <2>5. WaySorted'
    BY <1>1, <1>2, <1>3, <1>4, <2>1 DEF Inv, WaySorted, Before
  <2>6. Everything' = Everything
    BY <1>1, <1>2, <1>4, <2>1 DEF Everything
  <2>7. Pending' /\ SeenCalled' /\ OwnQueue'
    BY <1>1, <2>6 DEF Inv, Pending, SeenCalled, OwnQueue
  <2> QED
    BY <2>4, <2>5, <2>7 DEF Inv
<1> QED
  BY <1>5, <1>6 DEF Forward

(* What the evaluator takes comes before all that is left of the pod. *)
LEMMA Oldest ==
  ASSUME Inv, Evaluate
  PROVE  /\ Head(evalChan) \in Event /\ Head(evalChan) \in Elements(evalChan)
         /\ Elements(evalChan) = {Head(evalChan)} \cup Elements(evalChan')
         /\ Sorted(evalChan')
         /\ Before({Head(evalChan)}, Everything')
         /\ Queued' = Queued
         /\ UNCHANGED <<calls, queue, socket, reader, metricsChan>>
         /\ seen' = [seen EXCEPT ![Head(evalChan).pod] = Head(evalChan).number]
<1>1. evalChan \in Seq(Event) /\ evalChan # <<>> /\ evalChan' = Tail(evalChan)
      /\ UNCHANGED <<calls, queue, socket, reader, metricsChan>>
      /\ seen' = [seen EXCEPT ![Head(evalChan).pod] = Head(evalChan).number]
  BY DEF Evaluate, Inv, TypeOK
<1>2. Head(evalChan) \in Event /\ Elements(evalChan) = {Head(evalChan)} \cup Elements(evalChan')
  BY <1>1, TailElements
<1>3. Sorted(evalChan') /\ Before({Head(evalChan)}, Elements(evalChan'))
  BY <1>1, TailSorted DEF Inv, BuffersSorted
<1>4. Queued' = Queued
  BY <1>1 DEF Queued
<1>5. Before({Head(evalChan)}, Everything')
  BY <1>1, <1>2, <1>3, <1>4 DEF Inv, WaySorted, Before, Everything
<1> QED
  BY <1>1, <1>2, <1>3, <1>4, <1>5

LEMMA EvaluateSteps ==
  ASSUME Inv, Evaluate, TypeOK'
  PROVE  Inv'
<1>1. BuffersSorted'
  BY Oldest DEF Inv, BuffersSorted
<1>2. WaySorted'
  BY Oldest DEF Inv, WaySorted, Before
<1>3. Everything' \subseteq Everything /\ Head(evalChan) \in Everything
  BY Oldest DEF Everything
<1>4. \A q \in Pods : seen'[q] = IF q = Head(evalChan).pod THEN Head(evalChan).number ELSE seen[q]
  BY Oldest DEF Inv, TypeOK
<1>5. Pending'
  <2>1. \A e \in Everything : e.pod \in Pods
    BY EverythingTyped DEF Inv
  <2> QED
    BY <1>3, <1>4, <2>1, Oldest DEF Inv, Pending, Before
<1>6. SeenCalled'
  BY <1>3, <1>4, Oldest DEF Inv, Pending, SeenCalled
<1>7. OwnQueue'
  BY <1>3, Oldest DEF Inv, OwnQueue
<1> QED
  BY <1>1, <1>2, <1>5, <1>6, <1>7 DEF Inv

LEMMA NextPreserves == Inv /\ [Next]_vars => Inv'
<1> SUFFICES ASSUME Inv, [Next]_vars PROVE Inv'
  OBVIOUS
<1>1. CASE UNCHANGED vars
  BY <1>1 DEF Inv, TypeOK, BuffersSorted, WaySorted, Pending, SeenCalled, OwnQueue, Everything, Queued,
              vars, channels
<1>2. CASE Next
  <2>1. TypeOK'
    BY <1>2, TypeSteps DEF Inv
  <2> QED
    BY <1>2, <2>1, SpySteps, RecordSteps, SendSteps, AgentSteps, ReadSteps, PublishSteps, ForwardSteps,
       EvaluateSteps DEF Next
<1> QED
  BY <1>1, <1>2

LEMMA Invariance == Spec => []Inv
<1> QED
  BY InitEstablishes, NextPreserves, PTL DEF Spec
-----------------------------------------------------------------------------
(* What happens to the events of a pod *)

LEMMA EventsOf ==
  ASSUME TypeOK, OwnQueue
  PROVE  \A p \in Pods : Events(p) = {e \in Everything : e.pod = p}
BY DEF Events, Everything, Queued, OwnQueue

(* Nothing new comes up but by a call, and a buffer with room takes what   *)
(* the one above it gives.                                                 *)
LEMMA SendKeeps ==
  ASSUME Inv, NEW p \in Pods, SendEvent(p)
  PROVE  /\ Everything' \subseteq Everything
         /\ \A q \in Pods : q # p => Elements(queue'[q]) = Elements(queue[q])
         /\ fd'[p] = "current" /\ Len(socket) < SocketSlots => Everything \subseteq Everything'
<1>1. queue[p] \in Seq(Event) /\ queue[p] # <<>> /\ queue' = [queue EXCEPT ![p] = Tail(@)]
      /\ UNCHANGED <<reader, metricsChan, evalChan>>
  BY DEF SendEvent, Inv, TypeOK
<1>2. Head(queue[p]) \in Event /\ Elements(queue[p]) = {Head(queue[p])} \cup Elements(Tail(queue[p]))
  BY <1>1, TailElements
<1>3. \A q \in Pods : queue'[q] = IF q = p THEN Tail(queue[p]) ELSE queue[q]
  BY <1>1 DEF Inv, TypeOK
<1>4. Queued = Queued' \cup {Head(queue[p])}
  BY <1>2, <1>3 DEF Queued
<1>5. PICK f \in Connect(p) :
        /\ fd' = [fd EXCEPT ![p] = f]
        /\ socket' = IF f = "current" /\ Len(socket) < SocketSlots
                     THEN Append(socket, Head(queue[p])) ELSE socket
  BY DEF SendEvent
<1>6. fd'[p] = f
  BY <1>5 DEF Inv, TypeOK
<1>7. Elements(Append(socket, Head(queue[p]))) = Elements(socket) \cup {Head(queue[p])}
  BY <1>2, AppendElements DEF Inv, TypeOK
<1> QED
  BY <1>1, <1>3, <1>4, <1>5, <1>6, <1>7 DEF Everything

LEMMA ReadPublishKeep ==
  ASSUME Inv, Read \/ Publish
  PROVE  Everything' = Everything
<1>1. Queued' = Queued
  BY DEF Queued, Read, Publish
<1>2. CASE Read
  <2>1. Elements(socket) = {Head(socket)} \cup Elements(socket') /\ Head(socket) \in Event
    BY <1>2, TailElements DEF Read, Inv, TypeOK
  <2>2. Elements(reader) = {} /\ Elements(Append(<<>>, Head(socket))) = {Head(socket)}
    BY <1>2, <2>1, NoElements, AppendElements DEF Read
  <2>3. reader' = Append(<<>>, Head(socket))
    BY <1>2, <2>1 DEF Read
  <2> QED
    BY <1>1, <1>2, <2>1, <2>2, <2>3 DEF Read, Everything
<1>3. CASE Publish
  <2>1. Elements(reader) = {Head(reader)} \cup Elements(reader') /\ Head(reader) \in Event
    BY <1>3, TailElements DEF Publish, Inv, TypeOK
  <2>2. Elements(metricsChan') = Elements(metricsChan) \cup {Head(reader)}
    BY <1>3, <2>1, AppendElements DEF Publish, Inv, TypeOK
  <2> QED
    BY <1>1, <1>3, <2>1, <2>2 DEF Publish, Everything
<1> QED
  BY <1>2, <1>3

LEMMA ForwardKeeps ==
  ASSUME Inv, Forward
  PROVE  /\ Everything' \subseteq Everything
         /\ Len(evalChan) < EvalSlots => Everything \subseteq Everything'
<1>1. Queued' = Queued
  BY DEF Queued, Forward
<1>2. Elements(metricsChan) = {Head(metricsChan)} \cup Elements(metricsChan') /\ Head(metricsChan) \in Event
  BY TailElements DEF Forward, Inv, TypeOK
<1>3. Elements(Append(evalChan, Head(metricsChan))) = Elements(evalChan) \cup {Head(metricsChan)}
  BY <1>2, AppendElements DEF Inv, TypeOK
<1> QED
  BY <1>1, <1>2, <1>3 DEF Forward, Everything

LEMMA OthersKeep ==
  ASSUME Inv
  PROVE  /\ Listen \/ Serve \/ StartEvaluator => Everything' = Everything
         /\ AgentDies \/ RecordPanics => Everything' \subseteq Everything
         /\ \A p \in Pods : InitSpy(p) \/ DetectPodInfo(p) => Everything' = Everything
         /\ \A p \in Pods : DeinitSpy(p) =>
              /\ Everything' \subseteq Everything
              /\ \A q \in Pods : q # p => \A e \in Events(q) : e \in Events(q)'
<1>1. Listen \/ Serve \/ StartEvaluator => Everything' = Everything
  BY DEF Listen, Serve, StartEvaluator, Everything, Queued, channels
<1>2. AgentDies \/ RecordPanics => Everything' \subseteq Everything
  BY NoElements DEF AgentDies, RecordPanics, Die, Everything, Queued
<1>3. ASSUME NEW p \in Pods, InitSpy(p) \/ DetectPodInfo(p) PROVE Everything' = Everything
  BY <1>3 DEF InitSpy, DetectPodInfo, Everything, Queued, channels
<1>4. ASSUME NEW p \in Pods, DeinitSpy(p)
      PROVE  /\ Everything' \subseteq Everything
             /\ \A q \in Pods : q # p => \A e \in Events(q) : e \in Events(q)'
  <2>1. queue' = [queue EXCEPT ![p] = <<>>] /\ UNCHANGED <<socket, reader, metricsChan, evalChan>>
    BY <1>4 DEF DeinitSpy, channels
  <2>2. Queued' \subseteq Queued
    BY <2>1, NoElements, QueueShrinks DEF Inv
  <2>3. \A q \in Pods : q # p => queue'[q] = queue[q]
    BY <2>1 DEF Inv, TypeOK
  <2> QED
    BY <2>1, <2>2, <2>3 DEF Everything, Events
<1> QED
  BY <1>1, <1>2, <1>3, <1>4
-----------------------------------------------------------------------------
(* Every step is a step of the stream *)

LEMMA LoseStep ==
  ASSUME Inv, Inv', Everything' \subseteq Everything, UNCHANGED <<calls, seen>>
  PROVE  Stream!Lose
<1>1. \A p \in Pods : Events(p)' \subseteq Events(p)
  <2>1. \A p \in Pods : Events(p) = {e \in Everything : e.pod = p}
    BY EventsOf DEF Inv
  <2>2. \A p \in Pods : Events(p)' = {e \in Everything' : e.pod = p}
    BY EventsOf DEF Inv, Events, Everything, Queued, OwnQueue
  <2> QED
    BY <2>1, <2>2
<1>2. \A p \in Pods : InFlight'[p] \subseteq InFlight[p]
  BY <1>1 DEF InFlight
<1>3. InFlight' = [p \in Pods |-> InFlight'[p]]
  BY DEF InFlight
<1> QED
  BY <1>2, <1>3 DEF Stream!Lose

LEMMA SendStep ==
  ASSUME Inv, Inv', NEW p \in Pods, ncclAllReduce(p)
  PROVE  Stream!Send(p)
<1> DEFINE event == [pod |-> p, number |-> calls[p] + 1]
<1>1. queue' = IF Len(queue[p]) < QueueSlots THEN [queue EXCEPT ![p] = Append(@, event)] ELSE queue
  BY DEF ncclAllReduce
<1>2. calls[p] \in Nat
  BY DEF Inv, TypeOK
<1>3. event \in Event /\ event.pod = p /\ event.number = calls[p] + 1
  BY <1>2 DEF Event
<1>4. UNCHANGED <<socket, reader, metricsChan, evalChan, seen>> /\ calls' = [calls EXCEPT ![p] = @ + 1]
  BY DEF ncclAllReduce, channels
<1> HIDE DEF event
<1>5. CASE queue' = queue
  <2>1. InFlight' = InFlight
    BY <1>4, <1>5 DEF InFlight, Events
  <2> QED
    BY <1>4, <2>1 DEF Stream!Send
<1>6. CASE queue' = [queue EXCEPT ![p] = Append(@, event)]
  <2>1. \A q \in Pods : queue'[q] = IF q = p THEN Append(queue[p], event) ELSE queue[q]
    BY <1>6 DEF Inv, TypeOK
  <2>2. Elements(Append(queue[p], event)) = Elements(queue[p]) \cup {event}
    BY <1>3, AppendElements DEF Inv, TypeOK
  <2>3. \A q \in Pods : Events(q)' = IF q = p THEN Events(p) \cup {event} ELSE Events(q)
    BY <1>3, <1>4, <2>1, <2>2 DEF Events
  <2>4. \A q \in Pods : InFlight'[q] = IF q = p THEN InFlight[p] \cup {calls[p] + 1} ELSE InFlight[q]
    BY <1>3, <2>3 DEF InFlight
  <2>5. InFlight' = [InFlight EXCEPT ![p] = @ \cup {calls[p] + 1}]
    BY <2>4 DEF InFlight
  <2> QED
    BY <1>4, <2>5 DEF Stream!Send
<1> QED
  BY <1>1, <1>5, <1>6

LEMMA DeliverStep ==
  ASSUME Inv, Inv', Evaluate
  PROVE  \E p \in Pods : Stream!Deliver(p)
<1> DEFINE head == Head(evalChan)
           p    == head.pod
<1>1. head \in Event /\ p \in Pods /\ head.number \in Nat /\ head \in Everything
  BY Oldest DEF Event, Everything
<1>2. Everything = Everything' \cup {head} /\ Before({head}, Everything')
  BY Oldest DEF Everything
<1>3. \A q \in Pods : Events(q) = {e \in Everything : e.pod = q}
  BY EventsOf DEF Inv
<1>4. \A q \in Pods : Events(q)' = {e \in Everything' : e.pod = q}
  BY EventsOf DEF Inv, Events, Everything, Queued, OwnQueue
<1>5. \A e \in Everything' : e.pod = p => head.number < e.number /\ e.number \in Nat
  BY <1>1, <1>2, EverythingTyped DEF Inv, Before
<1> HIDE DEF head
<1>6. \A q \in Pods : q # p => InFlight'[q] = InFlight[q]
  BY <1>2, <1>3, <1>4 DEF InFlight
<1>7. InFlight'[p] = InFlight[p] \ {head.number} /\ head.number \in InFlight[p]
  BY <1>1, <1>2, <1>3, <1>4, <1>5 DEF InFlight
<1>8. \A m \in InFlight[p] : head.number <= m
  BY <1>1, <1>2, <1>3, <1>5 DEF InFlight
<1>9. InFlight' = [InFlight EXCEPT ![p] = @ \ {head.number}]
  BY <1>1, <1>6, <1>7 DEF InFlight
<1>10. head.number > seen[p]
  BY <1>1 DEF Inv, Pending, TypeOK
<1>11. seen' = [seen EXCEPT ![p] = head.number] /\ calls' = calls
  BY Oldest DEF head
<1>12. Stream!Deliver(p)
  BY <1>7, <1>8, <1>9, <1>10, <1>11 DEF Stream!Deliver
<1> QED
  BY <1>1, <1>12

LEMMA StreamStep == Inv /\ Inv' /\ [Next]_vars => [Stream!StreamNext]_(Stream!streamVars)
<1> SUFFICES ASSUME Inv, Inv', [Next]_vars PROVE [Stream!StreamNext]_(Stream!streamVars)
  OBVIOUS
<1>1. CASE UNCHANGED vars
  BY <1>1 DEF Stream!streamVars, InFlight, Events, vars, channels
<1>2. ASSUME NEW p \in Pods, ncclAllReduce(p) PROVE Stream!StreamNext
  BY <1>2, SendStep DEF Stream!StreamNext
<1>3. CASE Evaluate
  BY <1>3, DeliverStep DEF Stream!StreamNext
<1>4. ASSUME NEW p \in Pods, InitSpy(p) \/ DetectPodInfo(p) \/ SendEvent(p) \/ DeinitSpy(p) PROVE Stream!Lose
  <2>1. Everything' \subseteq Everything
    BY <1>4, OthersKeep, SendKeeps
  <2> QED
    BY <1>4, <2>1, LoseStep DEF InitSpy, DetectPodInfo, SendEvent, DeinitSpy
<1>5. CASE Listen \/ Serve \/ StartEvaluator \/ AgentDies \/ RecordPanics \/ Read \/ Publish \/ Forward
  <2>1. Everything' \subseteq Everything
    BY <1>5, OthersKeep, ReadPublishKeep, ForwardKeeps
  <2>2. UNCHANGED <<calls, seen>>
    BY <1>5 DEF Listen, Serve, StartEvaluator, AgentDies, RecordPanics, Die, Read, Publish, Forward
  <2>3. Stream!Lose
    BY <2>1, <2>2, LoseStep
  <2> QED
    BY <2>3 DEF Stream!StreamNext
<1> QED
  BY <1>1, <1>2, <1>3, <1>4, <1>5 DEF Next, Stream!StreamNext
-----------------------------------------------------------------------------
(* The way from ncclAllReduce to runLoop keeps to its types, and no buffer *)
(* of it ever holds more than it has slots for.                            *)
THEOREM TypeCorrect == Spec => []TypeOK
<1>1. Inv => TypeOK
  BY DEF Inv
<1> QED
  BY <1>1, Invariance, PTL

(* Spy, socket, collector and main loop together implement a lossy stream: *)
(* through full buffers, agents that die and processes that are restarted  *)
(* runLoop gets the operations of a pod at most once and in call order.    *)
THEOREM Refines == Spec => ImplementsStream
<1>1. Init => Stream!StreamInit
  <2> SUFFICES ASSUME Init PROVE Stream!StreamInit
    OBVIOUS
  <2>1. \A p \in Pods : Events(p) = {}
    BY NoElements DEF Init, Events
  <2>2. InFlight = [p \in Pods |-> {}]
    BY <2>1 DEF InFlight
  <2> QED
    BY <2>2 DEF Init, Stream!StreamInit
<1> QED
  BY <1>1, Invariance, StreamStep, PTL DEF Spec, ImplementsStream, Stream!StreamSpec

LEMMA LossStep ==
  ASSUME Inv, Inv', Next, NEW p \in Pods, Lost(p) # {}
  PROVE  \/ spy'[p] = "off"
         \/ agent' = "down"
         \/ fd'[p] # "current"
         \/ Len(socket) = SocketSlots
         \/ Len(evalChan) = EvalSlots
<1>1. PICK e \in Events(p) : e \notin Events(p)' /\ seen'[p] # e.number
  BY DEF Lost
<1>2. e \in Everything /\ e.pod = p
  BY EventsOf DEF Inv
<1>3. e \notin Everything'
  <2>1. \A q \in Pods : Events(q)' = {d \in Everything' : d.pod = q}
    BY EventsOf DEF Inv, Events, Everything, Queued, OwnQueue
  <2> QED
    BY <1>1, <1>2, <2>1
<1>4. ~(Everything \subseteq Everything')
  BY <1>2, <1>3
<1>5. ASSUME NEW q \in Pods, ncclAllReduce(q) PROVE FALSE
  <2>1. \A r \in Pods : Elements(queue[r]) \subseteq Elements(queue'[r])
    <3> DEFINE event == [pod |-> q, number |-> calls[q] + 1]
    <3>1. queue' = IF Len(queue[q]) < QueueSlots THEN [queue EXCEPT ![q] = Append(@, event)] ELSE queue
      BY <1>5 DEF ncclAllReduce
    <3>2. calls[q] \in Nat
      BY DEF Inv, TypeOK
    <3>3. event \in Event
      BY <3>2 DEF Event
    <3> HIDE DEF event
    <3>4. Elements(queue[q]) \subseteq Elements(Append(queue[q], event))
      BY <3>3, AppendElements DEF Inv, TypeOK
    <3>5. \A r \in Pods : queue'[r] = queue[r] \/ (r = q /\ queue'[r] = Append(queue[q], event))
      BY <3>1 DEF Inv, TypeOK
    <3> QED
      BY <3>4, <3>5
  <2>2. UNCHANGED <<socket, reader, metricsChan, evalChan>>
    BY <1>5 DEF ncclAllReduce, channels
  <2> QED
    BY <1>4, <2>1, <2>2 DEF Everything, Queued
<1>6. ASSUME NEW q \in Pods, SendEvent(q)
      PROVE  fd'[p] # "current" \/ Len(socket) = SocketSlots
  <2>1. CASE q = p
    <3>1. Len(socket) \in Nat /\ Len(socket) <= SocketSlots
      BY DEF Inv, TypeOK
    <3> QED
      BY <1>4, <1>6, <2>1, <3>1, SendKeeps, Slots
  <2>2. CASE q # p
    <3>1. Elements(queue'[p]) = Elements(queue[p]) /\ UNCHANGED <<reader, metricsChan, evalChan>>
      BY <1>6, <2>2, SendKeeps DEF SendEvent
    <3>2. Elements(socket) \subseteq Elements(socket')
      <4>1. Head(queue[q]) \in Event
        BY <1>6, TailElements DEF SendEvent, Inv, TypeOK
      <4>2. Elements(socket) \subseteq Elements(Append(socket, Head(queue[q])))
        BY <4>1, AppendElements DEF Inv, TypeOK
      <4> QED
        BY <1>6, <4>2 DEF SendEvent
    <3> QED
      BY <1>1, <3>1, <3>2 DEF Events
  <2> QED
    BY <2>1, <2>2
<1>7. ASSUME NEW q \in Pods, DeinitSpy(q) PROVE spy'[p] = "off"
  <2>1. q = p
    BY <1>1, <1>7, OthersKeep
  <2> QED
    BY <1>7, <2>1 DEF DeinitSpy, Inv, TypeOK
<1>8. ASSUME NEW q \in Pods, InitSpy(q) \/ DetectPodInfo(q) PROVE FALSE
  BY <1>4, <1>8, OthersKeep
<1>9. CASE Listen \/ Serve \/ StartEvaluator \/ Read \/ Publish
  BY <1>4, <1>9, OthersKeep, ReadPublishKeep
<1>10. CASE AgentDies \/ RecordPanics
  BY <1>10 DEF AgentDies, RecordPanics, Die
<1>11. CASE Forward
  <2>1. Len(evalChan) \in Nat /\ Len(evalChan) <= EvalSlots
    BY DEF Inv, TypeOK
  <2> QED
    BY <1>4, <1>11, <2>1, ForwardKeeps, Slots
<1>12. CASE Evaluate
  <2>1. Everything = Everything' \cup {Head(evalChan)}
    BY <1>12, Oldest DEF Everything
  <2>2. e = Head(evalChan)
    BY <1>2, <1>3, <2>1
  <2>3. seen'[p] = e.number
    BY <1>2, <1>12, <2>2, Oldest DEF Inv, TypeOK
  <2> QED
    BY <1>1, <2>3
<1> QED
  BY <1>5, <1>6, <1>7, <1>8, <1>9, <1>10, <1>11, <1>12 DEF Next

(* Behind every event that is lost on the way there is a full buffer, the  *)
(* end of a process or a socket without an agent, and nothing else.        *)
THEOREM LossExplained == Spec => LossHasCause
<1>1. Inv /\ Inv' /\ [Next]_vars =>
        [\A p \in Pods : Lost(p) # {} =>
           \/ spy'[p] = "off"
           \/ agent' = "down"
           \/ fd'[p] # "current"
           \/ Len(socket) = SocketSlots
           \/ Len(evalChan) = EvalSlots]_vars
  BY LossStep
<1> QED
  BY <1>1, Invariance, PTL DEF Spec, LossHasCause
=============================================================================
