---------------------------- MODULE OffloadStream ----------------------------
(***************************************************************************)
(* Applications that announce frames over a channel of their own and read  *)
(* the pool beside it, over axon_bridge.h (src/integrations):              *)
(*   ros1, ros2  producer_node.cpp and consumer_node.cpp                   *)
(*   image       the image_transport plugin of ROS1                        *)
(*   spike       src/examples/spike_poc, a V4L2 camera and one socket      *)
(* The payload of frame s goes to buffer s mod n of a pool that is never   *)
(* acquired or released: a frame stays readable only until the producer    *)
(* comes round to its buffer.  Buffers are read and written in two parts;  *)
(* the ROS nodes look at the stamp in the first only.                      *)
(*                                                                         *)
(* One producer at a time and one consumer.  A topic keeps the order of    *)
(* its messages, and may lose any.  An instance is one Producer object     *)
(* (or one run of the spike), with a pool of its own.                      *)
(***************************************************************************)
EXTENDS Integers, Sequences, FiniteSetsExt

CONSTANTS Apps,          \* the applications that are run
          RingSize,      \* buffers of a pool
          Sizes,         \* frame sizes
          Depth,         \* Depth[app]: messages a subscriber, or the socket, holds
          MaxFrame,      \* bound on the frames of a process
          MaxInstances   \* bound on the instances

ASSUME OffloadApps == Apps \subseteq {"ros1", "ros2", "image", "spike"}
ASSUME OffloadBounds == RingSize \in Nat \ {0} /\ MaxFrame \in Nat /\ MaxInstances \in Nat
ASSUME FramesHaveBytes == Sizes \subseteq Nat \ {0}

VARIABLES
  app,
  inst,     \* instances created so far
  prod,     \* inst: the instance that lives, or 0; size: its buffer_size();
            \* bytes: size of the frame; replaced: it took another's place
  count,    \* frames begun, completed, announced, given back to the driver
  pool,     \* pool[p][i]: the frames in the two parts of buffer i of instance p
  path,     \* the instance whose socket the service's path names, 0 if none
  link,     \* the instance the consumer is connected to, 0 if none
  offer,    \* the buffer size in the handshake sent on it, 0 if none was
  queue,    \* messages on their way to the consumer
  cpc,      \* the consumer: idle, connect, hello, ready, head, tail, done
  mapped,   \* the instance it has mapped and the size it mapped
  hand,     \* the message it is working on
  got,      \* the frame in the first part, as it was read
  last,     \* verdict of the last frame read
  wd        \* watchdog of ros1: g_last_seen, wd_last and their instances; at its
            \* last tick: had a descriptor come since the tick before, had one
            \* ever, was it of another instance, was there a warning

consumerVars == <<link, offer, cpc, mapped, hand, got, last, wd>>
vars == <<app, inst, prod, count, pool, path, queue, consumerVars>>

NoProd == [inst |-> 0, size |-> 0, bytes |-> 0, replaced |-> FALSE]
NoCount == [begun |-> 0, full |-> 0, sent |-> 0, back |-> 0]
Blank == [i \in 0..(RingSize - 1) |-> [head |-> 0, tail |-> 0]]
NoMessage == [seq |-> 0, inst |-> 0, size |-> 0, idx |-> 0]
NothingRead == [exact |-> TRUE, lapped |-> FALSE, foreign |-> FALSE, inside |-> TRUE]
NoWatch == [seen |-> 0, from |-> 0, last |-> 0, lastFrom |-> 0,
            arrived |-> FALSE, heard |-> FALSE, changed |-> FALSE,
            ever |-> FALSE, warned |-> FALSE]

Init ==
  /\ app \in Apps /\ inst = 0 /\ prod = NoProd /\ count = NoCount
  /\ pool = [p \in 1..MaxInstances |-> Blank]
  /\ path = 0 /\ link = 0 /\ offer = 0 /\ queue = <<>>
  /\ cpc = IF app = "image" THEN "idle" ELSE "connect"
  /\ mapped = [inst |-> 0, size |-> 0] /\ hand = NoMessage /\ got = 0
  /\ last = NothingRead /\ wd = NoWatch

-----------------------------------------------------------------------------
(* The producer.                                                           *)

Alive == prod.inst # 0
Settled == count.begun = count.sent
Slot(s) == s % RingSize

\* Producer::create(): pool, views, then SidecarServer::create(), which binds the
\* path anew.  A failure at any call leaves no producer.
NewProducer(size, replaces) ==
  /\ inst < MaxInstances
  /\ inst' = inst + 1
  /\ prod' = [inst |-> inst + 1, size |-> size, bytes |-> size,
              replaced |-> replaces]

\* main() of the nodes, up to their loops.
Start ==
  /\ ~Alive /\ app \in {"ros1", "ros2"}
  /\ \E size \in Sizes : NewProducer(size, FALSE)
  /\ path' = inst' /\ count' = NoCount
  /\ UNCHANGED <<app, pool, queue, consumerVars>>

\* The process ends: its path goes if it ends well.  A camera that fails or a
\* consumer that has gone ends the spike.
Stop ==
  /\ Alive
  /\ prod' = NoProd /\ count' = NoCount
  /\ path' \in {path, 0}
  /\ UNCHANGED <<app, inst, pool, queue, consumerVars>>

\* Mutant of Poll: consumers are let in before the first frame only.
PollOnce == offer' = IF link # 0 /\ link = prod'.inst /\ count.begun = 0 THEN prod'.size ELSE offer

\* poll_new_consumers(): the consumer that waits in accept()'s queue gets the pool.
Poll == offer' = IF link # 0 /\ link = prod'.inst THEN prod'.size ELSE offer

Begin == /\ count' = [count EXCEPT !.begun = @ + 1]
         /\ pool' = [pool EXCEPT ![prod'.inst][Slot(count'.begun)].head = count'.begun]

\* tick() of the nodes: poll, ++seqno, stamp.  At the bound only the poll is left.
TickBegin ==
  /\ app \in {"ros1", "ros2"} /\ Alive /\ Settled
  /\ UNCHANGED prod /\ Poll
  /\ IF count.begun < MaxFrame THEN Begin ELSE UNCHANGED <<count, pool>>
  /\ UNCHANGED <<app, inst, path, queue, link, cpc, mapped, hand, got, last, wd>>

\* publish() of the plugin: a frame larger than the buffers has a new Producer
\* made, and the assignment destroys the old one after that: its destructor
\* unlinks the path of both.
NeedsProducer(bytes) == ~Alive \/ prod.size < bytes
ImageBegin ==
  /\ app = "image" /\ Settled
  /\ \E bytes \in Sizes :
       \/ /\ NeedsProducer(bytes)
          /\ NewProducer(bytes, Alive)
          /\ path' = IF Alive THEN 0 ELSE inst'
       \/ /\ ~NeedsProducer(bytes)
          /\ prod' = [prod EXCEPT !.bytes = bytes]
          /\ UNCHANGED <<inst, path>>
  /\ Poll
  /\ IF count.begun < MaxFrame THEN Begin ELSE UNCHANGED <<count, pool>>
  /\ UNCHANGED <<app, queue, link, cpc, mapped, hand, got, last, wd>>

\* Producer::create() fails: the old one is destroyed all the same.
ImageFails ==
  /\ app = "image" /\ Settled
  /\ \E bytes \in Sizes : NeedsProducer(bytes)
  /\ prod' = NoProd /\ path' = 0
  /\ UNCHANGED <<app, inst, count, pool, queue, consumerVars>>

\* Mutant of Message: the buffer of the frame before.
MessageBehind(s) ==
  [seq |-> s, inst |-> prod.inst, size |-> prod.bytes, idx |-> Slot(s + RingSize - 1)]

\* What is announced of frame s, and a topic's queue with m added.
Message(s) == [seq |-> s, inst |-> prod.inst, size |-> prod.bytes, idx |-> Slot(s)]
Queued(m) ==
  LET q == Append(queue, m)
  IN IF Len(q) > Depth[app] THEN Tail(q) ELSE q
Subscribed == IF app = "image" THEN cpc # "done" ELSE cpc \in {"ready", "head", "tail"}

\* The rest of the payload is there, then the message is published.
FinishFrame ==
  /\ app # "spike" /\ Alive /\ ~Settled
  /\ count' = [count EXCEPT !.full = count.begun, !.sent = count.begun, !.back = count.begun]
  /\ pool' = [pool EXCEPT ![prod.inst][Slot(count.begun)].tail = count.begun]
  /\ queue' \in {queue} \cup (IF Subscribed THEN {Queued(Message(count.begun))} ELSE {})
  /\ UNCHANGED <<app, inst, prod, path, consumerVars>>

-----------------------------------------------------------------------------
(* The spike: the camera fills the buffers it has been given, in turn.     *)

\* main(): the camera's buffers are exported and queued, then the path is bound.
\* unix_listen() may fail after it has unlinked the path.
SpikeStart ==
  /\ app = "spike" /\ ~Alive
  /\ \/ /\ \E size \in Sizes : NewProducer(size, FALSE)
        /\ path' = inst' /\ count' = NoCount
     \/ path' = 0 /\ UNCHANGED <<inst, prod, count>>
  /\ UNCHANGED <<app, pool, queue, consumerVars>>

SpikeAccept ==
  /\ app = "spike" /\ Alive /\ offer = 0 /\ link = prod.inst
  /\ offer' = prod.size
  /\ UNCHANGED <<app, inst, prod, count, pool, path, queue,
                 link, cpc, mapped, hand, got, last, wd>>

Streaming == app = "spike" /\ Alive /\ offer # 0 /\ link = prod.inst

\* All buffers are queued at first, and a buffer again after its frame is announced.
CameraHasBuffer == count.begun < count.back + RingSize

CameraBegins ==
  /\ Streaming /\ count.begun = count.full /\ count.begun < MaxFrame
  /\ CameraHasBuffer
  /\ UNCHANGED prod /\ Begin
  /\ UNCHANGED <<app, inst, path, queue, consumerVars>>

CameraEnds ==
  /\ Streaming /\ count.full < count.begun
  /\ count' = [count EXCEPT !.full = count.begun]
  /\ pool' = [pool EXCEPT ![prod.inst][Slot(count.begun)].tail = count.begun]
  /\ UNCHANGED <<app, inst, prod, path, queue, consumerVars>>

\* VIDIOC_DQBUF of the oldest full buffer, then write() of its frame_meta, which
\* blocks while the socket is full.
WriteMeta ==
  /\ Streaming /\ count.sent = count.back /\ count.sent < count.full
  /\ Len(queue) < Depth[app]
  /\ count' = [count EXCEPT !.sent = @ + 1]
  /\ queue' = Append(queue, Message(count.sent + 1))
  /\ UNCHANGED <<app, inst, prod, pool, path, consumerVars>>

Requeue ==
  /\ Streaming /\ count.back < count.sent
  /\ count' = [count EXCEPT !.back = @ + 1]
  /\ UNCHANGED <<app, inst, prod, pool, path, queue, consumerVars>>

-----------------------------------------------------------------------------
(* The consumer.                                                           *)

producerVars == <<app, inst, prod, count, pool, path>>
Reachable == Alive /\ path = prod.inst

Connect ==
  /\ cpc = "connect" /\ Reachable
  /\ link' = prod.inst /\ offer' = 0 /\ cpc' = "hello"
  /\ UNCHANGED <<producerVars, queue, mapped, hand, got, last, wd>>

\* A node or the spike gives up and ends; the plugin drops the frame it has.
GiveUp == /\ cpc' = IF app = "image" THEN "idle" ELSE "done"
          /\ link' = 0 /\ hand' = NoMessage
          /\ UNCHANGED <<producerVars, queue, offer, mapped, got, last, wd>>

\* connect() retries for seconds, ticks come every few milliseconds: it fails,
\* and so does the handshake, only when there is nobody to answer.
ConnectFails == cpc = "connect" /\ ~Reachable /\ GiveUp
HandshakeFails == cpc = "hello" /\ offer = 0 /\ link # prod.inst /\ GiveUp

\* recv_pool_handshake(), mmap(); the plugin goes on with the frame it has.
RecvHandshake ==
  /\ cpc = "hello" /\ offer # 0
  /\ mapped' = [inst |-> link, size |-> offer]
  /\ cpc' = IF app = "image" THEN "head" ELSE "ready"
  /\ UNCHANGED <<producerVars, queue, link, offer, hand, got, last, wd>>

\* g_last_seen.store(): before any test.
Noted(m) == [wd EXCEPT !.seen = m.seq, !.from = m.inst, !.arrived = TRUE]

\* A message is taken.  Every pool of a Producer has generation 1 and as many
\* buffers as the next, so the tests of generation and index let it pass.
TakeMessage ==
  /\ cpc \in {"idle", "ready"} /\ queue # <<>>
  /\ hand' = Head(queue) /\ queue' = Tail(queue)
  /\ cpc' = IF cpc = "idle" THEN "connect" ELSE "head"
  /\ wd' = IF app = "ros1" THEN Noted(Head(queue)) ELSE wd
  /\ UNCHANGED <<producerVars, link, offer, mapped, got, last>>

View == pool[mapped.inst][hand.idx]
BegunIn(p) == Max({pool[p][i].head : i \in 0..(RingSize - 1)})

ReadHead ==
  /\ cpc = "head" /\ cpc' = "tail" /\ got' = View.head
  /\ UNCHANGED <<producerVars, queue, link, offer, mapped, hand, last, wd>>

\* The stamp is seqno, and the pixels are of the same frame; the plugin copies as
\* many bytes as the message tells.
Exact == got = hand.seq /\ (app = "image" => View.tail = hand.seq)
InsideMapping == app = "image" => hand.size <= mapped.size

\* The frame is read, and counted as a payload error or not.  A ROS2 consumer may
\* have read its last frame.
ReadTail ==
  /\ cpc = "tail"
  /\ last' = [exact   |-> Exact,
              lapped  |-> BegunIn(hand.inst) >= hand.seq + RingSize,
              foreign |-> hand.inst # mapped.inst,
              inside  |-> InsideMapping]
  /\ cpc' \in IF app = "ros2" THEN {"ready", "done"} ELSE {"ready"}
  /\ hand' = NoMessage /\ got' = 0
  /\ UNCHANGED <<producerVars, queue, link, offer, mapped, wd>>

\* The spike's consumer reads the end of the stream, or its socket fails.
EndOfStream ==
  /\ app = "spike" /\ cpc = "ready" /\ queue = <<>> /\ link # prod.inst
  /\ cpc' = "done"
  /\ UNCHANGED <<producerVars, queue, link, offer, mapped, hand, got, last, wd>>

\* Mutant of WatchdogTick: wd_last is only set at a warning.
WatchdogTickForgetful ==
  /\ app = "ros1" /\ cpc = "ready"
  /\ wd' = [wd EXCEPT !.warned = (wd.seen = wd.last /\ wd.seen # 0),
                      !.heard = wd.arrived, !.arrived = FALSE, !.ever = (wd.seen # 0),
                      !.changed = (wd.from # wd.lastFrom), !.lastFrom = wd.from]
  /\ UNCHANGED <<producerVars, queue, link, offer, cpc, mapped, hand, got, last>>

\* The timer of ros1's consumer, between two messages.
WatchdogTick ==
  /\ app = "ros1" /\ cpc = "ready"
  /\ wd' = [wd EXCEPT !.warned = (wd.seen = wd.last /\ wd.seen # 0),
                      !.heard = wd.arrived, !.arrived = FALSE, !.ever = (wd.seen # 0),
                      !.changed = (wd.from # wd.lastFrom),
                      !.last = wd.seen, !.lastFrom = wd.from]
  /\ UNCHANGED <<producerVars, queue, link, offer, cpc, mapped, hand, got, last>>

ProducerStep == TickBegin \/ ImageBegin \/ FinishFrame \/ SpikeAccept \/ CameraBegins
                \/ CameraEnds \/ WriteMeta \/ Requeue
ConsumerStep == Connect \/ RecvHandshake \/ TakeMessage \/ ReadHead \/ ReadTail \/ EndOfStream

Next == Start \/ SpikeStart \/ Stop \/ ImageFails \/ ProducerStep \/ ConsumerStep
        \/ ConnectFails \/ HandshakeFails \/ WatchdogTick

Fairness == WF_vars(ProducerStep) /\ WF_vars(ConsumerStep)
Spec == Init /\ [][Next]_vars
FairSpec == Spec /\ Fairness

-----------------------------------------------------------------------------
(* Properties.                                                             *)

\* A frame of the pool that the consumer has mapped is read as it was announced,
\* stamp and pixels, or the producer had come round to its buffer again, and a copy
\* of it stays inside the buffer: late delivery, a dead producer, or one replaced
\* for a larger frame, do no more harm than that.
PayloadErrorsAreLaps == ~last.foreign => last.inside /\ (last.exact \/ last.lapped)

\* The watchdog warns at a tick exactly if no descriptor came since the tick
\* before, once one has come, and unless another producer has begun to send:
\* its numbers may be those of the old one.
WatchdogTruthful == wd.ever => wd.changed \/ wd.warned # wd.heard

\* A consumer that starts attaches to a producer that keeps running, whichever
\* of the two starts first, unless that producer was put in the place of a
\* smaller one and has lost its path to the other's destructor.
Attaching == cpc = "connect" \/ (cpc = "hello" /\ link = prod.inst)
ConsumerAttaches == Attaching ~> cpc \in {"ready", "head"} \/ ~Alive \/ prod.replaced
=============================================================================
