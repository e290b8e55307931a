------------------------------ MODULE Lifecycle ------------------------------
(***************************************************************************)
(* Publishers of one service that start, stop, die and are replaced, and a *)
(* subscriber that finds them by two names: the socket of the FD sidecar   *)
(* (src/src/sidecar.cpp) and the shared-memory slot of the metadata        *)
(* channel (src/src/metadata_channel.cpp) or the iceoryx2 service of the   *)
(* same name (src/src/metadata_channel_iox2.cpp).                          *)
(*                                                                         *)
(* A publisher is a number, in the order in which they start; 0 is no      *)
(* publisher.  What a name refers to is the publisher that made it.  The   *)
(* system calls of create() and of the destructor are steps of their own,  *)
(* so an old publisher's end may fall into a new one's start.  Iceoryx2    *)
(* is external: it is modelled by what the code asks of it.                *)
(***************************************************************************)
EXTENDS Integers

CONSTANTS MaxPubs, MaxFrames, MaxGen  \* bounds on the publishers, their frames and generations

ASSUME LifecycleBounds == MaxPubs \in Nat /\ MaxFrames \in Nat /\ MaxGen \in Nat \ {0}

Pubs == 1..MaxPubs

VARIABLES
  iox,      \* both processes were built with iceoryx2 and may use it
  pc,       \* of each publisher: none, then its place in create(), live, its
            \* place in the destructor, gone
  socket,   \* it has a listening socket
  channel,  \* its metadata channel: none, slot or service
  sockName, shmName,  \* the publishers the two names refer to
  sized,    \* its slot has its full length and is initialised
  port,     \* the publisher that holds the service's only publisher port
  gen, frame,  \* the generation of its pool, and its last published frame
  sub,      \* the subscriber: where it is in wait_handshake(), the publisher
            \* connected to, and whether that has sent its pool
  pool,     \* the pool attached: publisher and generation
  meta,     \* the channel open: kind and publisher of the slot
  box, last, \* iceoryx2: the newest sample waiting, and last_ of the channel
  view,     \* the last view: publisher of the frame and publisher of the buffers
  overtaken, \* another publisher made its slot during some wait_handshake()
  overlapped \* a publisher started before the end of another

namesVars == <<sockName, shmName, sized, port, overlapped>>
pubVars == <<pc, socket, channel, gen, frame>>
subVars == <<sub, pool, meta, last, view, overtaken>>
vars == <<iox, namesVars, pubVars, subVars, box>>

NoFrame == [pub |-> 0, gen |-> 0, n |-> 0]
NoPool == [pub |-> 0, gen |-> 0]
NoMeta == [kind |-> "none", pub |-> 0]
NoView == [frame |-> 0, buffers |-> 0]
Idle == [pc |-> "idle", to |-> 0, sent |-> 0]

Alive(p) == pc[p] \notin {"none", "gone"}

Init ==
  /\ iox \in BOOLEAN
  /\ pc = [p \in Pubs |-> "none"] /\ socket = [p \in Pubs |-> FALSE]
  /\ channel = [p \in Pubs |-> "none"] /\ gen = [p \in Pubs |-> 1]
  /\ frame = [p \in Pubs |-> NoFrame]
  /\ sockName = 0 /\ shmName = 0 /\ sized = [p \in Pubs |-> FALSE] /\ port = 0
  /\ sub = Idle /\ pool = NoPool /\ meta = NoMeta /\ box = NoFrame /\ last = NoFrame
  /\ view = NoView /\ overtaken = FALSE /\ overlapped = FALSE

-----------------------------------------------------------------------------
(* TensorPublisher::create().                                              *)

At(p, from, to) == pc[p] = from /\ pc' = [pc EXCEPT ![p] = to]

\* SidecarServer::create(): the path is unlinked, whoever has it, then bound.
UnlinkSocket(p) ==
  /\ \A q \in Pubs : q < p => pc[q] # "none"
  /\ At(p, "none", "bind") /\ sockName' = 0
  /\ overlapped' = (overlapped \/ \E q \in Pubs : Alive(q))
  /\ UNCHANGED <<iox, socket, channel, gen, frame, shmName, sized, port, subVars, box>>

\* socket() may fail, and bind() does when the path has come back; ~SidecarServer
\* then unlinks the path, whoever has it.
BindSocket(p) ==
  /\ At(p, "bind", "channel")
  /\ \/ sockName = 0 /\ sockName' = p /\ socket' = [socket EXCEPT ![p] = TRUE]
     \/ sockName' = 0 /\ UNCHANGED socket
  /\ UNCHANGED <<iox, channel, gen, frame, shmName, sized, port, overlapped, subVars, box>>

\* MetadataChannel::create_publisher() with iceoryx2: the service allows one
\* publisher, and a failure falls back to the slot.
MakePort(p) ==
  /\ iox /\ port = 0
  /\ At(p, "channel", "check") /\ port' = p /\ channel' = [channel EXCEPT ![p] = "service"]
  /\ UNCHANGED <<iox, socket, gen, frame, sockName, shmName, sized, overlapped, subVars, box>>

UnlinkSlot(p) ==
  /\ ~iox \/ port # 0
  /\ At(p, "channel", "open") /\ shmName' = 0
  /\ UNCHANGED <<iox, socket, channel, gen, frame, sockName, sized, port, overlapped, subVars, box>>

\* shm_open(O_CREAT | O_EXCL); a failure unlinks the name all the same.
OpenSlot(p) ==
  /\ \/ /\ shmName = 0 /\ shmName' = p /\ At(p, "open", "size")
        /\ overtaken' = (overtaken \/ sub.to \notin {0, p})
     \/ /\ shmName' = 0 /\ At(p, "open", "check") /\ UNCHANGED overtaken
  /\ UNCHANGED <<iox, socket, channel, gen, frame, sockName, sized, port, overlapped,
                 sub, pool, meta, last, view, box>>

\* ftruncate(), mmap() and the first stores; on failure the name is unlinked.
SizeSlot(p) ==
  /\ At(p, "size", "check")
  /\ \/ /\ sized' = [sized EXCEPT ![p] = TRUE] /\ channel' = [channel EXCEPT ![p] = "slot"]
        /\ UNCHANGED shmName
     \/ shmName' = 0 /\ UNCHANGED <<sized, channel>>
  /\ UNCHANGED <<iox, socket, gen, frame, sockName, port, overlapped, subVars, box>>

\* Mutant of Complete: one of the two is enough.
CompleteWithEither(p) ==
  /\ At(p, "check", IF socket[p] \/ channel[p] # "none" THEN "live" ELSE "stop")
  /\ UNCHANGED <<iox, socket, channel, gen, frame, namesVars, subVars, box>>

\* Without socket or channel create() destroys what it has made.
Complete(p) ==
  /\ At(p, "check", IF socket[p] /\ channel[p] # "none" THEN "live" ELSE "stop")
  /\ UNCHANGED <<iox, socket, channel, gen, frame, namesVars, subVars, box>>

-----------------------------------------------------------------------------
(* The end of a publisher.                                                 *)

Stop(p) ==
  /\ At(p, "live", "stop")
  /\ UNCHANGED <<iox, socket, channel, gen, frame, namesVars, subVars, box>>

\* ~SidecarServer, where there is one, then ~MetadataChannel: each unlinks its name,
\* whoever has it by then.
CloseServer(p) ==
  /\ At(p, "stop", "close")
  /\ socket' = [socket EXCEPT ![p] = FALSE]
  /\ sockName' = IF socket[p] THEN 0 ELSE sockName
  /\ UNCHANGED <<iox, channel, gen, frame, shmName, sized, port, overlapped, subVars, box>>

CloseChannel(p) ==
  /\ At(p, "close", "gone")
  /\ shmName' = IF channel[p] = "slot" THEN 0 ELSE shmName
  /\ port' = IF channel[p] = "service" THEN 0 ELSE port
  /\ channel' = [channel EXCEPT ![p] = "none"]
  /\ UNCHANGED <<iox, socket, gen, frame, sockName, sized, overlapped, subVars, box>>

\* A crash leaves the names; the dead node's port is freed by the next open.
Crash(p) ==
  /\ Alive(p)
  /\ pc' = [pc EXCEPT ![p] = "gone"] /\ socket' = [socket EXCEPT ![p] = FALSE]
  /\ channel' = [channel EXCEPT ![p] = "none"] /\ port' = IF port = p THEN 0 ELSE port
  /\ UNCHANGED <<iox, gen, frame, sockName, shmName, sized, overlapped, subVars, box>>

-----------------------------------------------------------------------------
(* A live publisher.                                                       *)

\* handshake_pool(), or the end of publish(): the waiting subscriber gets the pool.
Accept(p) ==
  /\ pc[p] = "live" /\ sub.to = p /\ sub.pc = "pool" /\ sub.sent = 0
  /\ sub' = [sub EXCEPT !.sent = gen[p]]
  /\ UNCHANGED <<iox, namesVars, pubVars, pool, meta, last, view, overtaken, box>>

\* publish(): a loaned sample may be refused, and then the frame is dropped.
Publish(p) ==
  /\ pc[p] = "live" /\ frame[p].n < MaxFrames
  /\ frame' = [frame EXCEPT ![p] = [pub |-> p, gen |-> gen[p], n |-> @.n + 1]]
  /\ \/ meta.kind = "service" /\ channel[p] = "service" /\ box' = frame'[p]
     \/ UNCHANGED box
  /\ UNCHANGED <<iox, namesVars, pc, socket, channel, gen, subVars>>

Retire(p) ==
  /\ pc[p] = "live" /\ gen[p] < MaxGen
  /\ gen' = [gen EXCEPT ![p] = @ + 1]
  /\ UNCHANGED <<iox, namesVars, pc, socket, channel, frame, subVars, box>>

-----------------------------------------------------------------------------
(* The subscriber.                                                         *)

\* wait_handshake(): connect() needs a name and a listening socket behind it;
\* until its timeout it tries again, and then it changes nothing.
Connect ==
  /\ sub.pc = "idle" /\ sockName # 0 /\ socket[sockName]
  /\ sub' = [pc |-> "pool", to |-> sockName, sent |-> 0]
  /\ UNCHANGED <<iox, namesVars, pubVars, pool, meta, last, view, overtaken, box>>

\* Mutant of RecvPool: the first pool is kept.
RecvPoolOnce ==
  /\ sub.pc = "pool" /\ sub.sent # 0
  /\ sub' = [sub EXCEPT !.pc = "slot"]
  /\ IF pool = NoPool THEN pool' = [pub |-> sub.to, gen |-> sub.sent] ELSE UNCHANGED pool
  /\ view' = NoView
  /\ UNCHANGED <<iox, namesVars, pubVars, meta, last, overtaken, box>>

\* recv_pool_handshake() gets the pool, or fails (timeout, publisher gone).
RecvPool ==
  /\ sub.pc = "pool" /\ sub.sent # 0
  /\ sub' = [sub EXCEPT !.pc = "slot"]
  /\ pool' = [pub |-> sub.to, gen |-> sub.sent] /\ view' = NoView
  /\ UNCHANGED <<iox, namesVars, pubVars, meta, last, overtaken, box>>

RecvPoolFails ==
  /\ sub.pc = "pool" /\ sub.sent = 0
  /\ sub' = Idle
  /\ UNCHANGED <<iox, namesVars, pubVars, pool, meta, last, view, overtaken, box>>

\* Mutant of OpenChannel: a channel that is open is kept.
OpenChannelOnce ==
  /\ sub.pc = "slot" /\ sub' = Idle
  /\ IF meta.kind = "none" /\ ~iox /\ shmName # 0 /\ sized[shmName]
     THEN meta' = [kind |-> "slot", pub |-> shmName] ELSE UNCHANGED meta
  /\ UNCHANGED <<iox, namesVars, pubVars, pool, last, view, overtaken, box>>

\* create_subscriber(): the service can always be opened; the history of a live
\* publisher arrives with it.  A slot without its length cannot be mapped.
OpenChannel ==
  /\ sub.pc = "slot"
  /\ sub' = Idle /\ last' = NoFrame
  /\ IF iox
     THEN /\ meta' = [kind |-> "service", pub |-> 0]
          /\ box' = IF port = 0 THEN NoFrame ELSE frame[port]
     ELSE /\ box' = NoFrame
          /\ meta' = IF shmName # 0 /\ sized[shmName] THEN [kind |-> "slot", pub |-> shmName]
                     ELSE NoMeta
  /\ UNCHANGED <<iox, namesVars, pubVars, pool, view, overtaken>>

\* read_latest() of either channel, the test of the generation, and the view.
LatestFrame == CASE meta.kind = "slot" -> frame[meta.pub]
                 [] meta.kind = "service" -> IF box # NoFrame THEN box ELSE last
                 [] OTHER -> NoFrame

LatestView ==
  /\ sub.pc = "idle" /\ meta.kind # "none" /\ LatestFrame # NoFrame
  /\ last' = IF meta.kind = "service" THEN LatestFrame ELSE last
  /\ box' = NoFrame
  /\ view' = IF LatestFrame.gen = pool.gen
             THEN [frame |-> LatestFrame.pub, buffers |-> pool.pub] ELSE view
  /\ UNCHANGED <<iox, namesVars, pubVars, sub, pool, meta, overtaken>>

SubscriberNext == Connect \/ RecvPool \/ RecvPoolFails \/ OpenChannel \/ LatestView

Next ==
  \/ \E p \in Pubs :
       \/ UnlinkSocket(p) \/ BindSocket(p) \/ MakePort(p) \/ UnlinkSlot(p) \/ OpenSlot(p)
       \/ SizeSlot(p) \/ Complete(p) \/ Stop(p) \/ CloseServer(p) \/ CloseChannel(p)
       \/ Crash(p) \/ Accept(p) \/ Publish(p) \/ Retire(p)
  \/ SubscriberNext

Spec == Init /\ [][Next]_vars

\* A caller that has no view of a live publisher's buffers calls wait_handshake()
\* again and again; a live publisher answers and publishes.
Fairness ==
  /\ WF_vars(Connect) /\ WF_vars(RecvPool) /\ WF_vars(RecvPoolFails) /\ WF_vars(OpenChannel)
  /\ \A p \in Pubs : SF_vars(Accept(p))
FairSpec == Spec /\ Fairness

-----------------------------------------------------------------------------
(* Properties.                                                             *)

FrameRecords == [pub : 0..MaxPubs, gen : 0..MaxGen, n : 0..MaxFrames]
TypeOK ==
  /\ iox \in BOOLEAN /\ overtaken \in BOOLEAN /\ overlapped \in BOOLEAN
  /\ pc \in [Pubs -> {"none", "bind", "channel", "open", "size", "check", "live", "stop",
                      "close", "gone"}]
  /\ socket \in [Pubs -> BOOLEAN] /\ sized \in [Pubs -> BOOLEAN]
  /\ channel \in [Pubs -> {"none", "slot", "service"}]
  /\ gen \in [Pubs -> 1..MaxGen] /\ frame \in [Pubs -> FrameRecords]
  /\ sockName \in 0..MaxPubs /\ shmName \in 0..MaxPubs /\ port \in 0..MaxPubs
  /\ sub \in [pc : {"idle", "pool", "slot"}, to : 0..MaxPubs, sent : 0..MaxGen]
  /\ pool \in [pub : 0..MaxPubs, gen : 0..MaxGen]
  /\ meta \in [kind : {"none", "slot", "service"}, pub : 0..MaxPubs]
  /\ box \in FrameRecords /\ last \in FrameRecords
  /\ view \in [frame : 0..MaxPubs, buffers : 0..MaxPubs]

\* While each publisher starts after the end of the one before, crashed or not, a
\* live one has both its names, whatever its predecessors left behind.
LivePublisherIsNamed ==
  \A p \in Pubs : pc[p] = "live" /\ ~overlapped =>
    /\ sockName = p
    /\ channel[p] = "slot" => shmName = p

\* A frame is looked up in the buffers of the publisher that sent it, unless two
\* publishers ran at once, one made its slot in the middle of the handshake, or the
\* service passed on to a newer one whose pool has the same generation number.
ViewsMatchPool ==
  view.frame # view.buffers =>
    overtaken \/ overlapped \/ (meta.kind = "service" /\ view.frame > view.buffers)

\* Newer or not, frames of one publisher are never looked up in another's buffers.
ViewsOfOnePublisher == view.frame = view.buffers

\* The newest publisher keeps its names, even when an older one ends after its start.
NewestKeepsItsNames ==
  \A p \in Pubs : pc[p] = "live" /\ (\A q \in Pubs : q > p => pc[q] = "none")
                   /\ (\A q \in Pubs : q < p => pc[q] \in {"live", "stop", "close", "gone"}) =>
    sockName = p

\* A publisher that stays, named by its socket, gets its pool to a subscriber
\* that keeps asking.
SubscriberAttaches ==
  \A p \in Pubs : <>[](pc[p] = "live" /\ sockName = p) ~> pool.pub = p
=============================================================================
