---------------------------- MODULE FenceStream -----------------------------
(***************************************************************************)
(* Fence-gated frames: TensorPublisher::publish() sends a frame's sync     *)
(* fence over the sidecar sockets before it stores the descriptor, and a   *)
(* subscriber hands the frame out only with its fence, which drain_fences()*)
(* has moved from the socket to the fence ring (src/src/publisher.cpp,     *)
(* sidecar.cpp, subscriber.cpp).                                           *)
(*                                                                         *)
(* One publisher; consumers connect, attach, drain, view, reconnect and    *)
(* exit at any time.  Each connect() makes a new connection: a bounded     *)
(* queue of messages that the server first holds in its backlog.  A frame  *)
(* is its seqno, and the caller uses it as the fence token; a message is   *)
(* that token, or PoolMsg for a pool handshake.  The descriptor slot is    *)
(* atomic (module Seqlock).  Buffers and pool generations are left out.    *)
(***************************************************************************)
EXTENDS Naturals, Sequences, SequencesExt

CONSTANTS Consumers,
          MaxFrame,  \* bound on the publishes
          MaxConn,   \* bound on the connections ever made
          SockCap,   \* messages a socket holds before sendmsg() blocks
          RingSize   \* kFenceRing

ASSUME BoundsAreNat == MaxFrame \in Nat /\ MaxConn \in Nat
ASSUME SockCapPositive == SockCap \in Nat \ {0}
ASSUME RingSizeAtLeastTwo == RingSize \in Nat /\ RingSize >= 2

VARIABLES
  seqno,     \* TensorPublisher's seqno: the last frame whose publish() began
  frame,     \* the descriptor in the slot: its frame, 0 before the first ...
  gated,     \* ... and whether it names a fence
  ppc,       \* where the publisher is
  gating,    \* the descriptor being published names a fence
  pos,       \* the loop variable of a broadcast, an index of clients
  clients,   \* SidecarServer::clients, in order of acceptance
  backlog,   \* connections not yet accepted
  queue,     \* queue[k]: what connection k's consumer has not received yet
  open,      \* connections whose consumer end is open
  since,     \* history: since[k] = seqno when k was accepted
  conns,     \* number of connections made
  conn,      \* conn[c]: the consumer's socket, 0 for none
  attached,  \* consumers with a pool and a metadata channel
  cpc,       \* where the consumer is
  ring,      \* ring[c]: the fence ring; a token, or 0 for fd = -1
  ringNext,  \* fence_next
  fds,       \* fds[c]: fences whose file descriptor is open in c's process
  view       \* view[c]: the frame last handed out fresh, with its fence or 0

pubVars == <<seqno, frame, gated, ppc, gating, pos>>
sockVars == <<clients, backlog, queue, open, since, conns>>
consVars == <<conn, attached, cpc, ring, ringNext, fds, view>>
vars == <<pubVars, sockVars, consVars>>

Frames == 0..MaxFrame
Conns == 1..MaxConn
PoolMsg == 0
EmptyRing == [i \in 0..(RingSize - 1) |-> 0]
NoView == [frame |-> 0, fence |-> 0]
RingTokens(c) == {ring[c][i] : i \in 0..(RingSize - 1)} \ {0}
Clients == ToSet(clients)

TypeOK ==
  /\ seqno \in Frames /\ frame \in Frames /\ gated \in BOOLEAN /\ gating \in BOOLEAN
  /\ ppc \in {"idle", "sendFence", "store", "accept", "sendPool"}
  /\ pos \in 1..(MaxConn + 1)
  /\ clients \in Seq(Conns) /\ backlog \in Seq(Conns)
  /\ queue \in [Conns -> Seq(Frames)]
  /\ \A k \in Conns : Len(queue[k]) =< SockCap
  /\ open \subseteq Conns
  /\ since \in [Conns -> Frames]
  /\ conns \in 0..MaxConn
  /\ conn \in [Consumers -> 0..MaxConn]
  /\ attached \subseteq Consumers
  /\ cpc \in [Consumers -> {"idle", "await", "drain"}]
  /\ ring \in [Consumers -> [0..(RingSize - 1) -> Frames]]
  /\ ringNext \in [Consumers -> 0..(RingSize - 1)]
  /\ fds \in [Consumers -> SUBSET Frames]
  /\ view \in [Consumers -> [frame : Frames, fence : Frames]]

Init ==
  /\ seqno = 0 /\ frame = 0 /\ gated = FALSE /\ gating = FALSE
  /\ ppc = "idle" /\ pos = 1
  /\ clients = <<>> /\ backlog = <<>>
  /\ queue = [k \in Conns |-> <<>>]
  /\ open = {} /\ since = [k \in Conns |-> 0] /\ conns = 0
  /\ conn = [c \in Consumers |-> 0] /\ attached = {}
  /\ cpc = [c \in Consumers |-> "idle"]
  /\ ring = [c \in Consumers |-> EmptyRing]
  /\ ringNext = [c \in Consumers |-> 0]
  /\ fds = [c \in Consumers |-> {}]
  /\ view = [c \in Consumers |-> NoView]

-----------------------------------------------------------------------------
(* The publisher's thread                                                  *)

\* publish(): the descriptor is accepted and stamped; sync_fd and
\* sync_fence_kind say whether there is a fence to send first.
BeginPublish(fence) ==
  /\ ppc = "idle" /\ seqno < MaxFrame
  /\ seqno' = seqno + 1
  /\ gating' = fence
  /\ ppc' = IF fence THEN "sendFence" ELSE "store"
  /\ pos' = 1
  /\ UNCHANGED <<frame, gated, sockVars, consVars>>

\* Mutant of SendTo: sendmsg() with MSG_DONTWAIT, its EAGAIN ignored.
SendToOrDrop(k, message) ==
  queue' = IF k \in open /\ Len(queue[k]) < SockCap
           THEN [queue EXCEPT ![k] = Append(@, message)]
           ELSE queue

\* Mutant of SendTo: a closed peer is not noticed.
SendToPeerIgnored(k, message) ==
  /\ Len(queue[k]) < SockCap
  /\ queue' = [queue EXCEPT ![k] = Append(@, message)]

\* send_fds() to clients[pos]: blocks while the socket is full, fails at once
\* (EPIPE) when the consumer has closed it; either way the loop goes on.
SendTo(k, message) ==
  IF k \in open
  THEN /\ Len(queue[k]) < SockCap
       /\ queue' = [queue EXCEPT ![k] = Append(@, message)]
  ELSE queue' = queue

\* Mutant of SendFence: a send that succeeded may be retried.
SendFenceRetried ==
  /\ ppc = "sendFence" /\ pos =< Len(clients)
  /\ SendTo(clients[pos], seqno)
  /\ pos' \in {pos, pos + 1}
  /\ UNCHANGED <<seqno, frame, gated, ppc, gating,
                 clients, backlog, open, since, conns, consVars>>

\* broadcast_sync_fence()
SendFence ==
  /\ ppc = "sendFence" /\ pos =< Len(clients)
  /\ SendTo(clients[pos], seqno)
  /\ pos' = pos + 1
  /\ UNCHANGED <<seqno, frame, gated, ppc, gating,
                 clients, backlog, open, since, conns, consVars>>

SendFenceDone ==
  /\ ppc = "sendFence" /\ pos > Len(clients)
  /\ ppc' = "store"
  /\ UNCHANGED <<seqno, frame, gated, gating, pos, sockVars, consVars>>

\* meta->publish(*desc), after which accept_and_handshake(0) begins.
StoreDescriptor ==
  /\ ppc = "store"
  /\ frame' = seqno /\ gated' = gating
  /\ ppc' = "accept"
  /\ UNCHANGED <<seqno, gating, pos, sockVars, consVars>>

\* handshake_pool()
HandshakePool ==
  /\ ppc = "idle"
  /\ ppc' = "accept"
  /\ UNCHANGED <<seqno, frame, gated, gating, pos, sockVars, consVars>>

\* accept_and_handshake(): accept, send the pool, remember the client.  A
\* consumer that is already gone ends the call with -1.
Accept ==
  /\ ppc = "accept" /\ backlog # <<>>
  /\ backlog' = Tail(backlog)
  /\ LET k == Head(backlog) IN
       IF k \in open
       THEN /\ queue' = [queue EXCEPT ![k] = <<PoolMsg>>]
            /\ clients' = Append(clients, k)
            /\ since' = [since EXCEPT ![k] = seqno]
            /\ ppc' = ppc
       ELSE /\ ppc' = "idle"
            /\ UNCHANGED <<queue, clients, since>>
  /\ UNCHANGED <<seqno, frame, gated, gating, pos, open, conns, consVars>>

AcceptDone ==
  /\ ppc = "accept" /\ backlog = <<>>
  /\ ppc' = "idle"
  /\ UNCHANGED <<seqno, frame, gated, gating, pos, sockVars, consVars>>

\* reannounce_pool(): the pool again to every client, then accept.
Reannounce ==
  /\ ppc = "idle"
  /\ ppc' = "sendPool" /\ pos' = 1
  /\ UNCHANGED <<seqno, frame, gated, gating, sockVars, consVars>>

SendPool ==
  /\ ppc = "sendPool" /\ pos =< Len(clients)
  /\ SendTo(clients[pos], PoolMsg)
  /\ pos' = pos + 1
  /\ UNCHANGED <<seqno, frame, gated, ppc, gating,
                 clients, backlog, open, since, conns, consVars>>

SendPoolDone ==
  /\ ppc = "sendPool" /\ pos > Len(clients)
  /\ ppc' = "accept"
  /\ UNCHANGED <<seqno, frame, gated, gating, pos, sockVars, consVars>>

-----------------------------------------------------------------------------
(* A consumer's thread                                                     *)

\* The consumer's end of its connection closes; what it had not received is lost.
Hangup(c) ==
  /\ open' = open \ {conn[c]}
  /\ queue' = [k \in Conns |-> IF k = conn[c] THEN <<>> ELSE queue[k]]

\* wait_handshake(): connect() succeeds and drops the link it replaces.
Connect(c) ==
  /\ cpc[c] = "idle" /\ conns < MaxConn
  /\ conns' = conns + 1
  /\ conn' = [conn EXCEPT ![c] = conns']
  /\ open' = (open \ {conn[c]}) \cup {conns'}
  /\ queue' = [k \in Conns |-> IF k = conn[c] THEN <<>> ELSE queue[k]]
  /\ backlog' = Append(backlog, conns')
  /\ cpc' = [cpc EXCEPT ![c] = "await"]
  /\ UNCHANGED <<pubVars, clients, since, attached, ring, ringNext, fds, view>>

\* wait_handshake(): the pool arrives; detach() closes the fences of the old
\* one, and the metadata channel is opened.
Attach(c) ==
  /\ cpc[c] = "await" /\ queue[conn[c]] # <<>>
  /\ queue' = [queue EXCEPT ![conn[c]] = Tail(@)]
  /\ attached' = attached \cup {c}
  /\ cpc' = [cpc EXCEPT ![c] = "idle"]
  /\ fds' = [fds EXCEPT ![c] = @ \ RingTokens(c)]
  /\ ring' = [ring EXCEPT ![c] = EmptyRing]
  /\ ringNext' = [ringNext EXCEPT ![c] = 0]
  /\ view' = [view EXCEPT ![c] = NoView]
  /\ UNCHANGED <<pubVars, clients, backlog, open, since, conns, conn>>

\* wait_handshake() gives up; the new link stays, and so does the old pool.
HandshakeTimeout(c) ==
  /\ cpc[c] = "await" /\ queue[conn[c]] = <<>>
  /\ cpc' = [cpc EXCEPT ![c] = "idle"]
  /\ UNCHANGED <<pubVars, sockVars, conn, attached, ring, ringNext, fds, view>>

\* drain_fences()
DrainBegin(c) ==
  /\ cpc[c] = "idle" /\ conn[c] # 0 /\ queue[conn[c]] # <<>>
  /\ cpc' = [cpc EXCEPT ![c] = "drain"]
  /\ UNCHANGED <<pubVars, sockVars, conn, attached, ring, ringNext, fds, view>>

\* Mutants of StoreFence: the superseded descriptor is not closed; the index does
\* not move.
StoreFenceUnclosed(c, token) ==
  /\ fds' = [fds EXCEPT ![c] = @ \cup {token}]
  /\ ring' = [ring EXCEPT ![c][ringNext[c]] = token]
  /\ ringNext' = [ringNext EXCEPT ![c] = (@ + 1) % RingSize]
StoreFenceInPlace(c, token) ==
  LET i == ringNext[c] IN
    /\ fds' = [fds EXCEPT ![c] = (@ \ {ring[c][i]}) \cup {token}]
    /\ ring' = [ring EXCEPT ![c][i] = token]
    /\ ringNext' = ringNext

\* store_fence(): evict the superseded fence, then take its slot.
StoreFence(c, token) ==
  LET i == ringNext[c] IN
    /\ fds' = [fds EXCEPT ![c] = (@ \ {ring[c][i]}) \cup {token}]
    /\ ring' = [ring EXCEPT ![c][i] = token]
    /\ ringNext' = [ringNext EXCEPT ![c] = (i + 1) % RingSize]

\* Mutant of DrainOne: a re-announced pool closes the fences, as detach() does.
DrainOneDetaching(c) ==
  /\ cpc[c] = "drain" /\ queue[conn[c]] # <<>>
  /\ queue' = [queue EXCEPT ![conn[c]] = Tail(@)]
  /\ IF Head(queue[conn[c]]) = PoolMsg
     THEN /\ fds' = [fds EXCEPT ![c] = {}]
          /\ ring' = [ring EXCEPT ![c] = EmptyRing]
          /\ ringNext' = [ringNext EXCEPT ![c] = 0]
     ELSE StoreFence(c, Head(queue[conn[c]]))
  /\ UNCHANGED <<pubVars, clients, backlog, open, since, conns, conn, attached, cpc, view>>

\* poll_sync_fences(): one message; a re-announced pool is discarded.
DrainOne(c) ==
  /\ cpc[c] = "drain" /\ queue[conn[c]] # <<>>
  /\ queue' = [queue EXCEPT ![conn[c]] = Tail(@)]
  /\ IF Head(queue[conn[c]]) = PoolMsg
     THEN UNCHANGED <<ring, ringNext, fds>>
     ELSE StoreFence(c, Head(queue[conn[c]]))
  /\ UNCHANGED <<pubVars, clients, backlog, open, since, conns, conn, attached, cpc, view>>

DrainEnd(c) ==
  /\ cpc[c] = "drain" /\ queue[conn[c]] = <<>>
  /\ cpc' = [cpc EXCEPT ![c] = "idle"]
  /\ UNCHANGED <<pubVars, sockVars, conn, attached, ring, ringNext, fds, view>>

\* latest_view() hands out a fresh frame: not gated, or its fence is in the
\* ring.  (Its fallback changes nothing here.)
HandOut(c) ==
  /\ cpc[c] = "idle" /\ c \in attached /\ frame > 0
  /\ gated => frame \in RingTokens(c)
  /\ view' = [view EXCEPT ![c] = [frame |-> frame, fence |-> IF gated THEN frame ELSE 0]]
  /\ UNCHANGED <<pubVars, sockVars, conn, attached, cpc, ring, ringNext, fds>>

\* The consumer process exits or dies; the kernel closes all it had open.
Exit(c) ==
  /\ conn[c] # 0
  /\ Hangup(c)
  /\ conn' = [conn EXCEPT ![c] = 0]
  /\ attached' = attached \ {c}
  /\ cpc' = [cpc EXCEPT ![c] = "idle"]
  /\ ring' = [ring EXCEPT ![c] = EmptyRing]
  /\ ringNext' = [ringNext EXCEPT ![c] = 0]
  /\ fds' = [fds EXCEPT ![c] = {}]
  /\ view' = [view EXCEPT ![c] = NoView]
  /\ UNCHANGED <<pubVars, clients, backlog, since, conns>>

-----------------------------------------------------------------------------
RunPublisher == \/ SendFence \/ SendFenceDone \/ StoreDescriptor
                \/ Accept \/ AcceptDone \/ SendPool \/ SendPoolDone
RunDrain(c) == DrainBegin(c) \/ DrainOne(c) \/ DrainEnd(c)
RunHandshake(c) == Attach(c) \/ HandshakeTimeout(c)

Next == \/ \E fence \in BOOLEAN : BeginPublish(fence)
        \/ HandshakePool \/ Reannounce \/ RunPublisher
        \/ \E c \in Consumers : \/ Connect(c) \/ RunHandshake(c)
                                \/ RunDrain(c) \/ HandOut(c) \/ Exit(c)

Spec == Init /\ [][Next]_vars

\* The publisher's thread runs on whenever sendmsg() lets it; nothing is asked
\* of the consumers.
PublisherFair == Spec /\ WF_vars(RunPublisher)

\* Consumers that also call drain_fences() and latest_view() on every tick of
\* their loop.
TickingFair ==
  /\ PublisherFair
  /\ \A c \in Consumers : /\ WF_vars(RunDrain(c)) /\ WF_vars(RunHandshake(c))
                          /\ SF_vars(HandOut(c) /\ view' # view)

-----------------------------------------------------------------------------
(* Properties                                                              *)

\* The file descriptors a consumer holds for fences are exactly those of its
\* ring: eviction and detach() close each once and leak none.
NoFenceLeak == \A c \in Consumers : fds[c] = RingTokens(c)

\* "a consumer that reads the new seqno can already find the fence"
\* (publisher.cpp), for a consumer accepted before that frame: as long as the
\* frame is the newest, its fence is in the consumer's socket or ring.  The
\* ring never evicts it first: at most one newer fence exists.
FenceReachable ==
  \A c \in Consumers :
    /\ c \in attached /\ gated /\ cpc[c] # "await"
    /\ conn[c] \in Clients /\ since[conn[c]] < frame
    => frame \in ToSet(queue[conn[c]]) \cup RingTokens(c)

\* A view's borrowed sync_fd stays open until RingSize newer fences have been
\* drained: "borrowed; owned by the fence ring".
BorrowedFenceOpen ==
  \A c \in Consumers : view[c].fence > 0 =>
    \/ view[c].fence \in fds[c]
    \/ \E t \in RingTokens(c) : t >= view[c].fence + RingSize

\* A consumer's fences reach it in the order of the frames, and each once: what a
\* socket still holds is newer than what came before it and than the ring.
FencesInOrder ==
  \A c \in Consumers : conn[c] # 0 =>
    LET sent == queue[conn[c]]
    IN \A i \in 1..Len(sent) : sent[i] # PoolMsg =>
         /\ \A j \in 1..(i - 1) : sent[j] < sent[i]
         /\ \A t \in RingTokens(c) : t < sent[i]

\* With consumers that keep draining or hang up, every publish() and every
\* reannounce_pool() returns.
PublisherReturns == ppc # "idle" ~> ppc = "idle"

\* A consumer accepted before a frame, and still there, is handed that frame
\* or a newer one in the end.  The publisher must stop re-announcing its pool:
\* drain_fences() loops for as long as messages arrive.
Served(c, f) == c \in attached /\ cpc[c] # "await" /\ conn[c] \in Clients /\ since[conn[c]] < f
FrameReachesClient ==
  <>[](ppc # "sendPool") =>
    \A c \in Consumers, f \in 1..MaxFrame :
      (Served(c, f) /\ frame = f) ~> (view[c].frame >= f \/ ~Served(c, f))

\* usage.md: "the producer is wait-free (it never blocks on a slow consumer)":
\* the fence broadcast of a publish() ends, whatever the consumers do.
PublishNeverBlocks == ppc = "sendFence" ~> ppc # "sendFence"

\* FenceReachable as the comment states it, for every attached consumer.
FenceReachableByAll ==
  \A c \in attached : gated /\ cpc[c] # "await" =>
    frame \in ToSet(queue[conn[c]]) \cup RingTokens(c)
=============================================================================
