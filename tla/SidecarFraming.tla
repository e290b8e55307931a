---------------------------- MODULE SidecarFraming ----------------------------
(***************************************************************************)
(* The messages of the FD sidecar on their stream socket                   *)
(* (src/src/sidecar.cpp).  A fence is a 16-byte header with one descriptor, *)
(* a pool handshake a 24-byte header with the descriptors of the pool and,  *)
(* for some backends, an import blob sent after it; nothing but their      *)
(* lengths separates them.  The stream is modelled in 8-byte units, and    *)
(* recvmsg() as Linux does it: it takes what there is, up to the length     *)
(* asked for, receives descriptors with the first unit of the write they   *)
(* came with, and stops at the end of such a write.                        *)
(*                                                                         *)
(* One consumer, which may give up a handshake, connect again and drain;   *)
(* the descriptors of a message are one thing, its number.  Bounded        *)
(* sockets and many consumers are in FenceStream.                          *)
(***************************************************************************)
EXTENDS Integers, Sequences, SequencesExt, FiniteSetsExt

CONSTANTS BlobLen,   \* units of a pool's import blob
          MaxExt,    \* kMaxHandshakeExt
          MaxFds,    \* kMaxSidecarFds
          Pools,     \* [buffers, blob]: the pools the server is given
          MaxMsgs    \* bound on the messages

ASSUME FramingBounds == BlobLen \in Nat /\ MaxExt \in Nat /\ MaxFds \in Nat /\ MaxMsgs \in Nat
ASSUME PoolsHaveLengths == Pools \subseteq [buffers : Nat, blob : Nat]

VARIABLES
  up,       \* the server process runs
  pool,     \* cached bundle: number of FDs, length of the blob
  sending,  \* blob units of the message in progress that are still to be sent
  sent,     \* messages begun
  link,     \* the consumer's socket: none, pending, open, shut (no more data)
  stream,   \* units in it
  pc,       \* the consumer: idle, hello and blob (handshake), poll and skip (drain)
  hand,     \* the message in hand: header, descriptors, blob units to come and got
  attached, \* the pool it is attached to, as the handshake that brought it
  cut,      \* a handshake was given up inside its blob on this socket
  leaked,   \* descriptors received that nothing will close
  misparsed \* a fence was passed on with another's token or descriptor

serverVars == <<up, pool, sending, sent>>
vars == <<serverVars, link, stream, pc, hand, attached, cut, leaked, misparsed>>

NoMsg == [msg |-> 0, fds |-> {}, left |-> 0, blob |-> {}]
Tags == {"fence", "pool", "other"}
HeaderLen(kind) == IF kind = "fence" THEN 2 ELSE 3

\* The first byte of a message is its tag; what other bytes look like is anything.
Header(kind, m, ext) ==
  [i \in 1..HeaderLen(kind) |->
     [msg |-> m, kind |-> kind, pos |-> i, last |-> i = HeaderLen(kind), ext |-> ext,
      tag |-> IF i = 1 THEN kind ELSE "other"]]
BlobUnit(m, tag) == [msg |-> m, kind |-> "blob", pos |-> 0, last |-> FALSE, ext |-> 0, tag |-> tag]

Init ==
  /\ up = TRUE /\ pool \in {p \in Pools : p.blob <= MaxExt} /\ sending = 0 /\ sent = 0
  /\ link = "none" /\ stream = <<>> /\ pc = "idle" /\ hand = NoMsg /\ attached = NoMsg
  /\ cut = FALSE /\ leaked = {} /\ misparsed = FALSE

-----------------------------------------------------------------------------
(* The server, one thread: a call ends before the next begins.             *)

clientVars == <<pc, hand, attached, cut, leaked, misparsed>>

\* set_pool(): a blob that the 16-bit length cannot carry is not sent.
SetPool ==
  /\ up /\ sending = 0
  /\ \E p \in Pools : pool' = [p EXCEPT !.blob = IF @ <= MaxExt THEN @ ELSE 0]
  /\ UNCHANGED <<up, sending, sent, link, stream, clientVars>>

\* send_pool_to(): send_fds() of the header, which refuses too many descriptors.
\* A peer that has gone makes the sends fail and changes nothing.
Send(kind, ext) ==
  /\ sent < MaxMsgs
  /\ sent' = sent + 1
  /\ stream' = stream \o Header(kind, sent + 1, ext)
  /\ sending' = ext

\* accept_and_handshake(): a connection that cannot be sent the pool is closed.
Accept ==
  /\ up /\ sending = 0 /\ link = "pending"
  /\ IF pool.buffers > MaxFds
     THEN link' = "shut" /\ UNCHANGED <<sending, sent, stream>>
     ELSE link' = "open" /\ Send("pool", pool.blob)
  /\ UNCHANGED <<up, pool, clientVars>>

BroadcastPool ==
  /\ up /\ sending = 0 /\ link = "open" /\ pool.buffers <= MaxFds
  /\ Send("pool", pool.blob)
  /\ UNCHANGED <<up, pool, link, clientVars>>

\* Mutant of BroadcastFence: another thread may send while a blob is on its way.
BroadcastFenceAmid ==
  /\ up /\ link = "open" /\ sent < MaxMsgs /\ sent' = sent + 1
  /\ stream' = stream \o Header("fence", sent + 1, 0)
  /\ UNCHANGED <<up, pool, sending, link, clientVars>>

BroadcastFence ==
  /\ up /\ sending = 0 /\ link = "open"
  /\ Send("fence", 0)
  /\ UNCHANGED <<up, pool, link, clientVars>>

\* The blob follows the header, in as many pieces as the socket takes.
SendBlob ==
  /\ up /\ sending > 0
  /\ sending' = sending - 1
  /\ IF link = "open" THEN \E t \in Tags : stream' = Append(stream, BlobUnit(sent, t))
                      ELSE UNCHANGED stream
  /\ UNCHANGED <<up, pool, sent, link, clientVars>>

\* The server's process dies: what it has sent can still be read.
Crash ==
  /\ up
  /\ up' = FALSE /\ sending' = 0
  /\ link' = IF link = "none" THEN link ELSE "shut"
  /\ UNCHANGED <<pool, sent, stream, clientVars>>

-----------------------------------------------------------------------------
(* What the consumer's recvmsg(len) takes from the stream.                 *)

Taken(len) ==
  Min({len, Len(stream)} \cup {i \in 1..Len(stream) : stream[i].last})
FdsIn(n) == {stream[i].msg : i \in {j \in 1..n : stream[j].pos = 1}}
Rest(n) == SubSeq(stream, n + 1, Len(stream))

\* A short read fails with EPROTO, and with it go the descriptors it received.
ShortRead(len) ==
  /\ Taken(len) < len
  /\ stream' = Rest(Taken(len))
  /\ leaked' = leaked \cup FdsIn(Taken(len))

-----------------------------------------------------------------------------
(* wait_handshake(): connect(), then recv_pool_handshake().                *)

\* Mutant of Connect: what is left on the old socket is read on the new one.
ConnectReusing ==
  /\ up /\ pc = "idle"
  /\ link' = "pending" /\ cut' = FALSE
  /\ pc' = "hello" /\ hand' = NoMsg
  /\ leaked' = {} /\ misparsed' = FALSE
  /\ UNCHANGED <<serverVars, stream, attached>>

\* A failed connect() changes nothing; otherwise the old link is dropped, and
\* the history is that of the new one.
Connect ==
  /\ up /\ pc = "idle"
  /\ link' = "pending" /\ stream' = <<>> /\ cut' = FALSE
  /\ pc' = "hello" /\ hand' = NoMsg
  /\ leaked' = {} /\ misparsed' = FALSE
  /\ UNCHANGED <<serverVars, attached>>

GiveUp == pc' = "idle" /\ hand' = NoMsg

HandshakeTimeout ==
  /\ pc = "hello" /\ stream = <<>>
  /\ GiveUp
  /\ UNCHANGED <<serverVars, link, stream, attached, cut, leaked, misparsed>>

RecvHeader ==
  /\ pc = "hello" /\ (stream # <<>> \/ link = "shut")
  /\ \/ ShortRead(HeaderLen("pool")) /\ GiveUp
     \/ LET n == HeaderLen("pool") IN
        /\ Taken(n) = n
        /\ stream' = Rest(n) /\ UNCHANGED leaked
        /\ IF stream[1].tag = "pool"
           THEN /\ pc' = "blob"
                /\ hand' = [msg |-> stream[1].msg, fds |-> FdsIn(n),
                            left |-> stream[1].ext, blob |-> {}]
           ELSE GiveUp
  /\ UNCHANGED <<serverVars, link, attached, cut, misparsed>>

\* read_exact() of the blob, unit by unit.
RecvBlob ==
  /\ pc = "blob" /\ hand.left > 0 /\ stream # <<>>
  /\ hand' = [hand EXCEPT !.left = @ - 1, !.blob = @ \cup {Head(stream).msg}]
  /\ stream' = Tail(stream)
  /\ UNCHANGED <<serverVars, link, pc, attached, cut, leaked, misparsed>>

\* It times out, or the server is gone: the descriptors are closed, and the
\* socket is left where it is.
BlobTimeout ==
  /\ pc = "blob" /\ hand.left > 0 /\ stream = <<>>
  /\ GiveUp /\ cut' = TRUE
  /\ UNCHANGED <<serverVars, link, stream, attached, leaked, misparsed>>

Attach ==
  /\ pc = "blob" /\ hand.left = 0
  /\ attached' = hand /\ GiveUp
  /\ UNCHANGED <<serverVars, link, stream, cut, leaked, misparsed>>

-----------------------------------------------------------------------------
(* poll_sync_fences().                                                     *)

DrainBegin ==
  /\ pc = "idle" /\ link # "none" /\ pc' = "poll"
  /\ UNCHANGED <<serverVars, link, stream, hand, attached, cut, leaked, misparsed>>

DrainEnd ==
  /\ pc = "poll" /\ stream = <<>> /\ pc' = "idle"
  /\ UNCHANGED <<serverVars, link, stream, hand, attached, cut, leaked, misparsed>>

\* One message by the tag it seems to have; what is no header tells any ext_len.
DrainMessage ==
  /\ pc = "poll" /\ stream # <<>>
  /\ LET first == Head(stream)
         n == HeaderLen(first.tag)
     IN \/ ShortRead(n) /\ GiveUp /\ UNCHANGED misparsed
        \/ /\ Taken(n) = n
           /\ stream' = Rest(n) /\ UNCHANGED leaked
           /\ IF first.tag = "pool"
              THEN /\ \E ext \in IF first.pos = 1 THEN {first.ext} ELSE {0, BlobLen} :
                        hand' = [msg |-> first.msg, fds |-> FdsIn(n), left |-> ext,
                                 blob |-> {}]
                   /\ pc' = "skip" /\ UNCHANGED misparsed
              ELSE /\ UNCHANGED <<pc, hand>>
                   /\ misparsed' = (misparsed \/
                        (first.tag = "fence" /\ FdsIn(n) # {} /\
                         (first.pos # 1 \/ FdsIn(n) # {first.msg})))
  /\ UNCHANGED <<serverVars, link, attached, cut>>

SkipBlob ==
  /\ pc = "skip" /\ hand.left > 0 /\ stream # <<>>
  /\ hand' = [hand EXCEPT !.left = @ - 1]
  /\ stream' = Tail(stream)
  /\ UNCHANGED <<serverVars, link, pc, attached, cut, leaked, misparsed>>

Skipped ==
  /\ pc = "skip" /\ hand.left = 0
  /\ pc' = "poll" /\ hand' = NoMsg
  /\ UNCHANGED <<serverVars, link, stream, attached, cut, leaked, misparsed>>

\* Mutant of SkipTimeout: the socket stays open.
SkipTimeoutOpen ==
  /\ pc = "skip" /\ hand.left > 0 /\ stream = <<>>
  /\ GiveUp
  /\ UNCHANGED <<serverVars, link, stream, attached, cut, leaked, misparsed>>

\* The blob does not come within 100 ms: shutdown(), which ends the stream.
SkipTimeout ==
  /\ pc = "skip" /\ hand.left > 0 /\ stream = <<>>
  /\ link' = "shut" /\ GiveUp
  /\ UNCHANGED <<serverVars, stream, attached, cut, leaked, misparsed>>

Next ==
  \/ SetPool \/ Accept \/ BroadcastPool \/ BroadcastFence \/ SendBlob \/ Crash
  \/ Connect \/ HandshakeTimeout \/ RecvHeader \/ RecvBlob \/ BlobTimeout \/ Attach
  \/ DrainBegin \/ DrainEnd \/ DrainMessage \/ SkipBlob \/ Skipped \/ SkipTimeout

Spec == Init /\ [][Next]_vars

-----------------------------------------------------------------------------
(* Properties.                                                             *)

Units == [msg : Nat, kind : {"fence", "pool", "blob"}, pos : Nat, last : BOOLEAN, ext : Nat,
          tag : Tags]
Messages == [msg : Nat, fds : SUBSET Nat, left : Nat, blob : SUBSET Nat]
TypeOK ==
  /\ up \in BOOLEAN /\ pool \in [buffers : Nat, blob : Nat] /\ sending \in Nat /\ sent \in Nat
  /\ link \in {"none", "pending", "open", "shut"} /\ stream \in Seq(Units)
  /\ pc \in {"idle", "hello", "blob", "poll", "skip"}
  /\ hand \in Messages /\ attached \in Messages
  /\ cut \in BOOLEAN /\ leaked \subseteq Nat /\ misparsed \in BOOLEAN

\* Between two messages the stream is at the start of one, unless a handshake
\* was given up inside its blob on this socket: a blob that comes late, a pool
\* re-announced amid fences or a dead server do not shift it.
StreamStaysFramed ==
  pc \in {"idle", "hello", "poll"} /\ ~cut /\ stream # <<>> => Head(stream).pos = 1

\* Then every fence that is passed on has its own token and its own descriptor,
\* and no descriptor is lost in a read that fails.
FencesAreTrue == misparsed \/ leaked # {} => cut

\* A pool is attached whole: header, descriptors and blob are of one message,
\* however many connections were given up before.
AttachedWhole == attached.fds \cup attached.blob \subseteq {attached.msg}
=============================================================================
