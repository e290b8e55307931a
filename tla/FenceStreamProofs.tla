-------------------------- MODULE FenceStreamProofs --------------------------
(* Proofs about module FenceStream, for every set of consumers, every size  *)
(* of socket and ring, and every number of frames and connections.          *)
EXTENDS FenceStream, SequenceTheorems, TLAPS

-----------------------------------------------------------------------------
(* The inductive invariants.                                                *)

\* Connections are numbered as they are made, and each is one consumer's, in the
\* backlog or among the clients at most once.  A consumer that is waiting or
\* draining has one, and it is open.
LinkInv ==
  /\ \A k \in Conns : k > conns => queue[k] = <<>>
  /\ \A c \in Consumers : /\ conn[c] =< conns
                          /\ conn[c] # 0 => conn[c] \in open
                          /\ cpc[c] # "idle" => conn[c] # 0
  /\ \A c, d \in Consumers : c # d /\ conn[c] # 0 => conn[c] # conn[d]
ListInv ==
  /\ Len(clients) + Len(backlog) =< conns
  /\ \A i \in 1..Len(clients) : clients[i] =< conns
  /\ \A i \in 1..Len(backlog) : backlog[i] =< conns
  /\ \A i, j \in 1..Len(clients) : i # j => clients[i] # clients[j]
  /\ \A i, j \in 1..Len(backlog) : i # j => backlog[i] # backlog[j]
  /\ \A i \in 1..Len(clients) : \A j \in 1..Len(backlog) : clients[i] # backlog[j]

\* The slot holds the last frame but while publish() is on its way to storing it.
PhaseInv ==
  /\ ppc \in {"sendFence", "store"} => seqno = frame + 1
  /\ ppc \notin {"sendFence", "store"} => frame = seqno
  /\ ppc = "sendFence" => gating

\* The broadcast has yet to reach the client k.
Pending(k) == ppc = "sendFence" /\ \E i \in pos..Len(clients) : clients[i] = k
\* The newest frame whose fence can have been sent to k.
Newest(k) == IF Pending(k) THEN frame ELSE seqno

\* Fences are sent in the order of the frames, and a ring is older than its socket.
Ordered(s) == \A i, j \in 1..Len(s) : i < j /\ s[j] # PoolMsg => s[i] < s[j]
QueueInv ==
  \A k \in Conns : /\ Ordered(queue[k])
                   /\ \A t \in ToSet(queue[k]) : t =< Newest(k)
RingSound(c) ==
  \A t \in RingTokens(c) :
    /\ t =< seqno
    /\ conn[c] # 0 => /\ t =< Newest(conn[c])
                      /\ \A q \in ToSet(queue[conn[c]]) : q # PoolMsg => t < q
RingInv == \A c \in Consumers : RingSound(c)

\* The slots of a ring are filled in turn.  Counted from ringNext, the slot to be
\* taken next, each fence is older than the ones behind it, by at least the
\* number of slots between them.
Behind(i, j, n) == IF (i >= n) = (j >= n) THEN i < j ELSE i >= n
Gap(i, j) == IF i < j THEN j - i ELSE j - i + RingSize
AgeInv ==
  \A c \in Consumers : \A i, j \in 0..(RingSize - 1) :
    Behind(i, j, ringNext[c]) /\ ring[c][i] # 0 => ring[c][j] >= ring[c][i] + Gap(i, j)

\* A consumer that waits for its pool has taken nothing from its socket yet.
AwaitInv ==
  \A c \in Consumers : cpc[c] = "await" /\ conn[c] \in Clients =>
    queue[conn[c]] # <<>> /\ Head(queue[conn[c]]) = PoolMsg

\* What a consumer can still find of what was sent to it: while it waits for its
\* pool the ring does not count, for detach() will empty it.
Found(c) == ToSet(queue[conn[c]]) \cup (IF cpc[c] = "await" THEN {} ELSE RingTokens(c))
\* The fence of the frame being published is with k already.
Reached(k) == \/ ppc = "store" /\ gating
              \/ ppc = "sendFence" /\ \E i \in 1..Len(clients) : i < pos /\ clients[i] = k
ReachInv ==
  \A c \in Consumers : conn[c] \in Clients =>
    /\ gated /\ since[conn[c]] < frame => frame \in Found(c)
    /\ Reached(conn[c]) => seqno \in Found(c)

IInv == TypeOK /\ LinkInv /\ ListInv /\ PhaseInv /\ QueueInv /\ RingInv /\ AgeInv /\ AwaitInv /\ ReachInv

-----------------------------------------------------------------------------
(* Sequences: what is sent and received                                     *)

LEMMA SetOfSeq ==
  ASSUME NEW S, NEW s \in Seq(S)
  PROVE  ToSet(s) = {s[i] : i \in 1..Len(s)} /\ ToSet(s) \subseteq S /\ Len(s) \in Nat
         /\ \A i \in 1..Len(s) : s[i] \in S /\ s[i] \in ToSet(s)
  BY DEF ToSet

LEMMA EmptySet == ToSet(<<>>) = {} /\ Len(<<>>) = 0
  BY DEF ToSet

LEMMA AppendSet ==
  ASSUME NEW S, NEW s \in Seq(S), NEW e \in S
  PROVE  /\ Append(s, e) \in Seq(S) /\ Len(Append(s, e)) = Len(s) + 1
         /\ \A i \in 1..Len(s) : Append(s, e)[i] = s[i]
         /\ Append(s, e)[Len(s) + 1] = e
         /\ ToSet(Append(s, e)) = ToSet(s) \cup {e}
<1>1. /\ Append(s, e) \in Seq(S) /\ Len(Append(s, e)) = Len(s) + 1 /\ Len(s) \in Nat
      /\ \A i \in 1..Len(s) : Append(s, e)[i] = s[i]
      /\ Append(s, e)[Len(s) + 1] = e
  BY AppendProperties
<1>2. ToSet(s) = {s[i] : i \in 1..Len(s)}
  BY SetOfSeq
<1>3. ToSet(Append(s, e)) = {Append(s, e)[i] : i \in 1..(Len(s) + 1)}
  BY <1>1, SetOfSeq
<1>4. ASSUME NEW x PROVE x \in ToSet(Append(s, e)) <=> x \in ToSet(s) \cup {e}
  <2>1. \A i \in 1..(Len(s) + 1) : i \in 1..Len(s) \/ i = Len(s) + 1
    BY <1>1
  <2>2. \A i \in 1..Len(s) : i \in 1..(Len(s) + 1)
    BY <1>1
  <2>3. Len(s) + 1 \in 1..(Len(s) + 1)
    BY <1>1
  <2> QED
    BY <1>1, <1>2, <1>3, <2>1, <2>2, <2>3
<1> QED
  BY <1>1, <1>4

LEMMA TailSet ==
  ASSUME NEW S, NEW s \in Seq(S), s # <<>>
  PROVE  /\ Head(s) \in S /\ Tail(s) \in Seq(S) /\ Len(Tail(s)) = Len(s) - 1
         /\ Head(s) = s[1] /\ Len(s) \in Nat \ {0}
         /\ \A i \in 1..Len(Tail(s)) : Tail(s)[i] = s[i + 1]
         /\ ToSet(s) = {Head(s)} \cup ToSet(Tail(s))
<1>1. /\ Head(s) \in S /\ Tail(s) \in Seq(S) /\ Len(Tail(s)) = Len(s) - 1
      /\ \A i \in 1..Len(Tail(s)) : Tail(s)[i] = s[i + 1]
  BY HeadTailProperties
<1>2. Head(s) = s[1] /\ Len(s) \in Nat /\ Len(s) # 0
  BY EmptySeq
<1>3. ToSet(s) = {s[i] : i \in 1..Len(s)} /\ ToSet(Tail(s)) = {Tail(s)[i] : i \in 1..Len(Tail(s))}
  BY <1>1, SetOfSeq
<1>4. ASSUME NEW x PROVE x \in ToSet(s) <=> x \in {Head(s)} \cup ToSet(Tail(s))
  <2>1. \A i \in 1..Len(s) : i = 1 \/ (i - 1 \in 1..Len(Tail(s)) /\ (i - 1) + 1 = i)
    BY <1>1, <1>2
  <2>2. \A i \in 1..Len(Tail(s)) : i + 1 \in 1..Len(s)
    BY <1>1, <1>2
  <2>3. 1 \in 1..Len(s)
    BY <1>2
  <2>4. ASSUME x \in ToSet(s) PROVE x \in {Head(s)} \cup ToSet(Tail(s))
    <3>1. PICK i \in 1..Len(s) : x = s[i]
      BY <1>3, <2>4
    <3>2. CASE i = 1
      BY <1>2, <3>1, <3>2
    <3>3. CASE i # 1
      BY <1>1, <1>3, <2>1, <3>1, <3>3
    <3> QED
      BY <3>2, <3>3
  <2>5. ASSUME x \in {Head(s)} \cup ToSet(Tail(s)) PROVE x \in ToSet(s)
    BY <1>1, <1>2, <1>3, <2>2, <2>3, <2>5
  <2> QED
    BY <2>4, <2>5
<1> QED
  BY <1>1, <1>2, <1>4

LEMMA OrderedAppend ==
  ASSUME NEW s \in Seq(Frames), Ordered(s), NEW e \in Frames,
         e # PoolMsg => \A t \in ToSet(s) : t < e
  PROVE  Ordered(Append(s, e))
<1> DEFINE q == Append(s, e)
<1>1. /\ Len(q) = Len(s) + 1 /\ Len(s) \in Nat /\ q[Len(s) + 1] = e
      /\ \A i \in 1..Len(s) : q[i] = s[i] /\ s[i] \in ToSet(s)
  BY AppendSet, SetOfSeq
<1> HIDE DEF q
<1>2. ASSUME NEW i \in 1..Len(q), NEW j \in 1..Len(q), i < j, q[j] # PoolMsg PROVE q[i] < q[j]
  <2>1. i \in 1..Len(s)
    BY <1>1, <1>2
  <2>2. CASE j \in 1..Len(s)
    BY <1>1, <1>2, <2>1, <2>2 DEF Ordered
  <2>3. CASE j = Len(s) + 1
    BY <1>1, <1>2, <2>1, <2>3
  <2> QED
    BY <1>1, <2>2, <2>3
<1>3. Ordered(q)
  BY <1>2 DEF Ordered
<1> QED
  BY <1>3 DEF q

LEMMA OrderedTail ==
  ASSUME NEW s \in Seq(Frames), Ordered(s), s # <<>>
  PROVE  /\ Ordered(Tail(s))
         /\ \A t \in ToSet(Tail(s)) : t # PoolMsg => Head(s) < t
<1> DEFINE q == Tail(s)
<1>1. /\ Len(q) = Len(s) - 1 /\ Len(s) \in Nat \ {0} /\ q \in Seq(Frames)
      /\ \A i \in 1..Len(q) : q[i] = s[i + 1]
      /\ Head(s) = s[1]
  BY TailSet
<1>2. ToSet(q) = {q[i] : i \in 1..Len(q)} /\ Len(q) \in Nat
  BY <1>1, SetOfSeq
<1> HIDE DEF q
<1>3. ASSUME NEW i \in 1..Len(q), NEW j \in 1..Len(q), i < j, q[j] # PoolMsg PROVE q[i] < q[j]
  <2>1. i + 1 \in 1..Len(s) /\ j + 1 \in 1..Len(s) /\ i + 1 < j + 1
    BY <1>1, <1>2, <1>3
  <2> QED
    BY <1>1, <1>3, <2>1 DEF Ordered
<1>4. ASSUME NEW j \in 1..Len(q), q[j] # PoolMsg PROVE s[1] < q[j]
  <2>1. 1 \in 1..Len(s) /\ j + 1 \in 1..Len(s) /\ 1 < j + 1
    BY <1>1, <1>2
  <2> QED
    BY <1>1, <1>4, <2>1 DEF Ordered
<1>5. Ordered(q) /\ \A t \in ToSet(q) : t # PoolMsg => s[1] < t
  BY <1>2, <1>3, <1>4 DEF Ordered
<1> QED
  BY <1>1, <1>5 DEF q

LEMMA OrderedShort == Ordered(<<>>) /\ Ordered(<<PoolMsg>>)
  BY DEF Ordered

-----------------------------------------------------------------------------
(* Types                                                                    *)

PubTyped ==
  /\ seqno \in Frames /\ frame \in Frames /\ gated \in BOOLEAN /\ gating \in BOOLEAN
  /\ ppc \in {"idle", "sendFence", "store", "accept", "sendPool"}
  /\ pos \in 1..(MaxConn + 1)
ListTyped == clients \in Seq(Conns) /\ backlog \in Seq(Conns) /\ conns \in 0..MaxConn
QueueTyped == queue \in [Conns -> Seq(Frames)] /\ \A k \in Conns : Len(queue[k]) =< SockCap
LinkTyped == /\ open \subseteq Conns /\ since \in [Conns -> Frames]
             /\ conn \in [Consumers -> 0..MaxConn] /\ attached \subseteq Consumers
             /\ cpc \in [Consumers -> {"idle", "await", "drain"}]
RingTyped == /\ ring \in [Consumers -> [0..(RingSize - 1) -> Frames]]
             /\ ringNext \in [Consumers -> 0..(RingSize - 1)]
             /\ fds \in [Consumers -> SUBSET Frames]
             /\ view \in [Consumers -> [frame : Frames, fence : Frames]]
AllTyped == PubTyped /\ ListTyped /\ QueueTyped /\ LinkTyped /\ RingTyped

LEMMA TypeParts == TypeOK <=> AllTyped
  BY DEF TypeOK, AllTyped, PubTyped, ListTyped, QueueTyped, LinkTyped, RingTyped

LEMMA TypePartsPrime == TypeOK' <=> AllTyped'
  BY DEF TypeOK, AllTyped, PubTyped, ListTyped, QueueTyped, LinkTyped, RingTyped

LEMMA Constants ==
  /\ MaxFrame \in Nat /\ MaxConn \in Nat /\ SockCap \in Nat /\ SockCap > 0
  /\ RingSize \in Nat /\ RingSize >= 2
  /\ 0 \in Frames /\ PoolMsg \in Frames /\ Frames \subseteq Nat /\ Conns \subseteq Nat
  BY BoundsAreNat, SockCapPositive, RingSizeAtLeastTwo DEF Frames, Conns, PoolMsg

LEMMA Numbers ==
  /\ \A k \in Conns : k \in Nat /\ k > 0
  /\ \A f \in Frames : f \in Nat
  /\ \A n \in 0..MaxConn : n \in Nat
  BY Constants DEF Conns, Frames

LEMMA RingTokensTyped ==
  ASSUME RingTyped, NEW c \in Consumers
  PROVE  RingTokens(c) \subseteq Frames \ {0}
  BY Constants DEF RingTyped, RingTokens

LEMMA InitTyped == Init => TypeOK
<1> SUFFICES ASSUME Init PROVE AllTyped
  BY TypeParts
<1>0. 0 \in 0..MaxConn /\ 1 \in 1..(MaxConn + 1) /\ <<>> \in Seq(Conns)
  BY Constants
<1>1. PubTyped /\ ListTyped /\ LinkTyped
  <2>1. PubTyped
    BY <1>0, Constants DEF Init, PubTyped
  <2>2. ListTyped
    BY <1>0 DEF Init, ListTyped
  <2>3. LinkTyped
    BY <1>0, Constants DEF Init, LinkTyped
  <2> QED
    BY <2>1, <2>2, <2>3
<1>2. QueueTyped
  BY Constants DEF Init, QueueTyped
<1>3. EmptyRing \in [0..(RingSize - 1) -> Frames] /\ NoView \in [frame : Frames, fence : Frames]
  BY Constants DEF EmptyRing, NoView
<1>4. RingTyped
  BY <1>3, Constants DEF Init, RingTyped
<1> QED
  BY <1>1, <1>2, <1>4 DEF AllTyped

\* sendmsg() to one client.
LEMMA SendTyped ==
  ASSUME QueueTyped, NEW k \in Conns, NEW m \in Frames, SendTo(k, m)
  PROVE  /\ QueueTyped'
         /\ \A j \in Conns \ {k} : queue'[j] = queue[j]
         /\ queue'[k] = IF k \in open THEN Append(queue[k], m) ELSE queue[k]
<1>1. queue[k] \in Seq(Frames) /\ Len(queue[k]) \in Nat
  BY DEF QueueTyped
<1>2. CASE k \in open
  <2>1. Append(queue[k], m) \in Seq(Frames) /\ Len(Append(queue[k], m)) =< SockCap
    BY <1>1, <1>2, AppendSet, Constants DEF SendTo
  <2>2. queue' = [queue EXCEPT ![k] = Append(queue[k], m)]
    BY <1>2 DEF SendTo
  <2> QED
    BY <1>2, <2>1, <2>2 DEF QueueTyped
<1>3. CASE k \notin open
  BY <1>3 DEF SendTo, QueueTyped
<1> QED
  BY <1>2, <1>3

\* The messages of a connection that is given up are gone.
LEMMA HangupTyped ==
  ASSUME QueueTyped, NEW c \in Consumers,
         queue' = [k \in Conns |-> IF k = conn[c] THEN <<>> ELSE queue[k]]
  PROVE  QueueTyped'
<1>1. \A k \in Conns : queue'[k] = <<>> \/ queue'[k] = queue[k]
  OBVIOUS
<1>2. <<>> \in Seq(Frames) /\ Len(<<>>) =< SockCap
  BY Constants
<1>3. queue' = [k \in Conns |-> queue'[k]]
  OBVIOUS
<1> QED
  BY <1>1, <1>2, <1>3 DEF QueueTyped

\* One message received.
LEMMA ReceiveTyped ==
  ASSUME QueueTyped, NEW k \in Conns, queue[k] # <<>>,
         queue' = [queue EXCEPT ![k] = Tail(queue[k])]
  PROVE  QueueTyped' /\ Head(queue[k]) \in Frames
<1>1. queue[k] \in Seq(Frames) /\ Len(queue[k]) =< SockCap
  BY DEF QueueTyped
<1>2. /\ Head(queue[k]) \in Frames /\ Tail(queue[k]) \in Seq(Frames)
      /\ Len(queue[k]) \in Nat /\ Len(Tail(queue[k])) = Len(queue[k]) - 1
  BY <1>1, TailSet
<1>3. Len(Tail(queue[k])) =< SockCap
  BY <1>1, <1>2, Constants
<1> QED
  BY <1>2, <1>3 DEF QueueTyped

\* The slot of the ring that follows n.
LEMMA NextSlot ==
  ASSUME NEW n \in 0..(RingSize - 1)
  PROVE  /\ (n + 1) % RingSize = (IF n + 1 = RingSize THEN 0 ELSE n + 1)
         /\ (n + 1) % RingSize \in 0..(RingSize - 1)
<1>1. CASE n + 1 = RingSize
  BY <1>1, Constants
<1>2. CASE n + 1 < RingSize
  BY <1>2, Constants
<1> QED
  BY <1>1, <1>2, Constants

LEMMA StoreFenceTyped ==
  ASSUME RingTyped, NEW c \in Consumers, NEW t \in Frames, StoreFence(c, t), view' = view
  PROVE  RingTyped'
<1>1. ringNext[c] \in 0..(RingSize - 1) /\ (ringNext[c] + 1) % RingSize \in 0..(RingSize - 1)
  BY NextSlot DEF RingTyped
<1> QED
  BY <1>1 DEF RingTyped, StoreFence

LEMMA StepTyped == TypeOK /\ LinkInv /\ ListInv /\ [Next]_vars => TypeOK'
<1> SUFFICES ASSUME TypeOK, LinkInv, ListInv, [Next]_vars PROVE AllTyped'
  BY TypePartsPrime
<1>0. PubTyped /\ ListTyped /\ QueueTyped /\ LinkTyped /\ RingTyped
  BY TypeParts DEF AllTyped
<1>p. UNCHANGED pubVars => PubTyped'
  BY <1>0 DEF pubVars, PubTyped
<1>l. UNCHANGED <<clients, backlog, conns>> => ListTyped'
  BY <1>0 DEF ListTyped
<1>q. UNCHANGED queue => QueueTyped'
  BY <1>0 DEF QueueTyped
<1>k. UNCHANGED <<open, since, conn, attached, cpc>> => LinkTyped'
  BY <1>0 DEF LinkTyped
<1>r. UNCHANGED <<ring, ringNext, fds, view>> => RingTyped'
  BY <1>0 DEF RingTyped
<1>e. EmptyRing \in [0..(RingSize - 1) -> Frames] /\ NoView \in [frame : Frames, fence : Frames]
      /\ 0 \in 0..(RingSize - 1) /\ {} \in SUBSET Frames /\ 0 \in 0..MaxConn
  BY Constants DEF EmptyRing, NoView
<1>1. ASSUME NEW fence \in BOOLEAN, BeginPublish(fence) PROVE AllTyped'
  <2>1. PubTyped'
    BY <1>0, <1>1, Constants DEF BeginPublish, PubTyped, Frames
  <2> QED
    BY <1>1, <1>l, <1>q, <1>k, <1>r, <2>1 DEF BeginPublish, sockVars, consVars, AllTyped
<1>2. CASE SendFence \/ SendPool
  <2>0. Len(clients) \in Nat /\ Len(backlog) \in Nat /\ Len(clients) =< MaxConn
    BY <1>0, Constants DEF ListTyped, ListInv
  <2>1. clients[pos] \in Conns /\ pos + 1 \in 1..(MaxConn + 1)
    BY <1>0, <1>2, <2>0, Constants DEF SendFence, SendPool, PubTyped, ListTyped
  <2>2. PubTyped'
    BY <1>0, <1>2, <2>1 DEF SendFence, SendPool, PubTyped
  <2>3. QueueTyped'
    BY <1>0, <1>2, <2>1, SendTyped, Constants DEF SendFence, SendPool, PubTyped
  <2> QED
    BY <1>2, <1>l, <1>k, <1>r, <2>2, <2>3 DEF SendFence, SendPool, consVars, AllTyped
<1>3. CASE SendFenceDone \/ SendPoolDone \/ StoreDescriptor \/ HandshakePool \/ Reannounce \/ AcceptDone
  <2>1. PubTyped'
    BY <1>0, <1>3, Constants DEF SendFenceDone, SendPoolDone, StoreDescriptor, HandshakePool,
                                 Reannounce, AcceptDone, PubTyped
  <2>2. UNCHANGED <<sockVars, consVars>>
    BY <1>3 DEF SendFenceDone, SendPoolDone, StoreDescriptor, HandshakePool, Reannounce, AcceptDone
  <2> QED
    BY <1>l, <1>q, <1>k, <1>r, <2>1, <2>2 DEF sockVars, consVars, AllTyped
<1>4. CASE Accept
  <2>1. Head(backlog) \in Conns /\ Tail(backlog) \in Seq(Conns)
    BY <1>0, <1>4, TailSet DEF Accept, ListTyped
  <2>2. <<PoolMsg>> \in Seq(Frames) /\ Len(<<PoolMsg>>) =< SockCap
    BY Constants
  <2>3. PubTyped'
    BY <1>0, <1>4 DEF Accept, PubTyped
  <2>4. ListTyped'
    <3>1. Append(clients, Head(backlog)) \in Seq(Conns)
      BY <1>0, <2>1, AppendSet DEF ListTyped
    <3> QED
      BY <1>0, <1>4, <2>1, <3>1 DEF Accept, ListTyped
  <2>5. QueueTyped'
    BY <1>0, <1>4, <2>1, <2>2 DEF Accept, QueueTyped
  <2>6. LinkTyped'
    BY <1>0, <1>4, <2>1 DEF Accept, LinkTyped, PubTyped, consVars
  <2> QED
    BY <1>4, <1>r, <2>3, <2>4, <2>5, <2>6 DEF Accept, consVars, AllTyped
<1>5. ASSUME NEW c \in Consumers, Connect(c) PROVE AllTyped'
  <2>1. conns' \in 0..MaxConn /\ conns' \in Conns
    BY <1>0, <1>5, Constants DEF Connect, ListTyped, Conns
  <2>2. ListTyped'
    BY <1>0, <1>5, <2>1, AppendSet DEF Connect, ListTyped
  <2>3. QueueTyped'
    BY <1>0, <1>5, HangupTyped DEF Connect
  <2>4. LinkTyped'
    BY <1>0, <1>5, <2>1 DEF Connect, LinkTyped
  <2> QED
    BY <1>5, <1>p, <1>r, <2>2, <2>3, <2>4 DEF Connect, AllTyped
<1>6. ASSUME NEW c \in Consumers, Attach(c) PROVE AllTyped'
  <2>1. conn[c] \in Conns
    BY <1>0, <1>6, Constants DEF Attach, LinkInv, LinkTyped, Conns
  <2>2. QueueTyped'
    BY <1>0, <1>6, <2>1, ReceiveTyped DEF Attach
  <2>3. LinkTyped'
    BY <1>0, <1>6 DEF Attach, LinkTyped
  <2>4. RingTyped'
    BY <1>0, <1>6, <1>e DEF Attach, RingTyped
  <2> QED
    BY <1>6, <1>p, <1>l, <2>2, <2>3, <2>4 DEF Attach, AllTyped
<1>7. ASSUME NEW c \in Consumers, HandshakeTimeout(c) \/ DrainBegin(c) \/ DrainEnd(c) PROVE AllTyped'
  <2>1. LinkTyped'
    BY <1>0, <1>7 DEF HandshakeTimeout, DrainBegin, DrainEnd, sockVars, LinkTyped
  <2> QED
    BY <1>7, <1>p, <1>l, <1>q, <1>r, <2>1 DEF HandshakeTimeout, DrainBegin, DrainEnd, sockVars, AllTyped
<1>8. ASSUME NEW c \in Consumers, DrainOne(c) PROVE AllTyped'
  <2>1. conn[c] \in Conns
    BY <1>0, <1>8, Constants DEF DrainOne, LinkInv, LinkTyped, Conns
  <2>2. QueueTyped' /\ Head(queue[conn[c]]) \in Frames
    BY <1>0, <1>8, <2>1, ReceiveTyped DEF DrainOne
  <2>3. RingTyped'
    BY <1>0, <1>8, <1>r, <2>2, StoreFenceTyped DEF DrainOne
  <2> QED
    BY <1>8, <1>p, <1>l, <1>k, <2>2, <2>3 DEF DrainOne, AllTyped
<1>9. ASSUME NEW c \in Consumers, HandOut(c) PROVE AllTyped'
  <2>1. RingTyped'
    BY <1>0, <1>9, Constants DEF HandOut, RingTyped, PubTyped
  <2> QED
    BY <1>9, <1>p, <1>l, <1>q, <1>k, <2>1 DEF HandOut, sockVars, AllTyped
<1>10. ASSUME NEW c \in Consumers, Exit(c) PROVE AllTyped'
  <2>1. QueueTyped'
    BY <1>0, <1>10, HangupTyped DEF Exit, Hangup
  <2>2. LinkTyped'
    <3>1. conn' \in [Consumers -> 0..MaxConn]
      BY <1>0, <1>10, <1>e DEF Exit, LinkTyped
    <3> QED
      BY <1>0, <1>10, <3>1 DEF Exit, Hangup, LinkTyped
  <2>3. RingTyped'
    BY <1>0, <1>10, <1>e DEF Exit, RingTyped
  <2> QED
    BY <1>10, <1>p, <1>l, <2>1, <2>2, <2>3 DEF Exit, AllTyped
<1>11. CASE UNCHANGED vars
  BY <1>11, <1>p, <1>l, <1>q, <1>k, <1>r DEF vars, sockVars, consVars, AllTyped
<1> QED
  BY <1>1, <1>2, <1>3, <1>4, <1>5, <1>6, <1>7, <1>8, <1>9, <1>10, <1>11
     DEF Next, RunPublisher, RunHandshake, RunDrain

-----------------------------------------------------------------------------
(* Connections, lists and phases                                            *)

LEMMA InitLinks == Init => LinkInv /\ ListInv /\ PhaseInv
<1> SUFFICES ASSUME Init PROVE LinkInv /\ ListInv /\ PhaseInv
  OBVIOUS
<1>1. LinkInv
  BY DEF Init, LinkInv
<1>2. ListInv
  BY EmptySet DEF Init, ListInv
<1>3. PhaseInv
  BY DEF Init, PhaseInv
<1> QED
  BY <1>1, <1>2, <1>3

\* What the parts of TypeOK say of the broadcasts, once for all.
LEMMA BroadcastFacts ==
  ASSUME TypeOK, ListInv, pos =< Len(clients)
  PROVE  /\ pos \in 1..Len(clients) /\ Len(clients) \in Nat /\ Len(clients) =< MaxConn
         /\ clients[pos] \in Conns /\ clients[pos] =< conns /\ clients[pos] \in Clients
<1>0. PubTyped /\ ListTyped
  BY TypeParts DEF AllTyped
<1>1. Len(clients) \in Nat /\ Len(backlog) \in Nat /\ pos \in 1..Len(clients)
  BY <1>0, Constants DEF PubTyped, ListTyped
<1>2. Len(clients) =< MaxConn
  BY <1>0, <1>1, Constants DEF ListTyped, ListInv
<1>3. clients[pos] \in Conns /\ clients[pos] =< conns /\ clients[pos] \in Clients
  BY <1>0, <1>1, SetOfSeq DEF ListTyped, ListInv, Clients
<1> QED
  BY <1>1, <1>2, <1>3

\* A consumer that is not idle has a connection.
LEMMA ConnOf ==
  ASSUME TypeOK, LinkInv, NEW c \in Consumers, cpc[c] # "idle" \/ conn[c] # 0
  PROVE  conn[c] \in Conns /\ conn[c] =< conns /\ conn[c] \in open
<1>0. conn[c] \in 0..MaxConn /\ conn[c] # 0
  BY DEF TypeOK, LinkInv
<1> QED
  BY <1>0, Constants DEF LinkInv, Conns

LEMMA StepLink == TypeOK /\ LinkInv /\ ListInv /\ [Next]_vars => LinkInv'
<1> SUFFICES ASSUME TypeOK, LinkInv, ListInv, [Next]_vars PROVE LinkInv'
  OBVIOUS
<1>0. PubTyped /\ ListTyped /\ QueueTyped /\ LinkTyped
  BY TypeParts DEF AllTyped
<1>u. UNCHANGED <<queue, conns, conn, open, cpc>> => LinkInv'
  BY DEF LinkInv
<1>1. CASE \/ \E fence \in BOOLEAN : BeginPublish(fence)
           \/ SendFenceDone \/ SendPoolDone \/ StoreDescriptor \/ HandshakePool \/ Reannounce
           \/ AcceptDone \/ (\E c \in Consumers : HandOut(c)) \/ UNCHANGED vars
  BY <1>1, <1>u DEF BeginPublish, SendFenceDone, SendPoolDone, StoreDescriptor, HandshakePool,
                    Reannounce, AcceptDone, HandOut, vars, sockVars, consVars
<1>2. CASE SendFence \/ SendPool
  <2>1. clients[pos] \in Conns /\ clients[pos] =< conns /\ seqno \in Frames
    BY <1>0, <1>2, BroadcastFacts DEF SendFence, SendPool, PubTyped
  <2>2. \A k \in Conns \ {clients[pos]} : queue'[k] = queue[k]
    BY <1>0, <1>2, <2>1, SendTyped, Constants DEF SendFence, SendPool
  <2>3. clients[pos] \in Nat /\ conns \in Nat
    BY <1>0, <2>1, Numbers DEF ListTyped
  <2>4. \A k \in Conns : k > conns => queue'[k] = <<>>
    BY <2>1, <2>2, <2>3, Numbers DEF LinkInv
  <2> QED
    BY <1>2, <2>4 DEF SendFence, SendPool, LinkInv, consVars
<1>3. CASE Accept
  <2>1. backlog \in Seq(Conns) /\ backlog # <<>>
    BY <1>0, <1>3 DEF ListTyped, Accept
  <2>2. Head(backlog) \in Conns /\ Head(backlog) = backlog[1] /\ 1 \in 1..Len(backlog)
    BY <2>1, TailSet
  <2>3. Head(backlog) =< conns
    BY <2>2 DEF ListInv
  <2>4. \A k \in Conns : k > conns => queue'[k] = <<>>
    <3>1. \A k \in Conns \ {Head(backlog)} : queue'[k] = queue[k]
      BY <1>0, <1>3, <2>2 DEF Accept, QueueTyped
    <3>2. Head(backlog) \in Nat /\ conns \in Nat
      BY <1>0, <2>2, Numbers DEF ListTyped
    <3> QED
      BY <2>3, <3>1, <3>2, Constants DEF LinkInv
  <2> QED
    BY <1>3, <2>4 DEF Accept, LinkInv, consVars
<1>4. ASSUME NEW c \in Consumers, Connect(c) PROVE LinkInv'
  <2>1. conns \in Nat /\ conns' = conns + 1
    BY <1>0, <1>4, Constants DEF Connect, ListTyped
  <2>2. \A k \in Conns : k > conns' => queue'[k] = <<>>
    BY <1>4, <2>1, Constants DEF Connect, LinkInv
  <2>3. /\ conn'[c] = conns' /\ conns' \in open'
        /\ \A d \in Consumers \ {c} : conn'[d] = conn[d] /\ cpc'[d] = cpc[d]
    BY <1>0, <1>4 DEF Connect, LinkTyped
  <2>4. \A d \in Consumers : conn[d] \in Nat /\ conn[d] =< conns
    BY <1>0, Constants DEF LinkTyped, LinkInv
  <2>5. \A d \in Consumers : conn'[d] =< conns' /\ (cpc'[d] # "idle" => conn'[d] # 0)
    BY <2>1, <2>3, <2>4 DEF LinkInv
  <2>6. \A d \in Consumers : conn'[d] # 0 => conn'[d] \in open'
    BY <1>4, <2>3 DEF Connect, LinkInv
  <2>7. \A d, e \in Consumers : d # e /\ conn'[d] # 0 => conn'[d] # conn'[e]
    BY <2>1, <2>3, <2>4 DEF LinkInv
  <2> QED
    BY <2>2, <2>5, <2>6, <2>7 DEF LinkInv
<1>5. ASSUME NEW c \in Consumers, Attach(c) \/ DrainOne(c) PROVE LinkInv'
  <2>1. conn[c] \in Conns /\ conn[c] =< conns
    BY <1>5, ConnOf DEF Attach, DrainOne
  <2>2. \A k \in Conns \ {conn[c]} : queue'[k] = queue[k]
    BY <1>0, <1>5, <2>1 DEF Attach, DrainOne, QueueTyped
  <2>3. conn[c] \in Nat /\ conns \in Nat
    BY <1>0, <2>1, Numbers DEF ListTyped
  <2>4. \A k \in Conns : k > conns => queue'[k] = <<>>
    BY <2>1, <2>2, <2>3, Numbers DEF LinkInv
  <2>5. \A d \in Consumers : cpc'[d] # "idle" => cpc[d] # "idle"
    BY <1>0, <1>5 DEF Attach, DrainOne, LinkTyped
  <2> QED
    BY <1>5, <2>4, <2>5 DEF Attach, DrainOne, LinkInv
<1>6. ASSUME NEW c \in Consumers, HandshakeTimeout(c) \/ DrainBegin(c) \/ DrainEnd(c) PROVE LinkInv'
  BY <1>0, <1>6 DEF HandshakeTimeout, DrainBegin, DrainEnd, sockVars, LinkInv, LinkTyped
<1>7. ASSUME NEW c \in Consumers, Exit(c) PROVE LinkInv'
  <2>1. \A k \in Conns : k > conns' => queue'[k] = <<>>
    BY <1>7 DEF Exit, Hangup, LinkInv
  <2>2. /\ conn'[c] = 0 /\ cpc'[c] = "idle" /\ open' = open \ {conn[c]} /\ conns' = conns
        /\ \A d \in Consumers \ {c} : conn'[d] = conn[d] /\ cpc'[d] = cpc[d]
    BY <1>0, <1>7 DEF Exit, Hangup, LinkTyped
  <2>3. \A d \in Consumers : conn'[d] =< conns' /\ (cpc'[d] # "idle" => conn'[d] # 0)
    BY <1>0, <2>2, Constants DEF LinkInv, ListTyped
  <2>4. \A d \in Consumers : conn'[d] # 0 => conn'[d] \in open'
    BY <2>2 DEF LinkInv
  <2>5. \A d, e \in Consumers : d # e /\ conn'[d] # 0 => conn'[d] # conn'[e]
    BY <2>2 DEF LinkInv
  <2> QED
    BY <2>1, <2>3, <2>4, <2>5 DEF LinkInv
<1> QED
  BY <1>1, <1>2, <1>3, <1>4, <1>5, <1>6, <1>7 DEF Next, RunPublisher, RunHandshake, RunDrain

LEMMA StepList == TypeOK /\ ListInv /\ [Next]_vars => ListInv'
<1> SUFFICES ASSUME TypeOK, ListInv, [Next]_vars PROVE ListInv'
  OBVIOUS
<1>0. ListTyped /\ Len(clients) \in Nat /\ Len(backlog) \in Nat /\ conns \in Nat
      /\ (\A i \in 1..Len(clients) : clients[i] \in Nat)
      /\ \A i \in 1..Len(backlog) : backlog[i] \in Nat
  <2>1. ListTyped
    BY TypeParts DEF AllTyped
  <2>2. \A i \in 1..Len(clients) : clients[i] \in Conns
    BY <2>1 DEF ListTyped
  <2>3. \A i \in 1..Len(backlog) : backlog[i] \in Conns
    BY <2>1 DEF ListTyped
  <2> QED
    BY <2>1, <2>2, <2>3, Numbers DEF ListTyped
<1>1. CASE UNCHANGED <<clients, backlog, conns>>
  BY <1>1 DEF ListInv
<1>2. CASE Accept
  <2> DEFINE k == Head(backlog)
             rest == Tail(backlog)
  <2>1. /\ backlog \in Seq(Conns) /\ backlog # <<>> /\ backlog' = rest /\ conns' = conns
        /\ clients' = clients \/ clients' = Append(clients, k)
    BY <1>0, <1>2 DEF ListTyped, Accept
  <2>2. /\ k \in Conns /\ k = backlog[1] /\ 1 \in 1..Len(backlog) /\ Len(rest) = Len(backlog) - 1
        /\ \A i \in 1..Len(rest) : rest[i] = backlog[i + 1] /\ i + 1 \in 1..Len(backlog) /\ i + 1 # 1
    <3>1. /\ k \in Conns /\ k = backlog[1] /\ Len(backlog) \in Nat \ {0} /\ Len(rest) = Len(backlog) - 1
          /\ \A i \in 1..Len(rest) : rest[i] = backlog[i + 1]
      BY <2>1, TailSet
    <3> QED
      BY <3>1
  <2>3. /\ Len(rest) =< Len(backlog) /\ Len(rest) \in Nat
        /\ \A i \in 1..Len(rest) : rest[i] =< conns /\ rest[i] # k
        /\ \A i, j \in 1..Len(rest) : i # j => rest[i] # rest[j]
        /\ \A i \in 1..Len(clients) : \A j \in 1..Len(rest) : clients[i] # rest[j]
        /\ \A i \in 1..Len(clients) : clients[i] # k
    <3>1. \A i, j \in 1..Len(rest) : i # j => i + 1 # j + 1
      BY <1>0, <2>2
    <3> QED
      BY <1>0, <2>2, <3>1 DEF ListInv
  <2> HIDE DEF k, rest
  <2>4. CASE clients' = clients
    <3>1. Len(clients) + Len(rest) =< conns
      BY <1>0, <2>3 DEF ListInv
    <3> QED
      BY <2>1, <2>3, <2>4, <3>1 DEF ListInv
  <2>5. CASE clients' = Append(clients, k)
    <3>1. /\ Len(clients') = Len(clients) + 1 /\ clients'[Len(clients) + 1] = k
          /\ \A i \in 1..Len(clients) : clients'[i] = clients[i]
      BY <1>0, <2>2, <2>5, AppendSet DEF ListTyped
    <3>2. \A i \in 1..Len(clients') : i \in 1..Len(clients) \/ i = Len(clients) + 1
      BY <1>0, <3>1
    <3>3. Len(clients') + Len(rest) =< conns
      BY <1>0, <2>2, <3>1 DEF ListInv
    <3>4. k =< conns
      BY <2>2 DEF ListInv
    <3>5. /\ \A i \in 1..Len(clients') : clients'[i] =< conns
          /\ \A i, j \in 1..Len(clients') : i # j => clients'[i] # clients'[j]
          /\ \A i \in 1..Len(clients') : \A j \in 1..Len(rest) : clients'[i] # rest[j]
      BY <2>3, <3>1, <3>2, <3>4 DEF ListInv
    <3> QED
      BY <2>1, <2>3, <3>3, <3>5 DEF ListInv
  <2> QED
    BY <2>1, <2>4, <2>5
<1>3. ASSUME NEW c \in Consumers, Connect(c) PROVE ListInv'
  <2>1. conns' = conns + 1 /\ conns' \in Conns /\ clients' = clients
    BY <1>0, <1>3, Constants DEF Connect, Conns
  <2>2. backlog' = Append(backlog, conns')
    BY <1>3 DEF Connect
  <2>3. /\ Len(backlog') = Len(backlog) + 1 /\ backlog'[Len(backlog) + 1] = conns + 1
        /\ \A i \in 1..Len(backlog) : backlog'[i] = backlog[i]
    BY <1>0, <2>1, <2>2, AppendSet DEF ListTyped
  <2>4. \A i \in 1..Len(backlog') : i \in 1..Len(backlog) \/ i = Len(backlog) + 1
    BY <1>0, <2>3
  <2>5. Len(clients) + Len(backlog') =< conns'
    BY <1>0, <2>1, <2>3 DEF ListInv
  <2>6. /\ \A i \in 1..Len(clients) : clients[i] =< conns' /\ clients[i] # conns + 1
        /\ \A i \in 1..Len(backlog) : backlog[i] =< conns' /\ backlog[i] # conns + 1
    BY <1>0, <2>1 DEF ListInv
  <2>7. \A i \in 1..Len(backlog') : backlog'[i] =< conns'
    BY <1>0, <2>1, <2>3, <2>4, <2>6
  <2>8. /\ \A i, j \in 1..Len(backlog') : i # j => backlog'[i] # backlog'[j]
        /\ \A i \in 1..Len(clients) : \A j \in 1..Len(backlog') : clients[i] # backlog'[j]
    BY <2>3, <2>4, <2>6 DEF ListInv
  <2> QED
    BY <2>1, <2>5, <2>6, <2>7, <2>8 DEF ListInv
<1>4. CASE \/ \E fence \in BOOLEAN : BeginPublish(fence)
           \/ HandshakePool \/ Reannounce \/ SendFence \/ SendPool \/ SendFenceDone \/ SendPoolDone
           \/ StoreDescriptor \/ AcceptDone
           \/ \E c \in Consumers : RunHandshake(c) \/ RunDrain(c) \/ HandOut(c) \/ Exit(c)
           \/ UNCHANGED vars
  <2> SUFFICES UNCHANGED <<clients, backlog, conns>>
    BY <1>1
  <2> QED
    BY <1>4 DEF BeginPublish, HandshakePool, Reannounce, SendFence, SendPool, SendFenceDone,
                SendPoolDone, StoreDescriptor, AcceptDone, RunHandshake, RunDrain, HandOut, Exit,
                Attach, HandshakeTimeout, DrainBegin, DrainOne, DrainEnd, vars, sockVars
<1> QED
  BY <1>2, <1>3, <1>4 DEF Next, RunPublisher

LEMMA StepPhase == TypeOK /\ PhaseInv /\ [Next]_vars => PhaseInv'
<1> SUFFICES ASSUME TypeOK, PhaseInv, [Next]_vars PROVE PhaseInv'
  OBVIOUS
<1>0. PubTyped /\ seqno \in Nat /\ frame \in Nat
  BY TypeParts, Constants DEF AllTyped, PubTyped
<1>1. CASE UNCHANGED <<seqno, frame, ppc, gating>>
  BY <1>1 DEF PhaseInv
<1>2. ASSUME NEW fence \in BOOLEAN, BeginPublish(fence) PROVE PhaseInv'
  BY <1>0, <1>2 DEF BeginPublish, PhaseInv
<1>3. CASE \/ HandshakePool \/ Reannounce \/ SendFenceDone \/ SendPoolDone \/ StoreDescriptor
           \/ AcceptDone \/ Accept
  BY <1>0, <1>3 DEF HandshakePool, Reannounce, SendFenceDone, SendPoolDone, StoreDescriptor,
                    AcceptDone, Accept, PhaseInv
<1>4. CASE \/ SendFence \/ SendPool
           \/ \E c \in Consumers : Connect(c) \/ RunHandshake(c) \/ RunDrain(c) \/ HandOut(c) \/ Exit(c)
           \/ UNCHANGED vars
  <2> SUFFICES UNCHANGED <<seqno, frame, ppc, gating>>
    BY <1>1
  <2> QED
    BY <1>4 DEF SendFence, SendPool, Connect, RunHandshake, RunDrain, HandOut, Exit, Attach,
                HandshakeTimeout, DrainBegin, DrainOne, DrainEnd, vars, pubVars
<1> QED
  BY <1>2, <1>3, <1>4 DEF Next, RunPublisher

-----------------------------------------------------------------------------
(* The order of the fences                                                  *)

LEMMA NewestTyped ==
  ASSUME TypeOK, PhaseInv, NEW k
  PROVE  Newest(k) \in Nat /\ Newest(k) =< seqno /\ seqno \in Nat
         /\ (Pending(k) => seqno = Newest(k) + 1) /\ (~Pending(k) => Newest(k) = seqno)
<1>1. seqno \in Nat /\ frame \in Nat
  BY Numbers DEF TypeOK
<1>2. Pending(k) => seqno = frame + 1
  BY DEF Pending, PhaseInv
<1> QED
  BY <1>1, <1>2 DEF Newest

LEMMA BeforeNext ==
  ASSUME NEW m \in Nat, NEW n \in Nat, n = m + 1
  PROVE  m =< n
  OBVIOUS

LEMMA NewestTypedPrime ==
  ASSUME TypeOK', PhaseInv', NEW k
  PROVE  /\ Newest(k)' \in Nat /\ Newest(k)' =< seqno' /\ seqno' \in Nat
         /\ (Pending(k)' => seqno' = Newest(k)' + 1) /\ (~Pending(k)' => Newest(k)' = seqno')
<1>1. seqno' \in Nat /\ frame' \in Nat
  BY Numbers DEF TypeOK
<1>2. Pending(k)' => seqno' = frame' + 1
  BY DEF Pending, PhaseInv
<1>3. CASE Pending(k)'
  <2>1. Newest(k)' = frame' /\ seqno' = frame' + 1
    BY <1>2, <1>3 DEF Newest
  <2>2. frame' =< seqno'
    BY <1>1, <2>1, BeforeNext
  <2> QED
    BY <1>1, <1>3, <2>1, <2>2
<1>4. CASE ~Pending(k)'
  <2>1. Newest(k)' = seqno'
    BY <1>4 DEF Newest
  <2>2. seqno' =< seqno'
    BY <1>1
  <2> QED
    BY <1>1, <1>4, <2>1, <2>2
<1> QED
  BY <1>3, <1>4

\* A step of the broadcast takes one client off those it has yet to reach.
LEMMA BroadcastStep ==
  ASSUME TypeOK, ListInv, SendFence, NEW k
  PROVE  IF k = clients[pos] THEN Pending(k) /\ ~Pending(k)' ELSE Pending(k)' <=> Pending(k)
<1>1. pos \in 1..Len(clients) /\ Len(clients) \in Nat
  BY BroadcastFacts DEF SendFence
<1>2. ppc = "sendFence" /\ ppc' = "sendFence" /\ pos' = pos + 1 /\ clients' = clients
  BY DEF SendFence
<1>3. \A i : i \in pos..Len(clients) <=> i = pos \/ i \in (pos + 1)..Len(clients)
  BY <1>1
<1>4. \A i \in (pos + 1)..Len(clients) : clients[i] # clients[pos]
  BY <1>1 DEF ListInv
<1> QED
  BY <1>1, <1>2, <1>3, <1>4 DEF Pending

\* No client is behind the broadcast again before the next frame.
LEMMA NewestGrows ==
  ASSUME TypeOK, ListInv, PhaseInv, TypeOK', PhaseInv', [Next]_vars, NEW k
  PROVE  Newest(k) =< Newest(k)' /\ seqno =< seqno'
<1>0. /\ Newest(k) \in Nat /\ Newest(k) =< seqno /\ seqno \in Nat
      /\ (~Pending(k) => Newest(k) = seqno) /\ (Pending(k) => seqno = Newest(k) + 1)
      /\ Newest(k)' \in Nat /\ seqno' \in Nat
      /\ (~Pending(k)' => Newest(k)' = seqno') /\ (Pending(k)' => seqno' = Newest(k)' + 1)
  BY NewestTyped, NewestTypedPrime
<1>1. ASSUME NEW fence \in BOOLEAN, BeginPublish(fence) PROVE Newest(k) =< Newest(k)' /\ seqno =< seqno'
  <2>1. seqno' = seqno + 1
    BY <1>1 DEF BeginPublish
  <2> QED
    BY <1>0, <2>1
<1>2. CASE seqno' = seqno /\ (Pending(k)' => Pending(k))
  BY <1>0, <1>2
<1>3. CASE SendFence
  BY <1>2, <1>3, BroadcastStep DEF SendFence
<1>4. CASE \/ HandshakePool \/ Reannounce \/ SendPool \/ SendFenceDone \/ SendPoolDone
           \/ StoreDescriptor \/ AcceptDone \/ Accept
  BY <1>2, <1>4 DEF HandshakePool, Reannounce, SendPool, SendFenceDone, SendPoolDone,
                    StoreDescriptor, AcceptDone, Accept, Pending
<1>5. CASE \/ \E c \in Consumers : Connect(c) \/ RunHandshake(c) \/ RunDrain(c) \/ HandOut(c) \/ Exit(c)
           \/ UNCHANGED vars
  <2>1. UNCHANGED <<seqno, ppc, pos, clients>>
    BY <1>5 DEF Connect, RunHandshake, RunDrain, HandOut, Exit, Attach, HandshakeTimeout, DrainBegin,
                DrainOne, DrainEnd, vars, pubVars, sockVars
  <2> QED
    BY <1>2, <2>1 DEF Pending
<1> QED
  BY <1>1, <1>3, <1>4, <1>5 DEF Next, RunPublisher

QueueSound(k) == Ordered(queue[k]) /\ \A t \in ToSet(queue[k]) : t =< Newest(k)

LEMMA QueueParts == (QueueInv <=> \A k \in Conns : QueueSound(k))
                    /\ (QueueInv' <=> \A k \in Conns : QueueSound(k)')
  BY DEF QueueInv, QueueSound

\* What a step does to a queue: nothing, a message lost or received, or one sent.
LEMMA StepQueue ==
  ASSUME TypeOK, LinkInv, ListInv, PhaseInv, QueueInv, TypeOK', PhaseInv', [Next]_vars
  PROVE  QueueInv'
<1> SUFFICES ASSUME NEW k \in Conns PROVE QueueSound(k)'
  BY QueueParts
<1>0. PubTyped /\ ListTyped /\ QueueTyped /\ LinkTyped
  BY TypeParts DEF AllTyped
<1>1. /\ queue[k] \in Seq(Frames) /\ Ordered(queue[k])
      /\ \A t \in ToSet(queue[k]) : t \in Nat /\ t =< Newest(k)
  BY <1>0, SetOfSeq, Numbers DEF QueueTyped, QueueInv
<1>2. Newest(k) \in Nat /\ Newest(k)' \in Nat /\ Newest(k) =< Newest(k)' /\ PoolMsg = 0
  BY NewestTyped, NewestTypedPrime, NewestGrows DEF PoolMsg
<1>3. \A t \in ToSet(queue[k]) : t =< Newest(k)'
  BY <1>1, <1>2
<1>4. CASE queue'[k] = queue[k]
  BY <1>1, <1>3, <1>4 DEF QueueSound, Ordered
<1>5. CASE queue'[k] = <<>> \/ queue'[k] = <<PoolMsg>>
  <2>1. Ordered(queue'[k])
    BY <1>5, OrderedShort
  <2>2. ToSet(queue'[k]) \subseteq {PoolMsg}
    BY <1>5 DEF ToSet
  <2> QED
    BY <1>2, <2>1, <2>2 DEF QueueSound, Ordered
<1>6. CASE queue[k] # <<>> /\ queue'[k] = Tail(queue[k])
  <2>1. Ordered(queue'[k])
    BY <1>1, <1>6, OrderedTail
  <2>2. ToSet(queue'[k]) \subseteq ToSet(queue[k])
    BY <1>1, <1>6, TailSet
  <2> QED
    BY <1>3, <2>1, <2>2 DEF QueueSound, Ordered
<1>7. CASE queue'[k] = Append(queue[k], PoolMsg)
  <2>1. Ordered(queue'[k]) /\ ToSet(queue'[k]) = ToSet(queue[k]) \cup {PoolMsg}
    BY <1>1, <1>7, OrderedAppend, AppendSet, Constants
  <2> QED
    BY <1>2, <1>3, <2>1 DEF QueueSound, Ordered
<1>8. CASE SendFence
  <2>1. clients[pos] \in Conns /\ seqno \in Frames /\ seqno \in Nat
    BY <1>0, <1>8, BroadcastFacts, Numbers DEF SendFence, PubTyped
  <2>2. /\ \A j \in Conns \ {clients[pos]} : queue'[j] = queue[j]
        /\ queue'[clients[pos]] = IF clients[pos] \in open THEN Append(queue[clients[pos]], seqno)
                                                          ELSE queue[clients[pos]]
    BY <1>0, <1>8, <2>1, SendTyped DEF SendFence
  <2>3. CASE k = clients[pos] /\ clients[pos] \in open
    <3>1. seqno = Newest(k) + 1 /\ Newest(k)' = seqno
      BY <1>8, <2>3, BroadcastStep, NewestTyped, NewestTypedPrime DEF SendFence
    <3>2. \A t \in ToSet(queue[k]) : t < seqno
      BY <1>1, <1>2, <2>1, <3>1
    <3>3. queue'[k] = Append(queue[k], seqno)
      BY <2>2, <2>3
    <3>4. Ordered(Append(queue[k], seqno))
      BY <1>1, <2>1, <3>2, OrderedAppend
    <3>5. ToSet(Append(queue[k], seqno)) = ToSet(queue[k]) \cup {seqno}
      BY <1>1, <2>1, AppendSet
    <3>6. Ordered(queue'[k]) /\ ToSet(queue'[k]) = ToSet(queue[k]) \cup {seqno}
      BY <3>3, <3>4, <3>5
    <3> QED
      BY <1>3, <2>1, <3>1, <3>6 DEF QueueSound, Ordered
  <2> QED
    BY <1>4, <2>2, <2>3
<1>9. CASE SendPool
  <2>1. clients[pos] \in Conns
    BY <1>9, BroadcastFacts DEF SendPool
  <2> QED
    BY <1>0, <1>4, <1>7, <1>9, <2>1, SendTyped, Constants DEF SendPool
<1>10. CASE Accept
  BY <1>0, <1>4, <1>5, <1>10 DEF Accept, QueueTyped
<1>11. ASSUME NEW c \in Consumers, Connect(c) \/ Exit(c) PROVE QueueSound(k)'
  BY <1>4, <1>5, <1>11 DEF Connect, Exit, Hangup
<1>12. ASSUME NEW c \in Consumers, Attach(c) \/ DrainOne(c) PROVE QueueSound(k)'
  <2>1. queue' = [queue EXCEPT ![conn[c]] = Tail(queue[conn[c]])] /\ queue[conn[c]] # <<>>
    BY <1>12 DEF Attach, DrainOne
  <2> QED
    BY <1>0, <1>4, <1>6, <2>1 DEF QueueTyped
<1>13. CASE \/ \E fence \in BOOLEAN : BeginPublish(fence)
            \/ HandshakePool \/ Reannounce \/ SendFenceDone \/ SendPoolDone \/ StoreDescriptor
            \/ AcceptDone
            \/ \E c \in Consumers : \/ HandshakeTimeout(c) \/ DrainBegin(c) \/ DrainEnd(c)
                                    \/ HandOut(c)
            \/ UNCHANGED vars
  <2>1. queue' = queue
    BY <1>13 DEF BeginPublish, HandshakePool, Reannounce, SendFenceDone, SendPoolDone,
                 StoreDescriptor, AcceptDone, HandshakeTimeout, DrainBegin, DrainEnd, HandOut, vars,
                 sockVars
  <2> QED
    BY <1>4, <2>1
<1> QED
  BY <1>8, <1>9, <1>10, <1>11, <1>12, <1>13 DEF Next, RunPublisher, RunHandshake, RunDrain

-----------------------------------------------------------------------------
(* The rings                                                                *)

LEMMA RingEmptied ==
  ASSUME NEW d \in Consumers, ring'[d] = EmptyRing
  PROVE  RingTokens(d)' = {}
  BY DEF RingTokens, EmptyRing

LEMMA RingUntouched ==
  ASSUME NEW d \in Consumers, ring'[d] = ring[d]
  PROVE  RingTokens(d)' = RingTokens(d)
  BY DEF RingTokens

\* store_fence() overwrites one slot.
LEMMA RingStored ==
  ASSUME RingTyped, NEW c \in Consumers, NEW t \in Frames, t # 0, StoreFence(c, t)
  PROVE  /\ RingTokens(c)' = {t} \cup ({ring[c][i] : i \in (0..(RingSize - 1)) \ {ringNext[c]}} \ {0})
         /\ RingTokens(c)' \subseteq RingTokens(c) \cup {t}
         /\ \A d \in Consumers \ {c} : ring'[d] = ring[d]
         /\ ringNext[c] \in 0..(RingSize - 1)
<1>1. /\ ringNext[c] \in 0..(RingSize - 1)
      /\ \A i \in 0..(RingSize - 1) : ring'[c][i] = IF i = ringNext[c] THEN t ELSE ring[c][i]
      /\ \A d \in Consumers \ {c} : ring'[d] = ring[d]
  BY DEF RingTyped, StoreFence
<1>2. RingTokens(c)' = {ring'[c][i] : i \in 0..(RingSize - 1)} \ {0}
  BY DEF RingTokens
<1>3. RingTokens(c)' = {t} \cup ({ring[c][i] : i \in (0..(RingSize - 1)) \ {ringNext[c]}} \ {0})
  BY <1>1, <1>2
<1> QED
  BY <1>1, <1>3 DEF RingTokens

\* A ring stays sound when nothing new comes into it or its socket.
LEMMA RingKept ==
  ASSUME NEW d \in Consumers, NEW k, conn[d] = k, conn'[d] = k, RingSound(d),
         RingTokens(d)' \subseteq RingTokens(d), RingTokens(d) \subseteq Nat,
         seqno \in Nat, seqno' \in Nat, seqno =< seqno',
         Newest(k) \in Nat, Newest(k)' \in Nat, Newest(k) =< Newest(k)',
         k # 0 => \A q \in ToSet(queue'[k]) : q # PoolMsg => q \in ToSet(queue[k])
  PROVE  RingSound(d)'
<1> SUFFICES ASSUME NEW t \in RingTokens(d)'
             PROVE  /\ t =< seqno'
                    /\ k # 0 => /\ t =< Newest(k)'
                                /\ \A q \in ToSet(queue'[k]) : q # PoolMsg => t < q
  BY DEF RingSound
<1>1. t \in RingTokens(d) /\ t \in Nat /\ t =< seqno /\ (k # 0 => t =< Newest(k))
  BY DEF RingSound
<1>2. k # 0 => \A q \in ToSet(queue'[k]) : q # PoolMsg => t < q
  BY <1>1 DEF RingSound
<1> QED
  BY <1>1, <1>2

LEMMA StepRing ==
  ASSUME TypeOK, LinkInv, ListInv, PhaseInv, QueueInv, RingInv, TypeOK', PhaseInv', ListInv',
         [Next]_vars
  PROVE  RingInv'
<1> SUFFICES ASSUME NEW d \in Consumers PROVE RingSound(d)'
  BY DEF RingInv
<1>0. PubTyped /\ ListTyped /\ QueueTyped /\ LinkTyped /\ RingTyped /\ RingSound(d)
  BY TypeParts DEF AllTyped, RingInv
<1> PICK k : k = conn[d]
  OBVIOUS
<1>1. RingTokens(d) \subseteq Nat /\ \A t \in RingTokens(d) : t \in Frames /\ t # 0
  BY <1>0, RingTokensTyped, Numbers
<1>2. /\ Newest(k) \in Nat /\ Newest(k)' \in Nat /\ Newest(k) =< Newest(k)'
      /\ seqno \in Nat /\ seqno' \in Nat /\ seqno =< seqno'
      /\ Newest(k) =< seqno /\ Newest(k)' =< seqno'
  BY NewestTyped, NewestTypedPrime, NewestGrows
<1>3. k # 0 => k \in Conns /\ k =< conns /\ queue[k] \in Seq(Frames)
  BY <1>0, ConnOf DEF QueueTyped
<1>k. CASE /\ conn'[d] = k /\ RingTokens(d)' \subseteq RingTokens(d)
           /\ k # 0 => \A q \in ToSet(queue'[k]) : q # PoolMsg => q \in ToSet(queue[k])
  BY <1>0, <1>1, <1>2, <1>k, RingKept
<1>e. CASE RingTokens(d)' = {}
  BY <1>e DEF RingSound
<1>4. CASE \/ \E fence \in BOOLEAN : BeginPublish(fence)
           \/ HandshakePool \/ Reannounce \/ SendFenceDone \/ SendPoolDone \/ StoreDescriptor
           \/ AcceptDone
           \/ \E c \in Consumers : \/ HandshakeTimeout(c) \/ DrainBegin(c) \/ DrainEnd(c)
                                   \/ HandOut(c)
           \/ UNCHANGED vars
  <2>1. UNCHANGED <<queue, conn, ring>>
    BY <1>4 DEF BeginPublish, HandshakePool, Reannounce, SendFenceDone, SendPoolDone,
                StoreDescriptor, AcceptDone, HandshakeTimeout, DrainBegin, DrainEnd, HandOut, vars,
                sockVars, consVars
  <2> QED
    BY <1>k, <2>1, RingUntouched
<1>5. CASE SendPool
  <2>0. clients[pos] \in Conns
    BY <1>5, BroadcastFacts DEF SendPool
  <2>1. k # 0 => queue'[k] = queue[k] \/ queue'[k] = Append(queue[k], PoolMsg)
    BY <1>0, <1>3, <1>5, <2>0, SendTyped, Constants DEF SendPool
  <2>2. k # 0 => ToSet(queue'[k]) \subseteq ToSet(queue[k]) \cup {PoolMsg}
    <3>1. k # 0 => ToSet(Append(queue[k], PoolMsg)) = ToSet(queue[k]) \cup {PoolMsg}
      BY <1>3, AppendSet, Constants
    <3> QED
      BY <2>1, <3>1
  <2> QED
    BY <1>5, <1>k, <2>2, RingUntouched DEF SendPool, consVars
<1>6. CASE Accept
  <2>1. k # 0 => queue'[k] = queue[k] \/ queue'[k] = <<PoolMsg>>
    BY <1>0, <1>3, <1>6 DEF Accept, QueueTyped
  <2>2. k # 0 => \A q \in ToSet(queue'[k]) : q # PoolMsg => q \in ToSet(queue[k])
    <3>1. ToSet(<<PoolMsg>>) = {PoolMsg}
      BY DEF ToSet
    <3> QED
      BY <2>1, <3>1
  <2> QED
    BY <1>6, <1>k, <2>2, RingUntouched DEF Accept, consVars
<1>7. CASE SendFence
  <2>1. clients[pos] \in Conns /\ seqno \in Frames /\ conn' = conn /\ ring' = ring /\ seqno' = seqno
    BY <1>0, <1>7, BroadcastFacts DEF SendFence, PubTyped, consVars
  <2>2. /\ \A j \in Conns \ {clients[pos]} : queue'[j] = queue[j]
        /\ queue'[clients[pos]] = IF clients[pos] \in open THEN Append(queue[clients[pos]], seqno)
                                                          ELSE queue[clients[pos]]
    BY <1>0, <1>7, <2>1, SendTyped DEF SendFence
  <2>3. CASE k # 0 /\ k = clients[pos] /\ k \in open
    <3>1. seqno = Newest(k) + 1 /\ Newest(k)' = seqno
      BY <1>7, <2>1, <2>3, BroadcastStep, NewestTyped, NewestTypedPrime
    <3>2. queue'[k] = Append(queue[k], seqno)
      BY <2>2, <2>3
    <3>3. ToSet(Append(queue[k], seqno)) = ToSet(queue[k]) \cup {seqno}
      BY <1>3, <2>1, <2>3, AppendSet
    <3>4. \A t \in RingTokens(d) :
            t \in Nat /\ t =< Newest(k) /\ \A q \in ToSet(queue[k]) : q # PoolMsg => t < q
      BY <1>0, <1>1, <2>3 DEF RingSound
    <3>5. \A t \in RingTokens(d) : t < seqno /\ t =< seqno
      BY <1>2, <3>1, <3>4
    <3>6. RingTokens(d)' = RingTokens(d)
      BY <2>1, RingUntouched
    <3> QED
      BY <2>1, <3>1, <3>2, <3>3, <3>4, <3>5, <3>6 DEF RingSound
  <2>4. CASE ~(k # 0 /\ k = clients[pos] /\ k \in open)
    <3>1. k # 0 => queue'[k] = queue[k]
      BY <1>3, <2>2, <2>4
    <3> QED
      BY <1>k, <2>1, <3>1, RingUntouched
  <2> QED
    BY <2>3, <2>4
<1>8. ASSUME NEW c \in Consumers, Connect(c) PROVE RingSound(d)'
  <2>1. CASE d # c
    <3>1. conn'[d] = k /\ ring' = ring
      BY <1>0, <1>8, <2>1 DEF Connect, LinkTyped
    <3>2. k # 0 => queue'[k] = queue[k] \/ queue'[k] = <<>>
      BY <1>3, <1>8 DEF Connect
    <3> QED
      BY <1>k, <3>1, <3>2, RingUntouched, EmptySet
  <2>2. CASE d = c
    <3>0. conns \in Nat /\ conns' \in Conns
      BY <1>0, <1>8, Numbers, Constants DEF Connect, ListTyped, Conns
    <3> PICK n : n = conns + 1
      OBVIOUS
    <3>1. conn'[d] = n /\ ring' = ring /\ conns' = n /\ n \in Conns /\ seqno' = seqno /\ clients' = clients
      BY <1>0, <1>8, <2>2, <3>0 DEF Connect, LinkTyped, pubVars
    <3>2. queue'[n] = <<>>
      <4>1. queue[n] = <<>>
        BY <3>0, <3>1 DEF LinkInv
      <4> QED
        BY <1>8, <3>1, <4>1 DEF Connect
    <3>3. ~Pending(n)'
      <4>1. \A i \in 1..Len(clients) : clients[i] \in Nat /\ clients[i] =< conns
        BY <1>0, Numbers DEF ListTyped, ListInv
      <4>2. \A i \in pos..Len(clients) : clients[i] # n
        <5>1. pos \in Nat \ {0} /\ Len(clients) \in Nat
          BY <1>0, Constants DEF PubTyped, ListTyped
        <5>2. \A i \in pos..Len(clients) : i \in 1..Len(clients)
          BY <5>1
        <5> QED
          BY <3>0, <4>1, <5>2
      <4> QED
        BY <1>8, <4>2 DEF Connect, Pending, pubVars
    <3>4. Newest(n)' = seqno
      BY <3>1, <3>3, NewestTypedPrime
    <3>5. RingTokens(d)' = RingTokens(d) /\ \A t \in RingTokens(d) : t =< seqno
      BY <1>0, <3>1, RingUntouched DEF RingSound
    <3> QED
      BY <3>1, <3>2, <3>4, <3>5, EmptySet DEF RingSound
  <2> QED
    BY <2>1, <2>2
<1>9. ASSUME NEW c \in Consumers, Attach(c) PROVE RingSound(d)'
  <2>1. CASE d = c
    BY <1>0, <1>9, <1>e, <2>1, RingEmptied DEF Attach, RingTyped
  <2>2. CASE d # c
    <3>1. ring'[d] = ring[d] /\ conn' = conn
      BY <1>0, <1>9, <2>2 DEF Attach, RingTyped
    <3>2. k # 0 => queue'[k] = queue[k]
      BY <1>0, <1>3, <1>9, <2>2 DEF Attach, LinkInv, QueueTyped
    <3> QED
      BY <1>k, <3>1, <3>2, RingUntouched
  <2> QED
    BY <2>1, <2>2
<1>10. ASSUME NEW c \in Consumers, Exit(c) PROVE RingSound(d)'
  <2>1. CASE d = c
    BY <1>0, <1>10, <1>e, <2>1, RingEmptied DEF Exit, RingTyped
  <2>2. CASE d # c
    <3>1. ring'[d] = ring[d] /\ conn'[d] = k
      BY <1>0, <1>10, <2>2 DEF Exit, RingTyped, LinkTyped
    <3>2. k # 0 => queue'[k] = queue[k] \/ queue'[k] = <<>>
      BY <1>3, <1>10 DEF Exit, Hangup
    <3> QED
      BY <1>k, <3>1, <3>2, RingUntouched, EmptySet
  <2> QED
    BY <2>1, <2>2
<1>11. ASSUME NEW c \in Consumers, DrainOne(c) PROVE RingSound(d)'
  <2>0. conn' = conn /\ queue' = [queue EXCEPT ![conn[c]] = Tail(queue[conn[c]])] /\ seqno' = seqno
        /\ UNCHANGED <<ppc, pos, clients, frame>>
    BY <1>11 DEF DrainOne, pubVars
  <2>1. CASE d # c
    <3>1. ring'[d] = ring[d]
      BY <1>0, <1>11, <2>1 DEF DrainOne, RingTyped, StoreFence
    <3>2. k # 0 => queue'[k] = queue[k]
      BY <1>0, <1>3, <2>0, <2>1 DEF LinkInv, QueueTyped
    <3> QED
      BY <1>k, <2>0, <3>1, <3>2, RingUntouched
  <2>2. CASE d = c
    <3>1. k # 0 /\ queue[k] # <<>> /\ queue'[k] = Tail(queue[k]) /\ Ordered(queue[k])
      BY <1>0, <1>3, <1>11, <2>0, <2>2 DEF DrainOne, LinkInv, QueueTyped, QueueInv
    <3> DEFINE t == Head(queue[k])
               rest == Tail(queue[k])
    <3>2. /\ t \in Frames /\ ToSet(queue[k]) = {t} \cup ToSet(rest)
          /\ \A q \in ToSet(rest) : q # PoolMsg => t < q
      BY <1>3, <3>1, TailSet, OrderedTail
    <3>3. CASE t = PoolMsg
      <4>1. ring' = ring
        BY <1>11, <2>2, <3>3 DEF DrainOne
      <4> QED
        BY <1>k, <2>0, <3>1, <3>2, <4>1, RingUntouched
    <3>4. CASE t # PoolMsg
      <4>1. StoreFence(c, t)
        BY <1>11, <2>2, <3>4 DEF DrainOne
      <4>2. RingTokens(d)' \subseteq RingTokens(d) \cup {t}
        BY <1>0, <2>2, <3>2, <3>4, <4>1, RingStored DEF PoolMsg
      <4>3. t \in Nat /\ t =< Newest(k)
        BY <1>3, <3>1, <3>2, Numbers DEF QueueInv
      <4>4. Newest(k)' = Newest(k) /\ t =< seqno
        <5>1. Newest(k)' = Newest(k)
          BY <2>0 DEF Newest, Pending
        <5> QED
          BY <1>2, <4>3, <5>1
      <4> HIDE DEF t, rest
      <4>5. \A r \in RingTokens(d) : /\ r =< seqno /\ r =< Newest(k)
                                    /\ \A q \in ToSet(queue[k]) : q # PoolMsg => r < q
        BY <1>0, <3>1 DEF RingSound
      <4>6. \A r \in RingTokens(d)' : /\ r =< seqno /\ r =< Newest(k)
                                     /\ \A q \in ToSet(rest) : q # PoolMsg => r < q
        BY <3>2, <4>2, <4>3, <4>4, <4>5
      <4>7. queue'[k] = rest
        BY <3>1 DEF rest
      <4> QED
        BY <2>0, <4>4, <4>6, <4>7 DEF RingSound
    <3> QED
      BY <3>3, <3>4
  <2> QED
    BY <2>1, <2>2
<1> QED
  BY <1>4, <1>5, <1>6, <1>7, <1>8, <1>9, <1>10, <1>11 DEF Next, RunPublisher, RunHandshake, RunDrain

\* StoreFence() takes the slot of the oldest fence and makes it the newest.
LEMMA StoreKeepsAge ==
  ASSUME NEW n \in 0..(RingSize - 1), NEW m, m = (n + 1) % RingSize,
         NEW t \in Nat, t # 0, NEW old \in [0..(RingSize - 1) -> Nat],
         \A i \in 0..(RingSize - 1) : old[i] # 0 => old[i] < t,
         \A i, j \in 0..(RingSize - 1) : Behind(i, j, n) /\ old[i] # 0 => old[j] >= old[i] + Gap(i, j)
  PROVE  /\ \A i \in 0..(RingSize - 1) : i # n /\ old[i] # 0 => t >= old[i] + Gap(i, n)
         /\ \A i, j \in 0..(RingSize - 1) :
              LET new == [old EXCEPT ![n] = t] IN
              Behind(i, j, m) /\ new[i] # 0 => new[j] >= new[i] + Gap(i, j)
<1> DEFINE Slots == 0..(RingSize - 1)
           last == IF n = 0 THEN RingSize - 1 ELSE n - 1
           new == [old EXCEPT ![n] = t]
<1>0. RingSize \in Nat /\ RingSize >= 2
  BY Constants
<1>1. m = (IF n + 1 = RingSize THEN 0 ELSE n + 1)
  BY NextSlot
<1>2. last \in Slots /\ last # n /\ Gap(last, n) = 1
  BY <1>0 DEF Gap
<1>3. ASSUME NEW i \in Slots, i # n, old[i] # 0 PROVE t >= old[i] + Gap(i, n)
  <2>1. CASE i = last
    BY <1>2, <1>3, <2>1
  <2>2. CASE i # last
    <3>1. Behind(i, last, n) /\ Gap(i, n) = Gap(i, last) + 1 /\ Gap(i, last) \in Nat
      BY <1>0, <1>3, <2>2 DEF Behind, Gap
    <3>2. old[last] >= old[i] + Gap(i, last)
      BY <1>2, <1>3, <3>1
    <3>3. old[last] # 0 /\ old[last] \in Nat /\ old[i] \in Nat
      BY <1>2, <1>3, <3>1, <3>2
    <3>4. old[last] < t
      BY <1>2, <3>3
    <3> QED
      BY <1>0, <3>1, <3>2, <3>3, <3>4 DEF Gap
  <2> QED
    BY <2>1, <2>2
<1>4. ASSUME NEW i \in Slots, NEW j \in Slots, Behind(i, j, m), new[i] # 0
      PROVE  new[j] >= new[i] + Gap(i, j)
  <2>1. CASE i = n
    BY <1>0, <1>1, <1>4, <2>1 DEF Behind
  <2>2. CASE i # n /\ j = n
    BY <1>3, <1>4, <2>2
  <2>3. CASE i # n /\ j # n
    <3>1. Behind(i, j, n)
      BY <1>0, <1>1, <1>4, <2>3 DEF Behind
    <3> QED
      BY <1>4, <2>3, <3>1
  <2> QED
    BY <2>1, <2>2, <2>3
<1> QED
  BY <1>3, <1>4

LEMMA StepAge ==
  ASSUME TypeOK, LinkInv, RingInv, AgeInv, [Next]_vars
  PROVE  AgeInv'
<1>0. QueueTyped /\ LinkTyped /\ RingTyped
  BY TypeParts DEF AllTyped
<1> DEFINE Slots == 0..(RingSize - 1)
           Aged(r, n) == \A i, j \in Slots : Behind(i, j, n) /\ r[i] # 0 => r[j] >= r[i] + Gap(i, j)
<1> SUFFICES ASSUME NEW d \in Consumers PROVE Aged(ring'[d], ringNext'[d])
  BY DEF AgeInv
<1>a. Aged(ring[d], ringNext[d])
  BY DEF AgeInv
<1>1. CASE ring'[d] = ring[d] /\ ringNext'[d] = ringNext[d]
  BY <1>1, <1>a
<1>2. CASE ring'[d] = EmptyRing
  BY <1>2 DEF EmptyRing
<1>3. ASSUME NEW c \in Consumers, DrainOne(c) PROVE Aged(ring'[d], ringNext'[d])
  <2>1. CASE c # d \/ Head(queue[conn[c]]) = PoolMsg
    BY <1>0, <1>1, <1>3, <2>1 DEF DrainOne, StoreFence, RingTyped
  <2>2. CASE c = d /\ Head(queue[conn[c]]) # PoolMsg
    <3> DEFINE t == Head(queue[conn[d]])
               n == ringNext[d]
               old == ring[d]
    <3>1. StoreFence(d, t) /\ queue[conn[d]] # <<>> /\ conn[d] \in Conns /\ conn[d] # 0
      BY <1>3, <2>2, ConnOf DEF DrainOne, LinkInv
    <3>2. t \in Frames /\ t \in Nat /\ t # 0 /\ t \in ToSet(queue[conn[d]])
      <4>1. queue[conn[d]] \in Seq(Frames)
        BY <1>0, <3>1 DEF QueueTyped
      <4> QED
        BY <2>2, <3>1, <4>1, TailSet, Numbers DEF PoolMsg
    <3>3. n \in Slots /\ old \in [Slots -> Nat]
      BY <1>0, Numbers DEF RingTyped
    <3>4. \A i \in Slots : old[i] # 0 => old[i] < t
      <4>1. \A i \in Slots : old[i] # 0 => old[i] \in RingTokens(d)
        BY DEF RingTokens
      <4> QED
        BY <2>2, <3>1, <3>2, <4>1 DEF RingInv, RingSound
    <3>5. ring'[d] = [old EXCEPT ![n] = t] /\ ringNext'[d] = (n + 1) % RingSize
      BY <1>0, <3>1 DEF StoreFence, RingTyped
    <3> PICK m : m = (n + 1) % RingSize
      OBVIOUS
    <3> HIDE DEF t, n, old
    <3>6. Aged(old, n)
      BY <1>a DEF old, n
    <3>7. Aged([old EXCEPT ![n] = t], m)
      BY <3>2, <3>3, <3>4, <3>6, StoreKeepsAge
    <3> QED
      BY <3>5, <3>7
  <2> QED
    BY <2>1, <2>2
<1>4. ASSUME NEW c \in Consumers, Attach(c) \/ Exit(c) PROVE Aged(ring'[d], ringNext'[d])
  BY <1>0, <1>1, <1>2, <1>4 DEF Attach, Exit, RingTyped
<1>5. CASE \/ \E fence \in BOOLEAN : BeginPublish(fence)
           \/ HandshakePool \/ Reannounce \/ RunPublisher
           \/ \E c \in Consumers : \/ Connect(c) \/ HandshakeTimeout(c) \/ DrainBegin(c) \/ DrainEnd(c)
                                   \/ HandOut(c)
           \/ UNCHANGED vars
  <2>1. UNCHANGED <<ring, ringNext>>
    BY <1>5 DEF BeginPublish, HandshakePool, Reannounce, RunPublisher, SendFence, SendPool,
                SendFenceDone, SendPoolDone, StoreDescriptor, Accept, AcceptDone, Connect,
                HandshakeTimeout, DrainBegin, DrainEnd, HandOut, vars, consVars
  <2> QED
    BY <1>1, <2>1
<1> QED
  BY <1>3, <1>4, <1>5 DEF Next, RunHandshake, RunDrain

-----------------------------------------------------------------------------
(* What is evicted, and what is not                                         *)

\* The fence that gives way is older than the new one by the size of the ring.
LEMMA Evicted ==
  ASSUME TypeOK, AgeInv, LinkInv, RingInv, NEW c \in Consumers, DrainOne(c),
         Head(queue[conn[c]]) # PoolMsg
  PROVE  /\ ringNext[c] \in 0..(RingSize - 1) /\ ring[c][ringNext[c]] \in Nat
         /\ Head(queue[conn[c]]) \in Frames
         /\ ring[c][ringNext[c]] # 0 =>
              /\ Head(queue[conn[c]]) >= ring[c][ringNext[c]] + RingSize
              /\ \A i \in 0..(RingSize - 1) \ {ringNext[c]} : ring[c][i] > ring[c][ringNext[c]]
<1> DEFINE Slots == 0..(RingSize - 1)
           n == ringNext[c]
           old == ring[c]
           t == Head(queue[conn[c]])
           last == IF n = 0 THEN RingSize - 1 ELSE n - 1
<1>0. RingSize \in Nat /\ RingSize >= 2
  BY Constants
<1>1. n \in Slots /\ old \in [Slots -> Nat]
  BY Numbers DEF TypeOK
<1>2. conn[c] \in Conns /\ conn[c] # 0 /\ queue[conn[c]] # <<>> /\ queue[conn[c]] \in Seq(Frames)
  BY ConnOf DEF DrainOne, LinkInv, TypeOK
<1>3. t \in Frames /\ t \in Nat /\ t \in ToSet(queue[conn[c]])
  BY <1>2, TailSet, Numbers
<1>4. \A i \in Slots : old[i] # 0 => old[i] < t
  <2>1. \A i \in Slots : old[i] # 0 => old[i] \in RingTokens(c)
    BY DEF RingTokens
  <2> QED
    BY <1>2, <1>3, <2>1 DEF RingInv, RingSound
<1>5. \A i, j \in Slots : Behind(i, j, n) /\ old[i] # 0 => old[j] >= old[i] + Gap(i, j)
  BY DEF AgeInv
<1> HIDE DEF n, old, t
<1>6. ASSUME old[n] # 0 PROVE t >= old[n] + RingSize /\ \A i \in Slots \ {n} : old[i] > old[n]
  <2>1. \A i \in Slots \ {n} : Behind(n, i, n) /\ Gap(n, i) \in Nat /\ Gap(n, i) > 0
    BY <1>0, <1>1 DEF Behind, Gap
  <2>2. \A i \in Slots \ {n} : old[i] >= old[n] + Gap(n, i) /\ old[i] \in Nat /\ old[n] \in Nat
    BY <1>1, <1>5, <1>6, <2>1
  <2>3. \A i \in Slots \ {n} : old[i] > old[n]
    BY <2>1, <2>2
  <2>4. last \in Slots \ {n} /\ Gap(n, last) = RingSize - 1
    BY <1>0, <1>1 DEF Gap
  <2>5. old[last] >= old[n] + (RingSize - 1) /\ old[last] \in Nat /\ old[n] \in Nat
    BY <2>2, <2>4
  <2>6. old[last] # 0 /\ old[last] < t
    BY <1>0, <1>4, <2>4, <2>5
  <2>7. t >= old[n] + RingSize
    BY <1>0, <1>3, <2>5, <2>6
  <2> QED
    BY <2>3, <2>7
<1>7. old[n] \in Nat
  BY <1>1
<1> QED
  BY <1>1, <1>3, <1>6, <1>7 DEF n, old, t

LEMMA ClientsAfterAccept ==
  ASSUME ListTyped, Accept, Head(backlog) \in open
  PROVE  Head(backlog) \in Conns /\ Clients' = Clients \cup {Head(backlog)}
<1>1. Head(backlog) \in Conns /\ clients \in Seq(Conns)
  BY TailSet DEF Accept, ListTyped
<1>2. ToSet(Append(clients, Head(backlog))) = ToSet(clients) \cup {Head(backlog)}
  BY <1>1, AppendSet
<1>3. clients' = Append(clients, Head(backlog))
  BY DEF Accept
<1> QED
  BY <1>1, <1>2, <1>3 DEF Clients

LEMMA StepAwait ==
  ASSUME TypeOK, LinkInv, ListInv, AwaitInv, [Next]_vars
  PROVE  AwaitInv'
<1>0. PubTyped /\ ListTyped /\ QueueTyped /\ LinkTyped
  BY TypeParts DEF AllTyped
<1> DEFINE Waits(d) == cpc[d] = "await" /\ conn[d] \in Clients =>
                         queue[conn[d]] # <<>> /\ Head(queue[conn[d]]) = PoolMsg
<1> SUFFICES ASSUME NEW d \in Consumers PROVE Waits(d)'
  BY DEF AwaitInv
<1> PICK k : k = conn[d]
  OBVIOUS
<1>1. Waits(d) /\ (k \in Clients => k \in Conns /\ k # 0)
  <2>1. Clients \subseteq Conns
    BY <1>0, SetOfSeq DEF ListTyped, Clients
  <2> QED
    BY <2>1, Numbers DEF AwaitInv
<1>2. CASE /\ conn'[d] = k /\ Clients' = Clients /\ (cpc'[d] = "await" => cpc[d] = "await")
           /\ k \in Clients => queue'[k] = queue[k]
  BY <1>1, <1>2
<1>3. CASE cpc'[d] # "await"
  BY <1>3
<1>4. CASE SendFence \/ SendPool
  <2>1. /\ clients[pos] \in Conns /\ seqno \in Frames /\ UNCHANGED <<clients, conn, cpc>>
        /\ \E m \in Frames : SendTo(clients[pos], m)
    BY <1>0, <1>4, BroadcastFacts, Constants DEF SendFence, SendPool, PubTyped, consVars
  <2>2. PICK m \in Frames : SendTo(clients[pos], m)
    BY <2>1
  <2>3. k \in Clients => queue'[k] = queue[k] \/ queue'[k] = Append(queue[k], m)
    BY <1>0, <1>1, <2>1, <2>2, SendTyped
  <2>4. ASSUME k \in Clients, queue[k] # <<>>, Head(queue[k]) = PoolMsg,
               queue'[k] = Append(queue[k], m)
        PROVE  queue'[k] # <<>> /\ Head(queue'[k]) = PoolMsg
    <3>1. queue[k] \in Seq(Frames)
      BY <1>0, <1>1, <2>4 DEF QueueTyped
    <3>2. Len(queue[k]) \in Nat /\ Len(queue[k]) # 0 /\ Head(queue[k]) = queue[k][1]
      BY <2>4, <3>1, TailSet
    <3>3. Append(queue[k], m) \in Seq(Frames) /\ Append(queue[k], m)[1] = queue[k][1]
          /\ Len(Append(queue[k], m)) = Len(queue[k]) + 1
      BY <3>1, <3>2, AppendSet
    <3>4. Append(queue[k], m) # <<>>
      BY <3>2, <3>3, EmptySet
    <3> QED
      BY <2>4, <3>2, <3>3, <3>4, TailSet
  <2> QED
    BY <1>1, <2>1, <2>3, <2>4 DEF Clients
<1>5. CASE Accept
  <2>1. UNCHANGED <<conn, cpc>> /\ Head(backlog) \in Conns
    BY <1>0, <1>5, TailSet DEF Accept, ListTyped, consVars
  <2>2. CASE Head(backlog) \in open
    <3>1. Clients' = Clients \cup {Head(backlog)}
      BY <1>0, <1>5, <2>2, ClientsAfterAccept
    <3>2. queue' = [queue EXCEPT ![Head(backlog)] = <<PoolMsg>>]
      BY <1>5, <2>2 DEF Accept
    <3>3. CASE k = Head(backlog)
      <4>1. queue'[k] = <<PoolMsg>>
        BY <1>0, <2>1, <3>2, <3>3 DEF QueueTyped
      <4> QED
        BY <2>1, <4>1
    <3>4. CASE k # Head(backlog)
      <4>1. k \in Clients => queue'[k] = queue[k]
        BY <1>0, <1>1, <3>2, <3>4 DEF QueueTyped
      <4> QED
        BY <1>1, <2>1, <3>1, <3>4, <4>1
    <3> QED
      BY <3>3, <3>4
  <2>3. CASE Head(backlog) \notin open
    BY <1>2, <1>5, <2>1, <2>3 DEF Accept, Clients
  <2> QED
    BY <2>2, <2>3
<1>6. ASSUME NEW c \in Consumers, Connect(c) PROVE Waits(d)'
  <2>1. clients' = clients /\ Clients' = Clients
    BY <1>6 DEF Connect, Clients
  <2>2. CASE c = d
    <3>1. conn'[d] = conns + 1 /\ conns \in Nat
      BY <1>0, <1>6, <2>2, Numbers DEF Connect, LinkTyped, ListTyped
    <3>2. conn'[d] \notin Clients
      <4>1. \A i \in 1..Len(clients) : clients[i] \in Nat /\ clients[i] =< conns
        BY <1>0, Numbers DEF ListTyped, ListInv
      <4>2. Clients = {clients[i] : i \in 1..Len(clients)}
        BY <1>0, SetOfSeq DEF ListTyped, Clients
      <4>3. \A i \in 1..Len(clients) : clients[i] # conns + 1
        BY <3>1, <4>1
      <4> QED
        BY <3>1, <4>2, <4>3
    <3> QED
      BY <2>1, <3>2
  <2>3. CASE c # d
    <3>1. conn'[d] = k /\ cpc'[d] = cpc[d]
      BY <1>0, <1>6, <2>3 DEF Connect, LinkTyped
    <3>2. k \in Clients => queue'[k] = queue[k]
      BY <1>1, <1>6, <2>3 DEF Connect, LinkInv
    <3> QED
      BY <1>2, <2>1, <3>1, <3>2
  <2> QED
    BY <2>2, <2>3
<1>7. ASSUME NEW c \in Consumers, Attach(c) \/ DrainOne(c) PROVE Waits(d)'
  <2>1. conn' = conn /\ Clients' = Clients /\ queue' = [queue EXCEPT ![conn[c]] = Tail(queue[conn[c]])]
    BY <1>7 DEF Attach, DrainOne, Clients
  <2>2. CASE c = d
    BY <1>0, <1>3, <1>7, <2>2 DEF Attach, DrainOne, LinkTyped
  <2>3. CASE c # d
    <3>1. cpc'[d] = cpc[d]
      BY <1>0, <1>7, <2>3 DEF Attach, DrainOne, LinkTyped
    <3>2. k \in Clients => queue'[k] = queue[k]
      BY <1>0, <1>1, <2>1, <2>3 DEF QueueTyped, LinkInv
    <3> QED
      BY <1>2, <2>1, <3>1, <3>2
  <2> QED
    BY <2>2, <2>3
<1>8. ASSUME NEW c \in Consumers, Exit(c) PROVE Waits(d)'
  <2>1. CASE c = d
    BY <1>0, <1>3, <1>8, <2>1 DEF Exit, LinkTyped
  <2>2. CASE c # d
    <3>1. conn'[d] = k /\ cpc'[d] = cpc[d] /\ Clients' = Clients
      BY <1>0, <1>8, <2>2 DEF Exit, LinkTyped, Clients
    <3>2. k \in Clients => queue'[k] = queue[k]
      BY <1>1, <1>8, <2>2 DEF Exit, Hangup, LinkInv
    <3> QED
      BY <1>2, <3>1, <3>2
  <2> QED
    BY <2>1, <2>2
<1>9. ASSUME NEW c \in Consumers, HandshakeTimeout(c) \/ DrainBegin(c) \/ DrainEnd(c) PROVE Waits(d)'
  <2>1. UNCHANGED <<conn, clients, queue>> /\ (cpc'[d] = "await" => cpc[d] = "await")
    BY <1>0, <1>9 DEF HandshakeTimeout, DrainBegin, DrainEnd, sockVars, LinkTyped
  <2> QED
    BY <1>2, <2>1 DEF Clients
<1>10. CASE \/ \E fence \in BOOLEAN : BeginPublish(fence)
            \/ HandshakePool \/ Reannounce \/ SendFenceDone \/ SendPoolDone \/ StoreDescriptor
            \/ AcceptDone \/ (\E c \in Consumers : HandOut(c)) \/ UNCHANGED vars
  <2>1. UNCHANGED <<conn, clients, queue, cpc>>
    BY <1>10 DEF BeginPublish, HandshakePool, Reannounce, SendFenceDone, SendPoolDone,
                 StoreDescriptor, AcceptDone, HandOut, vars, sockVars, consVars
  <2> QED
    BY <1>2, <2>1 DEF Clients
<1> QED
  BY <1>4, <1>5, <1>6, <1>7, <1>8, <1>9, <1>10 DEF Next, RunPublisher, RunHandshake, RunDrain

\* A client's fence is found again as long as it is one of the last two.
LEMMA FoundAfterDrain ==
  ASSUME TypeOK, LinkInv, QueueInv, RingInv, AgeInv, PhaseInv, NEW d \in Consumers, DrainOne(d),
         NEW x \in Nat, x # 0, x \in Found(d), x + 1 >= seqno
  PROVE  x \in Found(d)'
<1>0. QueueTyped /\ LinkTyped /\ RingTyped /\ PoolMsg = 0
  BY TypeParts DEF AllTyped, PoolMsg
<1> PICK k : k = conn[d]
  OBVIOUS
<1>1. k \in Conns /\ cpc[d] = "drain" /\ queue[k] \in Seq(Frames) /\ queue[k] # <<>>
  BY <1>0, ConnOf DEF DrainOne, QueueTyped
<1> PICK t : t = Head(queue[k])
  OBVIOUS
<1> PICK rest : rest = Tail(queue[k])
  OBVIOUS
<1>2. ToSet(queue[k]) = {t} \cup ToSet(rest) /\ t \in Frames /\ t \in Nat
  BY <1>1, TailSet, Numbers
<1>3. x \in {t} \cup ToSet(rest) \cup RingTokens(d)
  BY <1>1, <1>2 DEF Found
<1>4. conn' = conn /\ cpc' = cpc /\ queue'[k] = rest
  BY <1>0, <1>1 DEF DrainOne, QueueTyped
<1>5. Found(d)' = ToSet(rest) \cup RingTokens(d)'
  BY <1>1, <1>4 DEF Found
<1>6. CASE t = PoolMsg
  <2>1. RingTokens(d)' = RingTokens(d)
    BY <1>6, RingUntouched DEF DrainOne
  <2> QED
    BY <1>0, <1>3, <1>5, <1>6, <2>1
<1>7. CASE t # PoolMsg
  <2>1. StoreFence(d, t)
    BY <1>7 DEF DrainOne
  <2>2. RingTokens(d)' = {t} \cup ({ring[d][i] : i \in (0..(RingSize - 1)) \ {ringNext[d]}} \ {0})
    BY <1>0, <1>2, <1>7, <2>1, RingStored
  <2>3. ring[d][ringNext[d]] # 0 => t >= ring[d][ringNext[d]] + RingSize
    BY <1>7, Evicted
  <2>4. t =< seqno /\ seqno \in Nat
    <3>1. t =< Newest(k) /\ Newest(k) \in Nat /\ Newest(k) =< seqno /\ seqno \in Nat
      BY <1>1, <1>2, NewestTyped DEF QueueInv
    <3> QED
      BY <1>2, <3>1
  <2>5. x # ring[d][ringNext[d]]
    BY <1>2, <2>3, <2>4, Constants
  <2>6. x \in RingTokens(d) => x \in RingTokens(d)'
    BY <2>2, <2>5 DEF RingTokens
  <2> QED
    BY <1>3, <1>5, <2>2, <2>6
<1> QED
  BY <1>6, <1>7

\* Receiving the pool leaves what is behind it.
LEMMA FoundAfterAttach ==
  ASSUME TypeOK, LinkInv, AwaitInv, NEW d \in Consumers, conn[d] \in Clients, Attach(d),
         NEW x \in Nat, x # 0, x \in Found(d)
  PROVE  x \in Found(d)'
<1>0. QueueTyped /\ LinkTyped /\ PoolMsg = 0
  BY TypeParts DEF AllTyped, PoolMsg
<1> PICK k : k = conn[d]
  OBVIOUS
<1>1. /\ k \in Conns /\ cpc[d] = "await" /\ queue[k] \in Seq(Frames) /\ queue[k] # <<>>
      /\ Head(queue[k]) = PoolMsg
  BY <1>0, ConnOf DEF Attach, QueueTyped, AwaitInv
<1>2. ToSet(queue[k]) = {PoolMsg} \cup ToSet(Tail(queue[k])) /\ x \in ToSet(queue[k])
  BY <1>1, TailSet DEF Found
<1>3. x \in ToSet(Tail(queue[k]))
  BY <1>0, <1>2
<1>4. conn' = conn /\ queue'[k] = Tail(queue[k])
  BY <1>0, <1>1 DEF Attach, QueueTyped
<1>5. ToSet(queue'[k]) = ToSet(Tail(queue[k]))
  BY <1>4
<1> QED
  BY <1>3, <1>4, <1>5 DEF Found

\* What is sent to a consumer that is still there reaches its socket.
LEMMA FoundAfterSend ==
  ASSUME TypeOK, LinkInv, ListInv, NEW m \in Frames, pos =< Len(clients),
         SendTo(clients[pos], m), UNCHANGED <<consVars, open>>, NEW d \in Consumers, conn[d] # 0
  PROVE  Found(d) \subseteq Found(d)' /\ (conn[d] = clients[pos] => m \in Found(d)')
<1>0. QueueTyped /\ LinkTyped
  BY TypeParts DEF AllTyped
<1> PICK k : k = conn[d]
  OBVIOUS
<1> PICK s : s = clients[pos]
  OBVIOUS
<1>1. s \in Conns /\ k \in Conns /\ k \in open /\ conn' = conn /\ cpc' = cpc /\ ring' = ring
  BY BroadcastFacts, ConnOf DEF consVars
<1>2. queue[k] \in Seq(Frames)
  BY <1>0, <1>1 DEF QueueTyped
<1>3. ToSet(Append(queue[k], m)) = ToSet(queue[k]) \cup {m}
  BY <1>2, AppendSet
<1>4. queue'[k] = IF k = s THEN Append(queue[k], m) ELSE queue[k]
  BY <1>0, <1>1, SendTyped
<1>5. ToSet(queue[k]) \subseteq ToSet(queue'[k]) /\ (k = s => m \in ToSet(queue'[k]))
  BY <1>3, <1>4
<1>6. RingTokens(d)' = RingTokens(d)
  BY <1>1, RingUntouched
<1> QED
  BY <1>1, <1>5, <1>6 DEF Found

Reaches(d) ==
  conn[d] \in Clients =>
    /\ gated /\ since[conn[d]] < frame => frame \in Found(d)
    /\ Reached(conn[d]) => seqno \in Found(d)

LEMMA StepReach ==
  ASSUME TypeOK, LinkInv, ListInv, PhaseInv, QueueInv, RingInv, AgeInv, AwaitInv, ReachInv,
         [Next]_vars
  PROVE  ReachInv'
<1> SUFFICES ASSUME NEW d \in Consumers PROVE Reaches(d)'
  BY DEF ReachInv, Reaches
<1>0. PubTyped /\ ListTyped /\ QueueTyped /\ LinkTyped
  BY TypeParts DEF AllTyped
<1> PICK k : k = conn[d]
  OBVIOUS
<1>1. /\ k \in Clients => k \in Conns /\ k # 0 /\ since[k] \in Nat /\ k \in open
      /\ frame \in Nat /\ seqno \in Nat /\ seqno =< frame + 1 /\ frame =< seqno
      /\ Clients = {clients[i] : i \in 1..Len(clients)}
  <2>1. Clients \subseteq Conns /\ Clients = {clients[i] : i \in 1..Len(clients)}
    BY <1>0, SetOfSeq DEF ListTyped, Clients
  <2>2. frame \in Nat /\ seqno \in Nat
    BY <1>0, Numbers DEF PubTyped
  <2>3. seqno =< frame + 1 /\ frame =< seqno
    BY <2>2 DEF PhaseInv
  <2>4. k \in Conns => k # 0 /\ since[k] \in Nat /\ k \in open
    BY <1>0, Numbers, ConnOf DEF LinkTyped
  <2> QED
    BY <2>1, <2>2, <2>3, <2>4
<1>2. Reaches(d)
  BY DEF ReachInv, Reaches
\* The publisher's state is as it was, and nothing that counts is lost.
<1>s. CASE /\ UNCHANGED <<frame, gated, since, seqno, ppc, gating, pos, clients>> /\ conn'[d] = k
           /\ k \in Clients => \A x \in Nat : x # 0 /\ x \in Found(d) /\ x + 1 >= seqno => x \in Found(d)'
  <2>1. Clients' = Clients /\ Reached(k)' = Reached(k)
    BY <1>s DEF Clients, Reached
  <2>2. Reached(k) => seqno = frame + 1
    BY DEF Reached, PhaseInv
  <2>3. k \in Clients /\ gated /\ since[k] < frame => frame \in Found(d)'
    BY <1>1, <1>2, <1>s DEF Reaches
  <2>4. k \in Clients /\ Reached(k) => seqno \in Found(d)'
    BY <1>1, <1>2, <1>s, <2>2 DEF Reaches
  <2> QED
    BY <1>s, <2>1, <2>3, <2>4 DEF Reaches
<1>3. ASSUME NEW fence \in BOOLEAN, BeginPublish(fence) PROVE Reaches(d)'
  <2>1. UNCHANGED <<sockVars, consVars, frame, gated>> /\ pos' = 1
        /\ (ppc' = "store" => ~gating') /\ ppc' \in {"store", "sendFence"}
    BY <1>3 DEF BeginPublish
  <2>2. Found(d)' = Found(d) /\ Clients' = Clients /\ conn'[d] = k /\ since' = since
    BY <2>1 DEF sockVars, consVars, Found, Clients, RingTokens
  <2>3. ~Reached(k)'
    BY <2>1 DEF Reached
  <2> QED
    BY <1>2, <2>1, <2>2, <2>3 DEF Reaches
<1>4. CASE SendFence
  <2>1. /\ seqno \in Frames /\ UNCHANGED <<consVars, open, clients, since, seqno, frame, gated, ppc>>
        /\ pos =< Len(clients) /\ SendTo(clients[pos], seqno) /\ pos' = pos + 1 /\ ppc = "sendFence"
    BY <1>0, <1>4 DEF SendFence, PubTyped
  <2>2. k \in Clients => Found(d) \subseteq Found(d)' /\ (k = clients[pos] => seqno \in Found(d)')
    BY <1>1, <2>1, FoundAfterSend
  <2>3. Reached(k)' => Reached(k) \/ k = clients[pos]
    <3>1. pos \in Nat
      BY <1>0 DEF PubTyped
    <3>2. \A i \in 1..Len(clients) : i < pos + 1 => i < pos \/ i = pos
      BY <3>1
    <3> QED
      BY <2>1, <3>2 DEF Reached
  <2>4. conn'[d] = k /\ Clients' = Clients
    BY <2>1 DEF consVars, Clients
  <2> QED
    BY <1>2, <2>1, <2>2, <2>3, <2>4 DEF Reaches
<1>5. CASE SendPool
  <2>1. /\ UNCHANGED <<consVars, open, clients, since, seqno, frame, gated, ppc>>
        /\ pos =< Len(clients) /\ SendTo(clients[pos], PoolMsg) /\ ppc = "sendPool"
    BY <1>5 DEF SendPool
  <2>2. k \in Clients => Found(d) \subseteq Found(d)'
    BY <1>1, <2>1, FoundAfterSend, Constants
  <2>3. ~Reached(k)'
    BY <2>1 DEF Reached
  <2>4. conn'[d] = k /\ Clients' = Clients
    BY <2>1 DEF consVars, Clients
  <2> QED
    BY <1>2, <2>1, <2>2, <2>3, <2>4 DEF Reaches
<1>6. CASE SendFenceDone \/ StoreDescriptor \/ HandshakePool \/ Reannounce \/ SendPoolDone \/ AcceptDone
  <2>1. UNCHANGED <<sockVars, consVars>>
    BY <1>6 DEF SendFenceDone, StoreDescriptor, HandshakePool, Reannounce, SendPoolDone, AcceptDone
  <2>2. Found(d)' = Found(d) /\ Clients' = Clients /\ conn'[d] = k /\ since' = since /\ clients' = clients
    BY <2>1 DEF sockVars, consVars, Found, Clients, RingTokens
  <2>3. CASE SendFenceDone
    <3>1. k \in Clients => Reached(k)
      <4>1. pos \in Nat /\ Len(clients) \in Nat /\ pos > Len(clients) /\ ppc = "sendFence"
        BY <1>0, <2>3 DEF SendFenceDone, PubTyped, ListTyped
      <4>2. \A i \in 1..Len(clients) : i < pos
        BY <4>1
      <4> QED
        BY <1>1, <4>1, <4>2 DEF Reached
    <3> QED
      BY <1>2, <2>2, <2>3, <3>1 DEF SendFenceDone, Reaches
  <2>4. CASE StoreDescriptor
    <3>1. (gated' => Reached(k)) /\ ~Reached(k)' /\ frame' = seqno
      BY <2>4 DEF StoreDescriptor, Reached
    <3> QED
      BY <1>2, <2>2, <3>1 DEF Reaches
  <2>5. CASE HandshakePool \/ Reannounce \/ SendPoolDone \/ AcceptDone
    <3>1. ~Reached(k)' /\ UNCHANGED <<frame, gated>>
      BY <2>5 DEF HandshakePool, Reannounce, SendPoolDone, AcceptDone, Reached
    <3> QED
      BY <1>2, <2>2, <3>1 DEF Reaches
  <2> QED
    BY <1>6, <2>3, <2>4, <2>5
<1>7. CASE Accept
  <2>1. /\ UNCHANGED <<consVars, frame, gated, seqno>> /\ frame = seqno /\ ~Reached(k)'
        /\ conn'[d] = k
    BY <1>7 DEF Accept, Reached, PhaseInv, consVars
  <2>2. CASE Head(backlog) \in open
    <3>1. Head(backlog) \in Conns /\ Clients' = Clients \cup {Head(backlog)}
      BY <1>0, <1>7, <2>2, ClientsAfterAccept
    <3>2. /\ queue' = [queue EXCEPT ![Head(backlog)] = <<PoolMsg>>]
          /\ since' = [since EXCEPT ![Head(backlog)] = seqno]
      BY <1>7, <2>2 DEF Accept
    <3>3. CASE k = Head(backlog)
      <4>1. since'[k] = seqno
        BY <1>0, <3>1, <3>2, <3>3 DEF LinkTyped
      <4>2. ~(since'[k] < frame')
        BY <1>1, <2>1, <4>1
      <4> QED
        BY <2>1, <4>2 DEF Reaches
    <3>4. CASE k # Head(backlog)
      <4>1. k \in Clients => queue'[k] = queue[k] /\ since'[k] = since[k]
        BY <1>0, <1>1, <3>1, <3>2, <3>4 DEF QueueTyped, LinkTyped
      <4>2. k \in Clients => Found(d)' = Found(d)
        BY <2>1, <4>1 DEF Found, consVars, RingTokens
      <4> QED
        BY <1>2, <2>1, <3>1, <3>4, <4>1, <4>2 DEF Reaches
    <3> QED
      BY <3>3, <3>4
  <2>3. CASE Head(backlog) \notin open
    <3>1. UNCHANGED <<queue, clients, since>>
      BY <1>7, <2>3 DEF Accept
    <3>2. Found(d)' = Found(d) /\ Clients' = Clients
      BY <2>1, <3>1 DEF Found, consVars, RingTokens, Clients
    <3> QED
      BY <1>2, <2>1, <3>1, <3>2 DEF Reaches
  <2> QED
    BY <2>2, <2>3
<1>8. ASSUME NEW c \in Consumers, Connect(c) PROVE Reaches(d)'
  <2>1. Clients' = Clients /\ UNCHANGED <<pubVars, clients, since, ring>>
    BY <1>8 DEF Connect, Clients
  <2>2. CASE c = d
    <3>1. conn'[d] = conns + 1 /\ conns \in Nat
      BY <1>0, <1>8, <2>2, Numbers DEF Connect, LinkTyped, ListTyped
    <3>2. \A i \in 1..Len(clients) : clients[i] \in Nat /\ clients[i] =< conns
      BY <1>0, Numbers DEF ListTyped, ListInv
    <3>3. \A i \in 1..Len(clients) : clients[i] # conns + 1
      BY <3>1, <3>2
    <3> QED
      BY <1>1, <2>1, <3>1, <3>3 DEF Reaches
  <2>3. CASE c # d
    <3>1. conn'[d] = k /\ cpc'[d] = cpc[d]
      BY <1>0, <1>8, <2>3 DEF Connect, LinkTyped
    <3>2. k \in Clients => queue'[k] = queue[k]
      BY <1>1, <1>8, <2>3 DEF Connect, LinkInv
    <3>3. k \in Clients => Found(d)' = Found(d)
      BY <2>1, <3>1, <3>2 DEF Found, RingTokens
    <3> QED
      BY <1>s, <2>1, <3>1, <3>3 DEF pubVars
  <2> QED
    BY <2>2, <2>3
<1>9. ASSUME NEW c \in Consumers, Attach(c) \/ DrainOne(c) PROVE Reaches(d)'
  <2>1. /\ conn' = conn /\ UNCHANGED <<pubVars, clients, since>>
        /\ queue' = [queue EXCEPT ![conn[c]] = Tail(queue[conn[c]])]
    BY <1>9 DEF Attach, DrainOne
  <2>2. CASE c = d
    <3>1. k \in Clients => \A x \in Nat : x # 0 /\ x \in Found(d) /\ x + 1 >= seqno => x \in Found(d)'
      BY <1>9, <2>2, FoundAfterAttach, FoundAfterDrain
    <3> QED
      BY <1>s, <2>1, <3>1 DEF pubVars
  <2>3. CASE c # d
    <3>1. cpc'[d] = cpc[d] /\ ring'[d] = ring[d]
      <4>1. RingTyped
        BY TypeParts DEF AllTyped
      <4> QED
        BY <1>0, <1>9, <2>3, <4>1 DEF Attach, DrainOne, StoreFence, LinkTyped, RingTyped
    <3>2. k \in Clients => queue'[k] = queue[k]
      BY <1>0, <1>1, <2>1, <2>3 DEF QueueTyped, LinkInv
    <3>3. k \in Clients => Found(d)' = Found(d)
      BY <2>1, <3>1, <3>2 DEF Found, RingTokens
    <3> QED
      BY <1>s, <2>1, <3>3 DEF pubVars
  <2> QED
    BY <2>2, <2>3
<1>10. ASSUME NEW c \in Consumers, Exit(c) PROVE Reaches(d)'
  <2>1. Clients' = Clients /\ UNCHANGED <<pubVars, clients, since>>
    BY <1>10 DEF Exit, Clients
  <2>2. CASE c = d
    <3>1. conn'[d] = 0
      BY <1>0, <1>10, <2>2 DEF Exit, LinkTyped
    <3>2. 0 \notin Clients
      <4>1. \A i \in 1..Len(clients) : clients[i] # 0
        BY <1>0, Numbers DEF ListTyped
      <4> QED
        BY <1>1, <4>1
    <3> QED
      BY <2>1, <3>1, <3>2 DEF Reaches
  <2>3. CASE c # d
    <3>1. conn'[d] = k /\ cpc'[d] = cpc[d] /\ ring'[d] = ring[d]
      <4>1. RingTyped
        BY TypeParts DEF AllTyped
      <4> QED
        BY <1>0, <1>10, <2>3, <4>1 DEF Exit, LinkTyped, RingTyped
    <3>2. k \in Clients => queue'[k] = queue[k]
      BY <1>1, <1>10, <2>3 DEF Exit, Hangup, LinkInv
    <3>3. k \in Clients => Found(d)' = Found(d)
      BY <3>1, <3>2 DEF Found, RingTokens
    <3> QED
      BY <1>s, <2>1, <3>1, <3>3 DEF pubVars
  <2> QED
    BY <2>2, <2>3
<1>11. ASSUME NEW c \in Consumers, HandshakeTimeout(c) \/ DrainBegin(c) \/ DrainEnd(c) PROVE Reaches(d)'
  <2>1. UNCHANGED <<pubVars, sockVars, conn, ring>> /\ (cpc'[d] = "await" => cpc[d] = "await")
    BY <1>0, <1>11 DEF HandshakeTimeout, DrainBegin, DrainEnd, LinkTyped
  <2>2. Found(d) \subseteq Found(d)'
    BY <2>1 DEF Found, RingTokens, sockVars
  <2> QED
    BY <1>s, <2>1, <2>2 DEF pubVars, sockVars
<1>12. CASE (\E c \in Consumers : HandOut(c)) \/ UNCHANGED vars
  <2>1. UNCHANGED <<pubVars, sockVars, conn, ring, cpc>>
    BY <1>12 DEF HandOut, vars, consVars
  <2>2. Found(d)' = Found(d)
    BY <2>1 DEF Found, RingTokens, sockVars
  <2> QED
    BY <1>s, <2>1, <2>2 DEF pubVars, sockVars
<1> QED
  BY <1>3, <1>4, <1>5, <1>6, <1>7, <1>8, <1>9, <1>10, <1>11, <1>12
     DEF Next, RunPublisher, RunHandshake, RunDrain

-----------------------------------------------------------------------------
(* The theorems                                                             *)

LEMMA InitInv == Init => IInv
<1> SUFFICES ASSUME Init PROVE IInv
  OBVIOUS
<1>1. Clients = {} /\ \A k \in Conns : queue[k] = <<>>
  BY EmptySet DEF Init, Clients
<1>2. \A c \in Consumers : conn[c] = 0 /\ ring[c] = EmptyRing /\ RingTokens(c) = {}
  BY DEF Init, RingTokens, EmptyRing
<1>3. QueueInv
  BY <1>1, EmptySet, OrderedShort DEF QueueInv
<1>4. RingInv
  BY <1>2 DEF RingInv, RingSound
<1>5. AgeInv
  BY <1>2 DEF AgeInv, EmptyRing
<1>6. AwaitInv /\ ReachInv
  BY <1>1 DEF AwaitInv, ReachInv
<1> QED
  BY <1>3, <1>4, <1>5, <1>6, InitTyped, InitLinks DEF IInv

LEMMA StepInv == IInv /\ [Next]_vars => IInv'
<1> SUFFICES ASSUME IInv, [Next]_vars PROVE IInv'
  OBVIOUS
<1>1. TypeOK' /\ LinkInv' /\ ListInv' /\ PhaseInv'
  BY StepTyped, StepLink, StepList, StepPhase DEF IInv
<1>2. QueueInv' /\ RingInv' /\ AgeInv' /\ AwaitInv' /\ ReachInv'
  BY <1>1, StepQueue, StepRing, StepAge, StepAwait, StepReach DEF IInv
<1> QED
  BY <1>1, <1>2 DEF IInv

\* Connections, broadcasts, sockets and rings, together.
THEOREM Invariance == Spec => []IInv
  BY InitInv, StepInv, PTL DEF Spec

\* Every variable stays in its type, and no socket holds more than its capacity.
THEOREM TypeCorrectness == Spec => []TypeOK
<1>1. IInv => TypeOK
  BY DEF IInv
<1> QED
  BY <1>1, Invariance, PTL

LEMMA InOrderFromInv == IInv => FencesInOrder
<1> SUFFICES ASSUME IInv, NEW c \in Consumers, conn[c] # 0,
                    NEW i \in 1..Len(queue[conn[c]]), queue[conn[c]][i] # PoolMsg
             PROVE  /\ \A j \in 1..(i - 1) : queue[conn[c]][j] < queue[conn[c]][i]
                    /\ \A t \in RingTokens(c) : t < queue[conn[c]][i]
  BY DEF FencesInOrder
<1>1. conn[c] \in Conns /\ queue[conn[c]] \in Seq(Frames)
  BY ConnOf DEF IInv, TypeOK
<1>2. Ordered(queue[conn[c]]) /\ queue[conn[c]][i] \in ToSet(queue[conn[c]])
      /\ Len(queue[conn[c]]) \in Nat
  BY <1>1, SetOfSeq DEF IInv, QueueInv
<1>3. \A j \in 1..(i - 1) : j \in 1..Len(queue[conn[c]]) /\ j < i
  BY <1>2
<1>4. \A j \in 1..(i - 1) : queue[conn[c]][j] < queue[conn[c]][i]
  BY <1>2, <1>3 DEF Ordered
<1>5. \A t \in RingTokens(c) : t < queue[conn[c]][i]
  BY <1>2 DEF IInv, RingInv, RingSound
<1> QED
  BY <1>4, <1>5

\* A consumer's fences reach it in the order of the frames, and each once.
THEOREM FencesStayInOrder == Spec => []FencesInOrder
  BY Invariance, InOrderFromInv, PTL

LEMMA ReachableFromInv == IInv => FenceReachable
<1> SUFFICES ASSUME IInv, NEW c \in Consumers,
                    gated, cpc[c] # "await", conn[c] \in Clients, since[conn[c]] < frame
             PROVE  frame \in ToSet(queue[conn[c]]) \cup RingTokens(c)
  BY DEF FenceReachable
<1>1. frame \in Found(c)
  BY DEF IInv, ReachInv
<1> QED
  BY <1>1 DEF Found

\* A consumer accepted before a frame finds the frame's fence in its socket or
\* its ring as long as the frame is the newest, whatever is drained meanwhile.
THEOREM FencesReachable == Spec => []FenceReachable
  BY Invariance, ReachableFromInv, PTL

LEMMA StepNoLeak ==
  ASSUME IInv, NoFenceLeak, [Next]_vars
  PROVE  NoFenceLeak'
<1>0. RingTyped /\ \A c \in Consumers : 0 \notin RingTokens(c)
  BY TypeParts DEF IInv, AllTyped, RingTokens
<1> SUFFICES ASSUME NEW d \in Consumers PROVE fds'[d] = RingTokens(d)'
  BY DEF NoFenceLeak
<1>1. CASE fds'[d] = fds[d] /\ ring'[d] = ring[d]
  BY <1>1, RingUntouched DEF NoFenceLeak
<1>2. CASE fds'[d] = {} /\ ring'[d] = EmptyRing
  BY <1>2, RingEmptied
<1>3. ASSUME NEW c \in Consumers, DrainOne(c) PROVE fds'[d] = RingTokens(d)'
  <2>1. CASE c # d \/ Head(queue[conn[c]]) = PoolMsg
    BY <1>0, <1>1, <1>3, <2>1 DEF DrainOne, StoreFence, RingTyped
  <2>2. CASE c = d /\ Head(queue[conn[c]]) # PoolMsg
    <3> PICK t : t = Head(queue[conn[d]])
      OBVIOUS
    <3> PICK n : n = ringNext[d]
      OBVIOUS
    <3>1. /\ t \in Frames /\ t # 0 /\ n \in 0..(RingSize - 1)
          /\ ring[d][n] # 0 => \A i \in 0..(RingSize - 1) \ {n} : ring[d][i] > ring[d][n]
      BY <1>3, <2>2, Evicted DEF IInv, PoolMsg
    <3>2. StoreFence(d, t)
      BY <1>3, <2>2 DEF DrainOne
    <3>3. fds'[d] = (fds[d] \ {ring[d][n]}) \cup {t}
      BY <1>0, <3>2 DEF StoreFence, RingTyped
    <3>4. RingTokens(d)' = {t} \cup ({ring[d][i] : i \in (0..(RingSize - 1)) \ {n}} \ {0})
      BY <1>0, <3>1, <3>2, RingStored
    <3>5. fds[d] = {ring[d][i] : i \in 0..(RingSize - 1)} \ {0}
      BY DEF NoFenceLeak, RingTokens
    <3>6. \A i \in 0..(RingSize - 1) : ring[d][i] \in Nat
      BY <1>0, Numbers DEF RingTyped
    <3>7. \A i \in 0..(RingSize - 1) \ {n} : ring[d][i] # 0 => ring[d][i] # ring[d][n]
      BY <3>1, <3>6
    <3> QED
      BY <3>1, <3>3, <3>4, <3>5, <3>7
  <2> QED
    BY <2>1, <2>2
<1>4. ASSUME NEW c \in Consumers, Attach(c) PROVE fds'[d] = RingTokens(d)'
  <2>1. CASE c = d
    <3>1. fds'[d] = fds[d] \ RingTokens(d) /\ ring'[d] = EmptyRing
      BY <1>0, <1>4, <2>1 DEF Attach, RingTyped
    <3> QED
      BY <1>2, <3>1 DEF NoFenceLeak
  <2>2. CASE c # d
    BY <1>0, <1>1, <1>4, <2>2 DEF Attach, RingTyped
  <2> QED
    BY <2>1, <2>2
<1>5. ASSUME NEW c \in Consumers, Exit(c) PROVE fds'[d] = RingTokens(d)'
  BY <1>0, <1>1, <1>2, <1>5 DEF Exit, RingTyped
<1>6. CASE \/ \E fence \in BOOLEAN : BeginPublish(fence)
           \/ HandshakePool \/ Reannounce \/ RunPublisher
           \/ \E c \in Consumers : \/ Connect(c) \/ HandshakeTimeout(c) \/ DrainBegin(c) \/ DrainEnd(c)
                                   \/ HandOut(c)
           \/ UNCHANGED vars
  <2>1. UNCHANGED <<ring, fds>>
    BY <1>6 DEF BeginPublish, HandshakePool, Reannounce, RunPublisher, SendFence, SendPool,
                SendFenceDone, SendPoolDone, StoreDescriptor, Accept, AcceptDone, Connect,
                HandshakeTimeout, DrainBegin, DrainEnd, HandOut, vars, consVars
  <2> QED
    BY <1>1, <2>1
<1> QED
  BY <1>3, <1>4, <1>5, <1>6 DEF Next, RunHandshake, RunDrain

\* The descriptors a consumer holds for fences are exactly those of its ring:
\* eviction, detach() and exit close each of them.
THEOREM NoFenceLeaks == Spec => []NoFenceLeak
<1>1. Init => NoFenceLeak
  BY DEF Init, NoFenceLeak, RingTokens, EmptyRing
<1>2. IInv /\ NoFenceLeak /\ [Next]_vars => NoFenceLeak'
  BY StepNoLeak
<1> QED
  BY <1>1, <1>2, Invariance, PTL DEF Spec

\* What the borrowed descriptor of d's view needs to be open, or long superseded.
BorrowHolds(d, f) == f \in fds[d] \/ \E t \in RingTokens(d) : t >= f + RingSize

LEMMA BorrowedParts ==
  /\ BorrowedFenceOpen <=> \A d \in Consumers : view[d].fence > 0 => BorrowHolds(d, view[d].fence)
  /\ BorrowedFenceOpen' <=>
       \A d \in Consumers : view'[d].fence > 0 =>
         \/ view'[d].fence \in fds'[d]
         \/ \E t \in RingTokens(d)' : t >= view'[d].fence + RingSize
  BY DEF BorrowedFenceOpen, BorrowHolds

LEMMA StepBorrowed ==
  ASSUME IInv, NoFenceLeak, NoFenceLeak', BorrowedFenceOpen, [Next]_vars
  PROVE  BorrowedFenceOpen'
<1>0. RingTyped
  BY TypeParts DEF IInv, AllTyped
<1> SUFFICES ASSUME NEW d \in Consumers, view'[d].fence > 0
             PROVE  \/ view'[d].fence \in fds'[d]
                    \/ \E t \in RingTokens(d)' : t >= view'[d].fence + RingSize
  BY BorrowedParts
<1>1. CASE fds'[d] = fds[d] /\ ring'[d] = ring[d] /\ view'[d] = view[d]
  <2>1. RingTokens(d)' = RingTokens(d)
    BY <1>1, RingUntouched
  <2>2. BorrowHolds(d, view[d].fence)
    BY <1>1, BorrowedParts
  <2> QED
    BY <1>1, <2>1, <2>2 DEF BorrowHolds
<1>2. CASE view'[d] = NoView
  BY <1>2 DEF NoView
<1>3. ASSUME NEW c \in Consumers, DrainOne(c)
      PROVE  \/ view'[d].fence \in fds'[d]
             \/ \E t \in RingTokens(d)' : t >= view'[d].fence + RingSize
  <2>0. view' = view
    BY <1>3 DEF DrainOne
  <2>1. CASE c # d \/ Head(queue[conn[c]]) = PoolMsg
    BY <1>0, <1>1, <1>3, <2>0, <2>1 DEF DrainOne, StoreFence, RingTyped
  <2>2. CASE c = d /\ Head(queue[conn[c]]) # PoolMsg
    <3> PICK t : t = Head(queue[conn[d]])
      OBVIOUS
    <3> PICK n : n = ringNext[d]
      OBVIOUS
    <3> PICK f : f = view[d].fence
      OBVIOUS
    <3>1. /\ t \in Frames /\ t # 0 /\ n \in 0..(RingSize - 1) /\ ring[d][n] \in Nat
          /\ ring[d][n] # 0 => t >= ring[d][n] + RingSize
      BY <1>3, <2>2, Evicted DEF IInv, PoolMsg
    <3>2. StoreFence(d, t)
      BY <1>3, <2>2 DEF DrainOne
    <3>3. /\ RingTokens(d)' = {t} \cup ({ring[d][i] : i \in (0..(RingSize - 1)) \ {n}} \ {0})
          /\ fds'[d] = RingTokens(d)' /\ fds[d] = RingTokens(d)
      BY <1>0, <3>1, <3>2, RingStored DEF NoFenceLeak
    <3>4. \A x \in RingTokens(d) : x = ring[d][n] \/ x \in RingTokens(d)'
      BY <3>3 DEF RingTokens
    <3>5. f \in Nat /\ f > 0 /\ f = view'[d].fence
      BY <1>0, <2>0, Numbers DEF RingTyped
    <3>6. CASE f \in fds[d]
      <4>1. f = ring[d][n] \/ f \in fds'[d]
        BY <3>3, <3>4, <3>6
      <4>2. f = ring[d][n] => t >= f + RingSize /\ t \in RingTokens(d)'
        BY <3>1, <3>3, <3>5
      <4> QED
        BY <3>5, <4>1, <4>2
    <3>7. CASE f \notin fds[d]
      <4>1. PICK u \in RingTokens(d) : u >= f + RingSize
        BY <2>0, <3>5, <3>7, BorrowedParts DEF BorrowHolds
      <4>2. CASE u \in RingTokens(d)'
        BY <3>5, <4>1, <4>2
      <4>3. CASE u = ring[d][n]
        <5>1. t >= u + RingSize /\ u \in Nat /\ t \in Nat
          BY <1>0, <3>1, <3>5, <4>1, <4>3, Numbers, Constants
        <5>2. t >= f + RingSize
          BY <3>5, <4>1, <5>1, Constants
        <5> QED
          BY <3>3, <3>5, <5>2
      <4> QED
        BY <3>4, <4>2, <4>3
    <3> QED
      BY <3>6, <3>7
  <2> QED
    BY <2>1, <2>2
<1>4. ASSUME NEW c \in Consumers, HandOut(c)
      PROVE  \/ view'[d].fence \in fds'[d]
             \/ \E t \in RingTokens(d)' : t >= view'[d].fence + RingSize
  <2>1. UNCHANGED <<ring, fds>>
    BY <1>4 DEF HandOut
  <2>2. CASE c # d
    BY <1>0, <1>1, <1>4, <2>1, <2>2 DEF HandOut, RingTyped
  <2>3. CASE c = d
    <3>1. view'[d].fence = (IF gated THEN frame ELSE 0)
      BY <1>0, <1>4, <2>3 DEF HandOut, RingTyped
    <3>2. gated /\ frame \in RingTokens(d)
      BY <1>4, <2>3, <3>1 DEF HandOut
    <3> QED
      BY <2>1, <3>1, <3>2 DEF NoFenceLeak
  <2> QED
    BY <2>2, <2>3
<1>5. ASSUME NEW c \in Consumers, Attach(c) \/ Exit(c)
      PROVE  \/ view'[d].fence \in fds'[d]
             \/ \E t \in RingTokens(d)' : t >= view'[d].fence + RingSize
  BY <1>0, <1>1, <1>2, <1>5 DEF Attach, Exit, RingTyped
<1>6. CASE \/ \E fence \in BOOLEAN : BeginPublish(fence)
           \/ HandshakePool \/ Reannounce \/ RunPublisher
           \/ \E c \in Consumers : \/ Connect(c) \/ HandshakeTimeout(c) \/ DrainBegin(c) \/ DrainEnd(c)
           \/ UNCHANGED vars
  <2>1. UNCHANGED <<ring, fds, view>>
    BY <1>6 DEF BeginPublish, HandshakePool, Reannounce, RunPublisher, SendFence, SendPool,
                SendFenceDone, SendPoolDone, StoreDescriptor, Accept, AcceptDone, Connect,
                HandshakeTimeout, DrainBegin, DrainEnd, vars, consVars
  <2> QED
    BY <1>1, <2>1
<1> QED
  BY <1>3, <1>4, <1>5, <1>6 DEF Next, RunHandshake, RunDrain

\* A fence a view borrows is open until the ring has taken RingSize newer frames.
THEOREM BorrowedFencesOpen == Spec => []BorrowedFenceOpen
<1>1. Init => BorrowedFenceOpen
  BY DEF Init, BorrowedFenceOpen, NoView
<1>2. IInv /\ NoFenceLeak /\ NoFenceLeak' /\ BorrowedFenceOpen /\ [Next]_vars => BorrowedFenceOpen'
  BY StepBorrowed
<1> QED
  BY <1>1, <1>2, Invariance, NoFenceLeaks, PTL DEF Spec
=============================================================================
