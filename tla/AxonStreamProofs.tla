-------------------------- MODULE AxonStreamProofs --------------------------
(***************************************************************************)
(* Proofs about module AxonStream, for any set of consumers, any number of *)
(* buffers, frames and generations.                                        *)
(*                                                                         *)
(* Order and aliasing (OrderInv, NoDanglingFallback) hold for every        *)
(* producer.  That views stay intact (RingInv) is proved for a producer    *)
(* that retires the pool with no descriptor in hand and re-announces it    *)
(* before it acquires again: run retired_write shows what happens to one   *)
(* that does not.                                                          *)
(***************************************************************************)
EXTENDS AxonStream, Integers, SequenceTheorems, TLAPS

-----------------------------------------------------------------------------
(* Arithmetic of the ring                                                  *)

\* RingIndex is an index of the pool.
LEMMA RingIndexInRange ==
  ASSUME NEW n \in Nat
  PROVE  n % Buffers \in Indexes
  BY BuffersPositive, SMT DEF Indexes

\* Two frames that share a buffer are at least Buffers acquisitions apart.
LEMMA SameBufferLapped ==
  ASSUME NEW a \in Nat, NEW b \in Nat, a < b, a % Buffers = b % Buffers
  PROVE  b >= a + Buffers
<1>1. Buffers \in Nat \ {0}
  BY BuffersPositive
<1>2. /\ a = Buffers * (a \div Buffers) + (a % Buffers)
      /\ b = Buffers * (b \div Buffers) + (b % Buffers)
      /\ a \div Buffers \in Int /\ b \div Buffers \in Int
  BY <1>1, SMT
<1> DEFINE p == a \div Buffers
           q == b \div Buffers
           r == a % Buffers
<1>3. r \in Int
  BY <1>1, SMT
<1> HIDE DEF p, q, r
<1>4. a = Buffers * p + r /\ b = Buffers * q + r /\ p \in Int /\ q \in Int
  BY <1>2 DEF p, q, r
<1>5. q >= p + 1
  BY <1>1, <1>3, <1>4, SMT
<1>6. Buffers * q >= Buffers * (p + 1)
  BY <1>1, <1>4, <1>5, SMT
<1>7. Buffers * (p + 1) = Buffers * p + Buffers
  BY <1>1, <1>4, SMT
<1> QED
  BY <1>1, <1>3, <1>4, <1>6, <1>7, SMT

-----------------------------------------------------------------------------
(* Types                                                                   *)

USE DEF Gens, Frames, Indexes, Descs, NoHand, NoDesc, NoView

Hands == [frame : Frames, gen : 0..MaxGen, idx : Indexes, filled : BOOLEAN]

\* TypeOK, by the groups of variables that actions leave alone together.
PoolTyped == gen \in Gens /\ count \in [Gens -> {0, Buffers}] /\ content \in [Gens -> [Indexes -> Frames]]
PubTyped == /\ hostGen \in Gens /\ announced \in Gens /\ next \in Frames /\ hand \in Hands
            /\ ppc \in {"idle", "accept"} /\ slot \in Descs
LinkTyped == /\ link \in [Consumers -> {"none", "pending", "client"}]
             /\ msgs \in [Consumers -> Seq(Gens)]
             /\ \A c \in Consumers : Len(msgs[c]) =< MaxQueued
             /\ cpc \in [Consumers -> {"idle", "await"}]
ViewTyped == /\ poolGen \in [Consumers -> 0..MaxGen] /\ opened \subseteq Consumers
             /\ lastGood \in [Consumers -> Descs] /\ view \in [Consumers -> Descs]

LEMMA TypeParts == TypeOK <=> PoolTyped /\ PubTyped /\ LinkTyped /\ ViewTyped
  BY DEF TypeOK, PoolTyped, PubTyped, LinkTyped, ViewTyped, Hands

LEMMA InitTyped == Init => TypeOK
  BY BuffersPositive, StreamBoundsAreNat DEF Init, TypeOK

LEMMA PoolUntouched == PoolTyped /\ UNCHANGED poolVars => PoolTyped'
  BY DEF PoolTyped, poolVars
LEMMA PubUntouched == PubTyped /\ UNCHANGED pubVars => PubTyped'
  BY DEF PubTyped, pubVars
LEMMA LinkUntouched == LinkTyped /\ UNCHANGED linkVars => LinkTyped'
  BY DEF LinkTyped, linkVars
LEMMA ViewUntouched == ViewTyped /\ UNCHANGED viewVars => ViewTyped'
  BY DEF ViewTyped, viewVars

\* The next frame is within the bound, and its buffer in the pool.
LEMMA NextFrame ==
  ASSUME PubTyped, next < MaxFrame
  PROVE  next + 1 \in Frames /\ RingIndex \in Indexes
  BY StreamBoundsAreNat, RingIndexInRange DEF PubTyped, RingIndex

LEMMA StepTyped == TypeOK /\ [Next]_vars => TypeOK'
<1> SUFFICES ASSUME TypeOK, [Next]_vars
             PROVE  PoolTyped' /\ PubTyped' /\ LinkTyped' /\ ViewTyped'
  <2>1. TypeOK' <=> PoolTyped' /\ PubTyped' /\ LinkTyped' /\ ViewTyped'
    BY DEF TypeOK, PoolTyped, PubTyped, LinkTyped, ViewTyped, Hands
  <2> QED
    BY <2>1
<1>0. PoolTyped /\ PubTyped /\ LinkTyped /\ ViewTyped
  BY TypeParts
<1> DEFINE AllTyped == PoolTyped /\ PubTyped /\ LinkTyped /\ ViewTyped
<1>1. CASE AcquireDescriptor
  <2>1. next + 1 \in Frames /\ RingIndex \in Indexes
    BY <1>0, <1>1, NextFrame DEF AcquireDescriptor
  <2>2. hand' \in Hands
    <3>1. (IF count[hostGen] > 0 THEN hostGen ELSE 0) \in 0..MaxGen
      BY <1>0, StreamBoundsAreNat DEF PubTyped
    <3> QED
      BY <1>1, <2>1, <3>1 DEF AcquireDescriptor, Hands
  <2>3. PubTyped'
    BY <1>0, <1>1, <2>1, <2>2 DEF AcquireDescriptor, PubTyped
  <2> QED
    BY <1>0, <1>1, <2>3, PoolUntouched, LinkUntouched, ViewUntouched DEF AcquireDescriptor
<1>2. CASE AcquireNoBuffer
  <2>1. next + 1 \in Frames /\ 0 \in Indexes
    BY <1>0, <1>2, NextFrame, BuffersPositive DEF AcquireNoBuffer
  <2>2. hand' \in Hands
    <3>1. 0 \in 0..MaxGen /\ FALSE \in BOOLEAN
      BY StreamBoundsAreNat
    <3> QED
      BY <1>2, <2>1, <3>1 DEF AcquireNoBuffer, Hands
  <2>3. PubTyped'
    BY <1>0, <1>2, <2>2 DEF AcquireNoBuffer, PubTyped
  <2> QED
    BY <1>0, <1>2, <2>3, PoolUntouched, LinkUntouched, ViewUntouched DEF AcquireNoBuffer
<1>3. CASE FillBuffer
  <2>1. PoolTyped' /\ PubTyped'
    BY <1>0, <1>3 DEF FillBuffer, PoolTyped, PubTyped, Hands
  <2> QED
    BY <1>0, <1>3, <2>1, LinkUntouched, ViewUntouched DEF FillBuffer
<1>4. CASE Publish
  <2>1. PubTyped'
    BY <1>0, <1>4, BuffersPositive, StreamBoundsAreNat DEF Publish, PubTyped, PoolTyped, Hands
  <2> QED
    BY <1>0, <1>4, <2>1, PoolUntouched, LinkUntouched, ViewUntouched DEF Publish
<1>5. CASE Reject
  <2>1. PubTyped'
    BY <1>0, <1>5, BuffersPositive, StreamBoundsAreNat DEF Reject, PubTyped, Hands
  <2> QED
    BY <1>0, <1>5, <2>1, PoolUntouched, LinkUntouched, ViewUntouched DEF Reject
<1>6. ASSUME NEW allocated \in BOOLEAN, Retire(allocated) PROVE AllTyped'
  <2>1. PoolTyped'
    BY <1>0, <1>6, StreamBoundsAreNat DEF Retire, PoolTyped
  <2> QED
    BY <1>0, <1>6, <2>1, PubUntouched, LinkUntouched, ViewUntouched DEF Retire
<1>7. CASE HandshakePool
  <2>1. PubTyped'
    BY <1>0, <1>7 DEF HandshakePool, PubTyped
  <2> QED
    BY <1>0, <1>7, <2>1, PoolUntouched, LinkUntouched, ViewUntouched DEF HandshakePool
<1>8. CASE ReannouncePool
  <2>1. PubTyped'
    BY <1>0, <1>8 DEF ReannouncePool, PubTyped, PoolTyped
  <2>2. gen \in Gens
    BY <1>0 DEF PoolTyped
  <2>3. ASSUME NEW c \in Consumers
        PROVE  msgs'[c] \in Seq(Gens) /\ Len(msgs'[c]) =< MaxQueued
    <3>1. msgs[c] \in Seq(Gens) /\ Len(msgs[c]) < MaxQueued
      BY <1>0, <1>8 DEF ReannouncePool, LinkTyped
    <3>2. Append(msgs[c], gen) \in Seq(Gens) /\ Len(Append(msgs[c], gen)) = Len(msgs[c]) + 1
      BY <2>2, <3>1, AppendProperties
    <3>3. msgs'[c] = msgs[c] \/ msgs'[c] = Append(msgs[c], gen)
      BY <1>8 DEF ReannouncePool
    <3>4. Len(msgs[c]) \in Nat
      BY <3>1
    <3>5. Len(Append(msgs[c], gen)) =< MaxQueued
      BY <3>1, <3>2, <3>4, StreamBoundsAreNat
    <3>6. CASE msgs'[c] = msgs[c]
      BY <3>1, <3>4, <3>6, StreamBoundsAreNat
    <3>7. CASE msgs'[c] = Append(msgs[c], gen)
      BY <3>2, <3>5, <3>7
    <3> QED
      BY <3>3, <3>6, <3>7
  <2>4. msgs' = [c \in Consumers |-> msgs'[c]] /\ link' = link /\ cpc' = cpc
    BY <1>8 DEF ReannouncePool
  <2>5. LinkTyped'
    BY <1>0, <2>3, <2>4 DEF LinkTyped
  <2> QED
    BY <1>0, <1>8, <2>1, <2>5, PoolUntouched, ViewUntouched DEF ReannouncePool
<1>9. ASSUME NEW served \in SUBSET Consumers, Accept(served) PROVE AllTyped'
  <2>1. PubTyped'
    BY <1>0, <1>9 DEF Accept, PubTyped
  <2>2. <<gen>> \in Seq(Gens) /\ Len(<<gen>>) = 1
    BY <1>0 DEF PoolTyped
  <2>3. ASSUME NEW c \in Consumers
        PROVE  msgs'[c] \in Seq(Gens) /\ Len(msgs'[c]) =< MaxQueued
    <3>1. msgs[c] \in Seq(Gens) /\ Len(msgs[c]) =< MaxQueued
      BY <1>0 DEF LinkTyped
    <3>2. msgs'[c] = msgs[c] \/ msgs'[c] = <<gen>>
      BY <1>9 DEF Accept
    <3>3. 1 =< MaxQueued
      BY StreamBoundsAreNat
    <3> QED
      BY <2>2, <3>1, <3>2, <3>3
  <2>4. msgs' = [c \in Consumers |-> msgs'[c]]
    BY <1>9 DEF Accept
  <2>5. LinkTyped'
    BY <1>0, <1>9, <2>3, <2>4 DEF Accept, LinkTyped
  <2> QED
    BY <1>0, <1>9, <2>1, <2>5, PoolUntouched, ViewUntouched DEF Accept
<1>10. ASSUME NEW c \in Consumers, Consume(c) PROVE AllTyped'
  <2>0. <<>> \in Seq(Gens) /\ Len(<<>>) = 0 /\ NoView \in Descs
    BY BuffersPositive, StreamBoundsAreNat
  <2>1. CASE Connect(c)
    <3>1. LinkTyped'
      BY <1>0, <2>0, <2>1, StreamBoundsAreNat DEF Connect, LinkTyped
    <3> QED
      BY <1>0, <2>1, <3>1, PoolUntouched, PubUntouched, ViewUntouched DEF Connect
  <2>2. CASE HandshakeTimeout(c)
    <3>1. LinkTyped'
      BY <1>0, <2>2 DEF HandshakeTimeout, LinkTyped
    <3> QED
      BY <1>0, <2>2, <3>1, PoolUntouched, PubUntouched, ViewUntouched DEF HandshakeTimeout
  <2>3. CASE Drain(c)
    <3>1. LinkTyped'
      BY <1>0, <2>0, <2>3, StreamBoundsAreNat DEF Drain, LinkTyped
    <3> QED
      BY <1>0, <2>3, <3>1, PoolUntouched, PubUntouched, ViewUntouched DEF Drain
  <2>4. ASSUME NEW opens \in BOOLEAN, Attach(c, opens) PROVE AllTyped'
    <3>1. msgs[c] \in Seq(Gens) /\ msgs[c] # <<>> /\ Len(msgs[c]) =< MaxQueued
      BY <1>0, <2>4 DEF Attach, LinkTyped
    <3>2. Head(msgs[c]) \in Gens /\ Tail(msgs[c]) \in Seq(Gens) /\ Len(Tail(msgs[c])) =< MaxQueued
      <4>1. /\ Head(msgs[c]) \in Gens /\ Tail(msgs[c]) \in Seq(Gens)
            /\ Len(Tail(msgs[c])) = Len(msgs[c]) - 1
        BY <3>1, HeadTailProperties
      <4>2. Len(msgs[c]) \in Nat
        BY <3>1
      <4> QED
        BY <3>1, <4>1, <4>2, StreamBoundsAreNat
    <3>3. LinkTyped'
      BY <1>0, <2>4, <3>2 DEF Attach, LinkTyped
    <3>4. ViewTyped'
      BY <1>0, <2>0, <2>4, <3>2 DEF Attach, ViewTyped
    <3> QED
      BY <1>0, <2>4, <3>3, <3>4, PoolUntouched, PubUntouched DEF Attach
  <2>5. CASE HandOut(c)
    <3>1. ViewTyped'
      BY <1>0, <2>5 DEF HandOut, ViewTyped, PubTyped
    <3> QED
      BY <1>0, <2>5, <3>1, PoolUntouched, PubUntouched, LinkUntouched DEF HandOut
  <2>6. CASE FallBack(c)
    <3>1. ViewTyped'
      BY <1>0, <2>0, <2>6 DEF FallBack, ViewTyped
    <3> QED
      BY <1>0, <2>6, <3>1, PoolUntouched, PubUntouched, LinkUntouched DEF FallBack
  <2> QED
    BY <1>10, <2>1, <2>2, <2>3, <2>4, <2>5, <2>6 DEF Consume
<1>11. CASE UNCHANGED vars
  BY <1>0, <1>11, PoolUntouched, PubUntouched, LinkUntouched, ViewUntouched DEF vars
<1> QED
  BY <1>1, <1>2, <1>3, <1>4, <1>5, <1>6, <1>7, <1>8, <1>9, <1>10, <1>11 DEF Next, Produce

\* Every variable of the stream stays in its type, indexes in the pool and
\* queues within their bound included.
THEOREM TypeCorrectness == Spec => []TypeOK
  BY InitTyped, StepTyped, PTL DEF Spec

-----------------------------------------------------------------------------
(* No view into a pool that was detached, and no view older than the last  *)

LEMMA InitNoDangling == Init => NoDanglingFallback
  BY DEF Init, NoDanglingFallback

\* Only a consumer changes its views, and a consumer only its own.
LEMMA StepNoDangling ==
  ASSUME TypeOK, NoDanglingFallback, [Next]_vars
  PROVE  NoDanglingFallback'
<1>0. PubTyped /\ ViewTyped
  BY TypeParts
<1>1. CASE UNCHANGED viewVars
  BY <1>1 DEF NoDanglingFallback, viewVars
<1>2. ASSUME NEW c \in Consumers, NEW opens \in BOOLEAN, Attach(c, opens)
      PROVE  NoDanglingFallback'
  BY <1>0, <1>2 DEF Attach, NoDanglingFallback, ViewTyped
<1>3. ASSUME NEW c \in Consumers, HandOut(c) PROVE NoDanglingFallback'
  BY <1>0, <1>3 DEF HandOut, NoDanglingFallback, ViewTyped, PubTyped
<1>4. ASSUME NEW c \in Consumers, FallBack(c) PROVE NoDanglingFallback'
  BY <1>0, <1>4 DEF FallBack, NoDanglingFallback, ViewTyped
<1>5. CASE Produce
  BY <1>1, <1>5 DEF Produce, AcquireDescriptor, AcquireNoBuffer, FillBuffer, Publish, Reject,
                    Retire, HandshakePool, ReannouncePool, Accept
<1> QED
  BY <1>1, <1>2, <1>3, <1>4, <1>5 DEF Next, Consume, Connect, HandshakeTimeout, Drain, vars

\* latest_view() never falls back on a frame of a pool that detach() has
\* unmapped, whatever the producer does.
THEOREM NoDanglingFallbacks == Spec => []NoDanglingFallback
<1>1. TypeOK /\ NoDanglingFallback /\ [Next]_vars => NoDanglingFallback'
  BY StepNoDangling
<1> QED
  BY <1>1, InitNoDangling, TypeCorrectness, PTL DEF Spec

\* Frames are published in the order of their acquisition, and what a consumer
\* falls back on is the last frame it was handed.
OrderInv ==
  /\ slot.frame =< next + 1
  /\ hand.frame > 0 => slot.frame =< hand.frame /\ hand.frame =< next + 1
  /\ \A c \in Consumers : /\ lastGood[c].frame =< slot.frame
                          /\ view[c] # NoView => view[c] = lastGood[c]

LEMMA InitOrder == Init => OrderInv
  BY DEF Init, OrderInv

LEMMA StepOrder ==
  ASSUME TypeOK, OrderInv, [Next]_vars
  PROVE  OrderInv'
<1>0. PubTyped /\ ViewTyped
  BY TypeParts
<1>00. next \in Nat /\ slot.frame \in Nat /\ hand.frame \in Nat
       /\ \A c \in Consumers : lastGood[c].frame \in Nat
  BY <1>0, StreamBoundsAreNat DEF PubTyped, ViewTyped, Hands
<1>1. CASE UNCHANGED <<hand, slot, next, viewVars>>
  BY <1>1 DEF OrderInv, viewVars
<1>2. CASE AcquireDescriptor
  BY <1>0, <1>00, <1>2 DEF AcquireDescriptor, OrderInv, viewVars
<1>3. CASE AcquireNoBuffer
  BY <1>0, <1>00, <1>3 DEF AcquireNoBuffer, OrderInv, viewVars
<1>4. CASE FillBuffer
  <2>1. hand'.frame = hand.frame
    BY <1>0, <1>4 DEF FillBuffer, PubTyped, Hands
  <2> QED
    BY <1>4, <2>1 DEF FillBuffer, OrderInv, viewVars
<1>5. CASE Publish
  <2>1. slot'.frame = hand.frame /\ hand.frame > 0 /\ hand'.frame = 0
    BY <1>5 DEF Publish
  <2>2. \A c \in Consumers : lastGood[c].frame =< hand.frame
    BY <1>00, <2>1 DEF OrderInv
  <2> QED
    BY <1>00, <1>5, <2>1, <2>2 DEF Publish, OrderInv, viewVars
<1>6. CASE Reject
  BY <1>00, <1>6 DEF Reject, OrderInv, viewVars
<1>7. ASSUME NEW c \in Consumers, NEW opens \in BOOLEAN, Attach(c, opens) PROVE OrderInv'
  BY <1>0, <1>00, <1>7 DEF Attach, OrderInv, ViewTyped, pubVars
<1>8. ASSUME NEW c \in Consumers, HandOut(c) PROVE OrderInv'
  BY <1>0, <1>00, <1>8 DEF HandOut, OrderInv, ViewTyped, pubVars
<1>9. ASSUME NEW c \in Consumers, FallBack(c) PROVE OrderInv'
  BY <1>0, <1>00, <1>9 DEF FallBack, OrderInv, ViewTyped, pubVars
<1> QED
  BY <1>1, <1>2, <1>3, <1>4, <1>5, <1>6, <1>7, <1>8, <1>9
  DEF Next, Produce, Consume, Retire, HandshakePool, ReannouncePool, Accept, Connect,
      HandshakeTimeout, Drain, vars, pubVars

\* A consumer never sees an older frame than the one before, through
\* fallbacks, rejected frames and pool changes.
THEOREM ViewsAdvance == Spec => ViewsNeverGoBack
<1> DEFINE Advance == \A c \in Consumers : view[c] # NoView /\ view'[c] # NoView =>
                        view'[c].frame >= view[c].frame
<1>1. ASSUME TypeOK, OrderInv, Next PROVE Advance
  <2>0. PubTyped /\ ViewTyped
    BY <1>1, TypeParts
  <2>1. ASSUME NEW c \in Consumers, view[c] # NoView, view'[c] # NoView
        PROVE  view'[c] = view[c] \/ view'[c] = slot \/ view'[c] = lastGood[c]
    <3>1. CASE UNCHANGED view
      BY <3>1
    <3>2. ASSUME NEW d \in Consumers, HandOut(d) PROVE view'[c] \in {view[c], slot}
      BY <2>0, <3>2 DEF HandOut, ViewTyped
    <3>3. ASSUME NEW d \in Consumers, FallBack(d) PROVE view'[c] \in {view[c], lastGood[c]}
      BY <2>0, <2>1, <3>3 DEF FallBack, ViewTyped
    <3>4. ASSUME NEW d \in Consumers, NEW opens \in BOOLEAN, Attach(d, opens)
          PROVE  view'[c] = view[c]
      BY <2>0, <2>1, <3>4 DEF Attach, ViewTyped
    <3>5. CASE Produce
      BY <3>1, <3>5 DEF Produce, AcquireDescriptor, AcquireNoBuffer, FillBuffer, Publish, Reject,
                        Retire, HandshakePool, ReannouncePool, Accept, viewVars
    <3> QED
      BY <1>1, <3>1, <3>2, <3>3, <3>4, <3>5 DEF Next, Consume, Connect, HandshakeTimeout, Drain, viewVars
  <2>2. \A c \in Consumers : view[c] # NoView => view[c] = lastGood[c] /\ view[c].frame =< slot.frame
    BY <1>1 DEF OrderInv
  <2>3. \A c \in Consumers : view[c].frame \in Nat /\ slot.frame \in Nat
    BY <2>0, StreamBoundsAreNat DEF PubTyped, ViewTyped
  <2> QED
    BY <2>1, <2>2, <2>3
<1>2. TypeOK /\ OrderInv /\ [Next]_vars => [Advance]_vars
  BY <1>1
<1>3. TypeOK /\ OrderInv /\ [Next]_vars => OrderInv'
  BY StepOrder
<1> QED
  BY <1>2, <1>3, InitOrder, TypeCorrectness, PTL DEF Spec, ViewsNeverGoBack

-----------------------------------------------------------------------------
(* A producer that re-announces keeps views intact                         *)

Disciplined == ReannouncesFirst /\ ~RetiresInHand

\* What is in hand is a buffer of the current generation, the one of the last
\* frame acquired, and filled when it says so; a hand without a buffer can
\* only come from an empty pool.
HandInv ==
  /\ announced =< gen
  /\ announced = gen => hostGen = gen
  /\ hand.frame > 0 => announced = gen
  /\ hand.frame > 0 /\ hand.gen = 0 => count[gen] = 0
  /\ hand.gen > 0 =>
       /\ hand.gen = gen /\ hand.frame = next /\ next > 0
       /\ hand.idx = (next - 1) % Buffers
       /\ hand.filled => content[gen][hand.idx] = hand.frame

\* A descriptor of a pool with buffers names the ring buffer of its frame,
\* older than the one in hand, and the buffer holds the frame or was lapped.
Sound(d) ==
  d.frame > 0 =>
    /\ d.gen \in 1..gen
    /\ count[d.gen] > 0 =>
         /\ d.frame =< next /\ (hand.gen > 0 => d.frame < hand.frame)
         /\ d.idx = (d.frame - 1) % Buffers
         /\ content[d.gen][d.idx] = d.frame \/ next >= d.frame + Buffers

ViewInv(c) ==
  \A v \in {lastGood[c], view[c]} : v # NoView => v.frame > 0 /\ Sound(v) /\ count[v.gen] > 0

RingInv == HandInv /\ Sound(slot) /\ \A c \in Consumers : ViewInv(c)

\* A sound view is intact.
LEMMA RingInvSuffices == TypeOK /\ RingInv => ViewIntact
  BY DEF RingInv, ViewInv, Sound, ViewIntact

LEMMA InitRing == Init => RingInv
  BY DEF Init, RingInv, HandInv, ViewInv, Sound

\* Acquiring a buffer outdates every descriptor and disturbs none.
LEMMA AcquireKeepsSound ==
  ASSUME TypeOK, AcquireDescriptor, NEW d \in Descs, Sound(d)
  PROVE  Sound(d)'
<1>0. PubTyped /\ PoolTyped
  BY TypeParts
<1>1. next \in Nat /\ d.frame \in Nat /\ Buffers \in Nat
  BY <1>0, StreamBoundsAreNat, BuffersPositive DEF PubTyped
<1>2. next' = next + 1 /\ hand'.frame = next + 1 /\ UNCHANGED poolVars
  BY DEF AcquireDescriptor
<1> QED
  BY <1>1, <1>2 DEF Sound, poolVars

\* Filling the buffer in hand overwrites no frame that was not lapped.
LEMMA FillKeepsSound ==
  ASSUME TypeOK, HandInv, FillBuffer, NEW d \in Descs, Sound(d)
  PROVE  Sound(d)'
<1>0. PubTyped /\ PoolTyped
  BY TypeParts
<1>1. next \in Nat /\ d.frame \in Nat /\ Buffers \in Nat /\ gen \in Gens
  BY <1>0, StreamBoundsAreNat, BuffersPositive DEF PubTyped, PoolTyped
<1>2. /\ hand.gen > 0 /\ hand.gen = gen /\ hand.frame = next /\ next > 0
      /\ hand.idx = (next - 1) % Buffers
  BY DEF FillBuffer, HandInv
<1>3. /\ content' = [content EXCEPT ![gen][hand.idx] = next]
      /\ hand'.gen = hand.gen /\ hand'.frame = hand.frame
      /\ UNCHANGED <<gen, count, next>>
  BY <1>0, <1>2 DEF FillBuffer, PubTyped, Hands
<1> SUFFICES ASSUME d.frame > 0, d.gen \in 1..gen, count[d.gen] > 0
             PROVE  content'[d.gen][d.idx] = d.frame \/ next >= d.frame + Buffers
  BY <1>3 DEF Sound
<1>4. /\ d.frame < next /\ d.idx = (d.frame - 1) % Buffers
      /\ content[d.gen][d.idx] = d.frame \/ next >= d.frame + Buffers
  BY <1>2 DEF Sound
<1>5. CASE d.gen = gen /\ d.idx = hand.idx
  <2>1. (d.frame - 1) % Buffers = (next - 1) % Buffers
    BY <1>2, <1>4, <1>5
  <2>2. d.frame - 1 \in Nat /\ next - 1 \in Nat /\ d.frame - 1 < next - 1
    BY <1>1, <1>2, <1>4
  <2>3. next - 1 >= (d.frame - 1) + Buffers
    BY <2>1, <2>2, SameBufferLapped
  <2> QED
    BY <1>1, <2>3
<1>6. CASE ~(d.gen = gen /\ d.idx = hand.idx)
  <2>1. content'[d.gen][d.idx] = content[d.gen][d.idx]
    BY <1>0, <1>1, <1>3, <1>6 DEF PoolTyped
  <2> QED
    BY <1>4, <2>1
<1> QED
  BY <1>5, <1>6

\* Nothing else that a producer or a consumer does disturbs a descriptor.
LEMMA RestKeepsSound ==
  ASSUME TypeOK, NEW d \in Descs, Sound(d), UNCHANGED <<content, next>>,
         gen' \in {gen, gen + 1}, \A g \in 1..gen : count'[g] = count[g],
         hand'.gen = 0 \/ hand' = hand
  PROVE  Sound(d)'
<1>1. gen \in Nat
  BY TypeParts, StreamBoundsAreNat DEF PoolTyped
<1>2. d.gen \in 1..gen => d.gen \in 1..gen'
  BY <1>1
<1> QED
  BY <1>2 DEF Sound

\* If the slot and all views in use stay sound, views stay intact.
LEMMA ViewsFollow ==
  ASSUME TypeOK, RingInv, [Next]_vars, \A d \in Descs : Sound(d) => Sound(d)',
         \A d \in Descs : d.gen \in 1..gen => count'[d.gen] = count[d.gen],
         UNCHANGED <<lastGood, view>>
  PROVE  \A c \in Consumers : ViewInv(c)'
<1> SUFFICES ASSUME NEW c \in Consumers, NEW v \in {lastGood[c], view[c]}, v # NoView
             PROVE  v.frame > 0 /\ Sound(v)' /\ count'[v.gen] > 0
  BY DEF ViewInv
<1>1. v \in Descs
  BY TypeParts DEF ViewTyped
<1>2. v.frame > 0 /\ Sound(v) /\ count[v.gen] > 0
  BY DEF RingInv, ViewInv
<1>3. v.gen \in 1..gen
  BY <1>2 DEF Sound
<1> QED
  BY <1>1, <1>2, <1>3

LEMMA StepRing ==
  ASSUME Disciplined, TypeOK, RingInv, [Next]_vars
  PROVE  RingInv'
<1>0. PoolTyped /\ PubTyped /\ ViewTyped
  BY TypeParts
<1>00. /\ gen \in Nat /\ next \in Nat /\ hand.frame \in Nat /\ hand.gen \in Nat /\ slot \in Descs
       /\ gen > 0 /\ count[gen] \in {0, Buffers} /\ Buffers \in Nat /\ Buffers > 0
  BY <1>0, StreamBoundsAreNat, BuffersPositive DEF PoolTyped, PubTyped, Hands
<1>1. CASE AcquireDescriptor
  <2>1. \A d \in Descs : Sound(d) => Sound(d)'
    BY <1>1, AcquireKeepsSound
  <2>2. \A c \in Consumers : ViewInv(c)'
    BY <1>1, <2>1, ViewsFollow DEF AcquireDescriptor, poolVars, viewVars
  <2>3. hostGen = gen
    BY <1>1 DEF AcquireDescriptor, Disciplined, RingInv, HandInv
  <2>4. HandInv'
    BY <1>00, <1>1, <2>3 DEF AcquireDescriptor, RingInv, HandInv, Disciplined, poolVars, RingIndex
  <2> QED
    BY <1>00, <1>1, <2>1, <2>2, <2>4 DEF AcquireDescriptor, RingInv
<1>2. CASE AcquireNoBuffer
  <2>1. HandInv'
    BY <1>00, <1>2 DEF AcquireNoBuffer, RingInv, HandInv, Disciplined, poolVars
  <2>2. \A d \in Descs : Sound(d) => Sound(d)'
    BY <1>2, RestKeepsSound DEF AcquireNoBuffer, poolVars
  <2>3. \A c \in Consumers : ViewInv(c)'
    BY <1>2, <2>2, ViewsFollow DEF AcquireNoBuffer, poolVars, viewVars
  <2> QED
    BY <1>00, <1>2, <2>1, <2>2, <2>3 DEF AcquireNoBuffer, RingInv
<1>3. CASE FillBuffer
  <2>1. HandInv'
    BY <1>0, <1>00, <1>3 DEF FillBuffer, RingInv, HandInv, PubTyped, PoolTyped, Hands
  <2>2. \A d \in Descs : Sound(d) => Sound(d)'
    BY <1>3, FillKeepsSound DEF RingInv
  <2>3. \A c \in Consumers : ViewInv(c)'
    BY <1>3, <2>2, ViewsFollow DEF FillBuffer, viewVars
  <2> QED
    BY <1>00, <1>3, <2>1, <2>2, <2>3 DEF FillBuffer, RingInv
<1>4. CASE Publish
  <2>1. HandInv'
    BY <1>4 DEF Publish, RingInv, HandInv, poolVars
  <2>2. \A d \in Descs : Sound(d) => Sound(d)'
    BY <1>4, RestKeepsSound DEF Publish, poolVars
  <2>3. \A c \in Consumers : ViewInv(c)'
    BY <1>4, <2>2, ViewsFollow DEF Publish, poolVars, viewVars
  <2>4. /\ slot'.frame = hand.frame /\ slot'.gen = gen /\ slot'.idx = hand.idx /\ hand'.gen = 0
        /\ hand.frame > 0 /\ (hand.gen > 0 => hand.filled) /\ UNCHANGED <<gen, count, content, next>>
    BY <1>4 DEF Publish, poolVars
  <2>5. count[gen] > 0 => hand.gen > 0
    BY <1>00, <2>4 DEF RingInv, HandInv
  <2>6. Sound(slot)'
    BY <1>00, <2>4, <2>5 DEF RingInv, HandInv, Sound
  <2> QED
    BY <2>1, <2>3, <2>6 DEF RingInv
<1>5. CASE Reject
  <2>1. HandInv'
    BY <1>5 DEF Reject, RingInv, HandInv, poolVars
  <2>2. \A d \in Descs : Sound(d) => Sound(d)'
    BY <1>5, RestKeepsSound DEF Reject, poolVars
  <2>3. \A c \in Consumers : ViewInv(c)'
    BY <1>5, <2>2, ViewsFollow DEF Reject, poolVars, viewVars
  <2> QED
    BY <1>00, <1>5, <2>1, <2>2, <2>3 DEF Reject, RingInv
<1>6. ASSUME NEW allocated \in BOOLEAN, Retire(allocated) PROVE RingInv'
  <2>1. hand = NoHand /\ UNCHANGED <<hand, slot, content, next, hostGen, announced, lastGood, view>> /\ gen' = gen + 1
    BY <1>6 DEF Retire, Disciplined, pubVars, viewVars
  <2>2. \A g \in 1..gen : count'[g] = count[g]
    BY <1>0, <1>00, <1>6 DEF Retire, PoolTyped
  <2>3. HandInv'
    <3>1. announced \in Nat /\ announced =< gen
      BY <1>0, StreamBoundsAreNat DEF PubTyped, RingInv, HandInv
    <3>2. hand'.frame = 0 /\ hand'.gen = 0
      BY <2>1
    <3>3. announced' =< gen' /\ announced' # gen'
      BY <1>00, <2>1, <3>1
    <3> QED
      BY <3>2, <3>3 DEF HandInv
  <2>4. \A d \in Descs : Sound(d) => Sound(d)'
    BY <2>1, <2>2, RestKeepsSound
  <2>5. \A c \in Consumers : ViewInv(c)'
    BY <1>6, <2>1, <2>2, <2>4, ViewsFollow DEF Next, Produce
  <2> QED
    BY <1>00, <2>1, <2>3, <2>4, <2>5 DEF RingInv
<1>7. CASE HandshakePool
  <2>1. HandInv'
    BY <1>7 DEF HandshakePool, RingInv, HandInv, poolVars
  <2>2. \A d \in Descs : Sound(d) => Sound(d)'
    BY <1>7, RestKeepsSound DEF HandshakePool, poolVars
  <2>3. \A c \in Consumers : ViewInv(c)'
    BY <1>7, <2>2, ViewsFollow DEF HandshakePool, poolVars, viewVars
  <2> QED
    BY <1>00, <1>7, <2>1, <2>2, <2>3 DEF HandshakePool, RingInv
<1>8. CASE ReannouncePool
  <2>1. HandInv'
    BY <1>00, <1>8 DEF ReannouncePool, RingInv, HandInv, poolVars
  <2>2. \A d \in Descs : Sound(d) => Sound(d)'
    BY <1>8, RestKeepsSound DEF ReannouncePool, poolVars
  <2>3. \A c \in Consumers : ViewInv(c)'
    BY <1>8, <2>2, ViewsFollow DEF ReannouncePool, poolVars, viewVars
  <2> QED
    BY <1>00, <1>8, <2>1, <2>2, <2>3 DEF ReannouncePool, RingInv
<1>9. CASE UNCHANGED <<poolVars, hostGen, announced, next, hand, slot, viewVars>>
  BY <1>9 DEF RingInv, HandInv, Sound, ViewInv, poolVars, viewVars
<1> DEFINE Handed(b, v) == v \in {lastGood[b], view[b], NoView}
                           \/ (v = slot /\ slot.frame > 0 /\ count[slot.gen] > 0)
           AllHanded == \A b \in Consumers : Handed(b, lastGood'[b]) /\ Handed(b, view'[b])
<1>10. ASSUME UNCHANGED <<poolVars, pubVars>>, AllHanded
       PROVE  RingInv'
  <2>1. HandInv' /\ Sound(slot)'
    BY <1>10 DEF RingInv, HandInv, Sound, poolVars, pubVars
  <2>2. ASSUME NEW b \in Consumers, NEW v \in {lastGood'[b], view'[b]}, v # NoView
        PROVE  v.frame > 0 /\ Sound(v)' /\ count'[v.gen] > 0
    BY <1>10, <2>2 DEF RingInv, ViewInv, Sound, poolVars, pubVars
  <2> QED
    BY <2>1, <2>2 DEF RingInv, ViewInv
<1>11. ASSUME NEW c \in Consumers, NEW opens \in BOOLEAN, Attach(c, opens) PROVE RingInv'
  <2>1. UNCHANGED <<poolVars, pubVars>>
    BY <1>11 DEF Attach
  <2>2. \A b \in Consumers : lastGood'[b] \in {lastGood[b], NoView} /\ view'[b] \in {view[b], NoView}
    BY <1>0, <1>11 DEF Attach, ViewTyped
  <2>3. AllHanded
    BY <2>2
  <2> HIDE DEF AllHanded
  <2> QED
    BY <1>10, <2>1, <2>3
<1>12. ASSUME NEW c \in Consumers, HandOut(c) PROVE RingInv'
  <2>1. slot.frame > 0 /\ slot.idx < count[slot.gen] /\ UNCHANGED <<poolVars, pubVars>>
    BY <1>12 DEF HandOut
  <2>2. slot.idx \in Nat /\ slot.gen \in Gens
    BY <1>0, <1>00, <2>1, StreamBoundsAreNat DEF PubTyped, PoolTyped, RingInv, Sound
  <2>3. count[slot.gen] > 0
    <3>1. count[slot.gen] \in {0, Buffers}
      BY <1>0, <2>2 DEF PoolTyped
    <3> QED
      BY <1>00, <2>1, <2>2, <3>1
  <2>4. \A b \in Consumers : lastGood'[b] \in {lastGood[b], slot} /\ view'[b] \in {view[b], slot}
    BY <1>0, <1>12 DEF HandOut, ViewTyped
  <2>5. AllHanded
    BY <2>1, <2>3, <2>4
  <2> HIDE DEF AllHanded
  <2> QED
    BY <1>10, <2>1, <2>5
<1>13. ASSUME NEW c \in Consumers, FallBack(c) PROVE RingInv'
  <2>1. UNCHANGED <<poolVars, pubVars>>
    BY <1>13 DEF FallBack
  <2>2. \A b \in Consumers : lastGood'[b] = lastGood[b] /\ view'[b] \in {view[b], lastGood[b], NoView}
    BY <1>0, <1>13 DEF FallBack, ViewTyped
  <2>3. AllHanded
    BY <2>2
  <2> HIDE DEF AllHanded
  <2> QED
    BY <1>10, <2>1, <2>3
<1> QED
  BY <1>1, <1>2, <1>3, <1>4, <1>5, <1>6, <1>7, <1>8, <1>9, <1>11, <1>12, <1>13
  DEF Next, Produce, Consume, Accept, Connect, HandshakeTimeout, Drain, vars, pubVars

\* With a producer that retires the pool with nothing in hand and re-announces
\* it before it acquires again, a view shows the frame it was handed out for
\* until Buffers further buffers have been acquired.
THEOREM ViewsStayIntact ==
  ASSUME Disciplined PROVE Spec => []ViewIntact
<1>1. TypeOK /\ RingInv /\ [Next]_vars => RingInv'
  BY Disciplined, StepRing
<1> QED
  BY <1>1, InitRing, RingInvSuffices, TypeCorrectness, PTL DEF Spec

\* Such a producer never writes into a pool it has retired.
THEOREM RetiredFramesStay ==
  ASSUME Disciplined PROVE Spec => RetiredFramesKept
<1> DEFINE Kept == \A g \in Gens : g < gen => content'[g] = content[g]
<1>1. TypeOK /\ RingInv /\ [Next]_vars => RingInv'
  BY Disciplined, StepRing
<1>2. ASSUME TypeOK, RingInv, Next PROVE Kept
  <2>1. CASE FillBuffer
    <3>1. hand.gen = gen
      BY <1>2, <2>1 DEF FillBuffer, RingInv, HandInv
    <3>2. content \in [Gens -> [Indexes -> Frames]] /\ gen \in Nat
      BY <1>2, TypeParts, StreamBoundsAreNat DEF PoolTyped
    <3> QED
      BY <2>1, <3>1, <3>2 DEF FillBuffer
  <2>2. CASE ~FillBuffer
    <3>1. UNCHANGED content
      BY <1>2, <2>2
      DEF Next, Produce, Consume, AcquireDescriptor, AcquireNoBuffer, Publish, Reject, Retire,
          HandshakePool, ReannouncePool, Accept, Connect, Attach, HandshakeTimeout, Drain,
          HandOut, FallBack, poolVars
    <3> QED
      BY <3>1
  <2> QED
    BY <2>1, <2>2
<1>3. TypeOK /\ RingInv /\ [Next]_vars => [Kept]_vars
  BY <1>2
<1> QED
  BY <1>1, <1>3, InitRing, TypeCorrectness, PTL DEF Spec, RetiredFramesKept
=============================================================================
