----------------------------- MODULE AxonStream -----------------------------
(***************************************************************************)
(* One stream end to end: the producer fills the buffers of a TensorPool   *)
(* round-robin and publishes descriptors of them, retires the pool and     *)
(* re-announces it (src/src/publisher.cpp, pool.cpp); consumers attach to  *)
(* one generation of the pool, get views into its buffers from             *)
(* latest_view() and re-handshake (src/src/subscriber.cpp).                *)
(*                                                                         *)
(* A frame is numbered when its buffer is acquired.  A buffer's content is *)
(* the frame whose payload was last written into it, 0 for none: a view is *)
(* torn from the moment another frame's payload is begun.  The             *)
(* descriptor slot is atomic (module Seqlock); sockets never fill up here  *)
(* and fences are left out (module FenceStream).  Consumers keep a retired *)
(* buffer alive through their own descriptors and mappings.                *)
(***************************************************************************)
EXTENDS Naturals, Sequences

CONSTANTS Consumers,
          Buffers,    \* n_buffers of every pool generation
          MaxFrame,   \* bound on the acquire_descriptor() calls
          MaxGen,     \* bound on the pool generations
          MaxQueued,  \* bound on the pool messages a consumer has not received
          ReannouncesFirst,  \* the producer calls reannounce_pool() between a
                             \* retire and the next acquire_descriptor()
          RetiresInHand      \* it may retire the pool while it holds a descriptor

ASSUME BuffersPositive == Buffers \in Nat \ {0}
ASSUME StreamBoundsAreNat == MaxFrame \in Nat /\ MaxGen \in Nat \ {0} /\ MaxQueued \in Nat \ {0}
ASSUME DisciplineIsBoolean == ReannouncesFirst \in BOOLEAN /\ RetiresInHand \in BOOLEAN

VARIABLES
  gen,       \* TensorPool's gen
  count,     \* count[g]: buffers of generation g; 0 if its allocation failed
  content,   \* content[g][i]: the frame in buffer i of generation g
  hostGen,   \* the generation host_views are mappings of
  announced, \* the generation last re-announced
  next,      \* next_index: the number of buffers acquired
  hand,      \* the AcquiredDescriptor the producer holds
  ppc,       \* "accept" while a call has still to accept_and_handshake()
  slot,      \* the descriptor in the metadata slot
  link,      \* link[c]: the consumer's connection
  msgs,      \* msgs[c]: generations of the pool messages in its socket
  cpc,       \* "await" inside wait_handshake()
  poolGen,   \* pool_generation of the pool c is attached to, 0 for none
  opened,    \* consumers with a metadata channel
  lastGood,  \* last_good, NoView when have_last_good is false
  view       \* what the consumer's last latest_view() returned

poolVars == <<gen, count, content>>
pubVars == <<hostGen, announced, next, hand, ppc, slot>>
linkVars == <<link, msgs, cpc>>
viewVars == <<poolGen, opened, lastGood, view>>
vars == <<poolVars, pubVars, linkVars, viewVars>>

Gens == 1..MaxGen
Frames == 0..MaxFrame
Indexes == 0..(Buffers - 1)
NoHand == [frame |-> 0, gen |-> 0, idx |-> 0, filled |-> FALSE]
NoDesc == [frame |-> 0, gen |-> 0, idx |-> 0]
NoView == NoDesc
Descs == [frame : Frames, gen : 0..MaxGen, idx : Indexes]

TypeOK ==
  /\ gen \in Gens
  /\ count \in [Gens -> {0, Buffers}]
  /\ content \in [Gens -> [Indexes -> Frames]]
  /\ hostGen \in Gens /\ announced \in Gens /\ next \in Frames
  /\ hand \in [frame : Frames, gen : 0..MaxGen, idx : Indexes, filled : BOOLEAN]
  /\ ppc \in {"idle", "accept"}
  /\ slot \in Descs
  /\ link \in [Consumers -> {"none", "pending", "client"}]
  /\ msgs \in [Consumers -> Seq(Gens)]
  /\ \A c \in Consumers : Len(msgs[c]) =< MaxQueued
  /\ cpc \in [Consumers -> {"idle", "await"}]
  /\ poolGen \in [Consumers -> 0..MaxGen]
  /\ opened \subseteq Consumers
  /\ lastGood \in [Consumers -> Descs]
  /\ view \in [Consumers -> Descs]

\* TensorPool::create() has succeeded, then TensorPublisher::create().
Init ==
  /\ gen = 1 /\ count = [g \in Gens |-> IF g = 1 THEN Buffers ELSE 0]
  /\ content = [g \in Gens |-> [i \in Indexes |-> 0]]
  /\ hostGen = 1 /\ announced = 1 /\ next = 0 /\ hand = NoHand
  /\ ppc = "idle" /\ slot = NoDesc
  /\ link = [c \in Consumers |-> "none"]
  /\ msgs = [c \in Consumers |-> <<>>]
  /\ cpc = [c \in Consumers |-> "idle"]
  /\ poolGen = [c \in Consumers |-> 0]
  /\ opened = {}
  /\ lastGood = [c \in Consumers |-> NoView]
  /\ view = [c \in Consumers |-> NoView]

-----------------------------------------------------------------------------
(* The producer's thread                                                   *)

RingIndex == next % Buffers

\* acquire_descriptor().  host_view is a mapping of the generation the
\* publisher last mapped, null (gen = 0) if it mapped none.  A descriptor still
\* in hand is given up.
AcquireDescriptor ==
  /\ ppc = "idle" /\ next < MaxFrame
  /\ ReannouncesFirst => announced = gen
  /\ count[gen] > 0
  /\ next' = next + 1
  /\ hand' = [frame |-> next + 1, gen |-> IF count[hostGen] > 0 THEN hostGen ELSE 0,
               idx |-> RingIndex, filled |-> FALSE]
  /\ UNCHANGED <<poolVars, hostGen, announced, ppc, slot, linkVars, viewVars>>

\* An empty pool gives no buffer (index -1, which publish() turns into 0).
AcquireNoBuffer ==
  /\ ppc = "idle" /\ next < MaxFrame
  /\ ReannouncesFirst => announced = gen
  /\ count[gen] = 0
  /\ hand' = [NoHand EXCEPT !.frame = next + 1]
  /\ UNCHANGED <<poolVars, hostGen, announced, next, ppc, slot, linkVars, viewVars>>

\* The caller writes the payload through host_view.
FillBuffer ==
  /\ ppc = "idle" /\ hand.gen > 0 /\ ~hand.filled
  /\ content' = [content EXCEPT ![hand.gen][hand.idx] = hand.frame]
  /\ hand' = [hand EXCEPT !.filled = TRUE]
  /\ UNCHANGED <<gen, count, hostGen, announced, next, ppc, slot, linkVars, viewVars>>

\* publish(): the generation is stamped now, the index at acquire.
Publish ==
  /\ ppc = "idle" /\ hand.frame > 0
  /\ hand.gen > 0 => hand.filled
  /\ slot' = [frame |-> hand.frame, gen |-> gen, idx |-> hand.idx]
  /\ hand' = NoHand
  /\ ppc' = "accept"
  /\ UNCHANGED <<poolVars, hostGen, announced, next, linkVars, viewVars>>

\* publish() refuses the descriptor: its ring slot is used up all the same.
Reject ==
  /\ ppc = "idle" /\ hand.frame > 0
  /\ hand' = NoHand
  /\ UNCHANGED <<poolVars, hostGen, announced, next, ppc, slot, linkVars, viewVars>>

\* retire_and_reallocate(): the result of allocate() is not looked at.
Retire(allocated) ==
  /\ ppc = "idle" /\ gen < MaxGen
  /\ hand # NoHand => RetiresInHand
  /\ gen' = gen + 1
  /\ count' = [count EXCEPT ![gen + 1] = IF allocated THEN Buffers ELSE 0]
  /\ UNCHANGED <<content, pubVars, linkVars, viewVars>>

\* handshake_pool()
HandshakePool ==
  /\ ppc = "idle"
  /\ ppc' = "accept"
  /\ UNCHANGED <<poolVars, hostGen, announced, next, hand, slot, linkVars, viewVars>>

\* Mutant of ReannouncePool: map_views() is forgotten.
ReannouncePoolUnmapped ==
  /\ ppc = "idle"
  /\ \A c \in Consumers : Len(msgs[c]) < MaxQueued
  /\ announced' = gen
  /\ msgs' = [c \in Consumers |-> IF link[c] = "client" THEN Append(msgs[c], gen) ELSE msgs[c]]
  /\ ppc' = "accept"
  /\ UNCHANGED <<poolVars, hostGen, next, hand, slot, link, cpc, viewVars>>

\* reannounce_pool(): map_views(), and the pool to every client.
ReannouncePool ==
  /\ ppc = "idle"
  /\ \A c \in Consumers : Len(msgs[c]) < MaxQueued
  /\ hostGen' = gen /\ announced' = gen
  /\ msgs' = [c \in Consumers |-> IF link[c] = "client" THEN Append(msgs[c], gen) ELSE msgs[c]]
  /\ ppc' = "accept"
  /\ UNCHANGED <<poolVars, next, hand, slot, link, cpc, viewVars>>

\* accept_and_handshake(), always behind cache_pool(): the current generation
\* goes to new connections; one that is gone already may end the call early.
Accept(served) ==
  /\ ppc = "accept"
  /\ \A c \in served : link[c] = "pending"
  /\ link' = [c \in Consumers |-> IF c \in served THEN "client" ELSE link[c]]
  /\ msgs' = [c \in Consumers |-> IF c \in served THEN <<gen>> ELSE msgs[c]]
  /\ ppc' = "idle"
  /\ UNCHANGED <<poolVars, hostGen, announced, next, hand, slot, cpc, viewVars>>

-----------------------------------------------------------------------------
(* A consumer's thread                                                     *)

\* wait_handshake(): a new connection replaces the old one ...
Connect(c) ==
  /\ cpc[c] = "idle"
  /\ cpc' = [cpc EXCEPT ![c] = "await"]
  /\ link' = [link EXCEPT ![c] = "pending"]
  /\ msgs' = [msgs EXCEPT ![c] = <<>>]
  /\ UNCHANGED <<poolVars, pubVars, viewVars>>

\* Mutant of Attach: the last good view survives detach().
AttachKeepingLastGood(c, opens) ==
  /\ cpc[c] = "await" /\ msgs[c] # <<>>
  /\ cpc' = [cpc EXCEPT ![c] = "idle"]
  /\ msgs' = [msgs EXCEPT ![c] = Tail(@)]
  /\ poolGen' = [poolGen EXCEPT ![c] = Head(msgs[c])]
  /\ opened' = IF opens THEN opened \cup {c} ELSE opened \ {c}
  /\ view' = [view EXCEPT ![c] = NoView]
  /\ UNCHANGED <<poolVars, pubVars, link, lastGood>>

\* ... the pool arrives, detach() drops the one before it with every view into
\* it, and the metadata channel is opened, or not.
Attach(c, opens) ==
  /\ cpc[c] = "await" /\ msgs[c] # <<>>
  /\ cpc' = [cpc EXCEPT ![c] = "idle"]
  /\ msgs' = [msgs EXCEPT ![c] = Tail(@)]
  /\ poolGen' = [poolGen EXCEPT ![c] = Head(msgs[c])]
  /\ opened' = IF opens THEN opened \cup {c} ELSE opened \ {c}
  /\ lastGood' = [lastGood EXCEPT ![c] = NoView]
  /\ view' = [view EXCEPT ![c] = NoView]
  /\ UNCHANGED <<poolVars, pubVars, link>>

\* ... or nothing arrives in time.
HandshakeTimeout(c) ==
  /\ cpc[c] = "await" /\ msgs[c] = <<>>
  /\ cpc' = [cpc EXCEPT ![c] = "idle"]
  /\ UNCHANGED <<poolVars, pubVars, link, msgs, viewVars>>

\* drain_fences() receives and discards re-announced pools.
Drain(c) ==
  /\ cpc[c] = "idle" /\ msgs[c] # <<>>
  /\ msgs' = [msgs EXCEPT ![c] = <<>>]
  /\ UNCHANGED <<poolVars, pubVars, link, cpc, viewVars>>

\* Mutants of HandOut: no generation test; the last good view is kept as it was.
HandOutAnyGeneration(c) ==
  /\ cpc[c] = "idle" /\ c \in opened
  /\ slot.frame > 0 /\ poolGen[c] > 0
  /\ slot.idx < count[poolGen[c]]
  /\ view' = [view EXCEPT ![c] = [slot EXCEPT !.gen = poolGen[c]]]
  /\ lastGood' = [lastGood EXCEPT ![c] = [slot EXCEPT !.gen = poolGen[c]]]
  /\ UNCHANGED <<poolVars, pubVars, linkVars, poolGen, opened>>
HandOutFirstGood(c) ==
  /\ cpc[c] = "idle" /\ c \in opened
  /\ slot.frame > 0 /\ slot.gen = poolGen[c]
  /\ slot.idx < count[poolGen[c]]
  /\ view' = [view EXCEPT ![c] = slot]
  /\ lastGood' = [lastGood EXCEPT ![c] = IF @ = NoView THEN slot ELSE @]
  /\ UNCHANGED <<poolVars, pubVars, linkVars, poolGen, opened>>

\* latest_view() hands out a fresh view.
HandOut(c) ==
  /\ cpc[c] = "idle" /\ c \in opened
  /\ slot.frame > 0 /\ slot.gen = poolGen[c]
  /\ slot.idx < count[poolGen[c]]
  /\ view' = [view EXCEPT ![c] = slot]
  /\ lastGood' = [lastGood EXCEPT ![c] = slot]
  /\ UNCHANGED <<poolVars, pubVars, linkVars, poolGen, opened>>

\* latest_view() falls back (nothing published, retries used up, generation
\* mismatch, fence missing): the last good view, or nothing.
FallBack(c) ==
  /\ cpc[c] = "idle" /\ c \in opened
  /\ \E v \in {lastGood[c], NoView} : view' = [view EXCEPT ![c] = v]
  /\ UNCHANGED <<poolVars, pubVars, linkVars, poolGen, opened, lastGood>>

-----------------------------------------------------------------------------
Produce == \/ AcquireDescriptor \/ AcquireNoBuffer \/ FillBuffer \/ Publish \/ Reject
           \/ \E allocated \in BOOLEAN : Retire(allocated)
           \/ HandshakePool \/ ReannouncePool
           \/ \E served \in SUBSET Consumers : Accept(served)

Consume(c) == \/ Connect(c) \/ HandshakeTimeout(c) \/ Drain(c)
              \/ \E opens \in BOOLEAN : Attach(c, opens)
              \/ HandOut(c) \/ FallBack(c)

Next == Produce \/ \E c \in Consumers : Consume(c)

Spec == Init /\ [][Next]_vars

-----------------------------------------------------------------------------
(* Properties                                                              *)

\* Ring depth is the only protection of a payload (usage.md, "Delivery
\* semantics"): a view, fresh or last known good, shows the frame it was handed
\* out for until Buffers further descriptors have been acquired, whatever is
\* rejected, retired, re-announced or re-attached meanwhile.
ViewIntact ==
  \A c \in Consumers : view[c] # NoView =>
    content[view[c].gen][view[c].idx] = view[c].frame \/ next >= view[c].frame + Buffers

\* The last known good view aliases the pool the consumer is attached to, never
\* one that detach() has unmapped ("can't hand back a dangling data/device_ptr").
NoDanglingFallback ==
  \A c \in Consumers :
    /\ lastGood[c] # NoView => lastGood[c].gen = poolGen[c]
    /\ view[c] # NoView => view[c].gen = poolGen[c]

\* latest_view() never shows a consumer an older frame than the one before,
\* through fallbacks and pool changes.
ViewsNeverGoBack ==
  [][\A c \in Consumers : view[c] # NoView /\ view'[c] # NoView =>
       view'[c].frame >= view[c].frame]_vars

\* Nobody writes into a retired generation: consumers that fall back on a frame
\* of it until they re-handshake keep it intact.
RetiredFramesKept == [][\A g \in Gens : g < gen => content'[g] = content[g]]_vars
=============================================================================
