---------------------------- MODULE LifecycleProofs ----------------------------
(* Proofs about what processes set up in the system and take back: module   *)
(* Lifecycle, for every number of publishers, frames and generations, and   *)
(* then module Realtime, for every number of CPUs, holds and descriptions.  *)
EXTENDS Lifecycle, Realtime, TLAPS

-----------------------------------------------------------------------------
(* The inductive invariants.                                                *)

\* Publishers start in order.  Unless two have run at once, the one that is alive
\* is the last that was started, and so it is the only one.
StartInv ==
  /\ \A p, q \in Pubs : p < q /\ pc[q] # "none" => pc[p] # "none"
  /\ ~overlapped => \A p, q \in Pubs : Alive(p) /\ pc[q] # "none" => q =< p

\* Where in its life a publisher has a socket and a channel.
HasSocket == {"channel", "open", "size", "check", "live", "stop"}
HasChannel == {"check", "live", "stop", "close"}
HoldInv ==
  /\ \A p \in Pubs : /\ socket[p] => pc[p] \in HasSocket
                     /\ channel[p] # "none" => pc[p] \in HasChannel
                     /\ pc[p] = "live" => socket[p] /\ channel[p] # "none"
                     /\ channel[p] = "service" => iox /\ port = p
  /\ port # 0 => channel[port] = "service"

\* A publisher that is alone has the names of what it has made.
NameInv ==
  ~overlapped => \A p \in Pubs : /\ socket[p] => sockName = p
                                 /\ pc[p] = "size" \/ channel[p] = "slot" => shmName = p

\* The subscriber in wait_handshake(): whom it has connected to, what it has got,
\* and what it can find under the name of the slot after that.
HandshakeInv ==
  /\ sub.pc = "idle" => sub = Idle
  /\ sub.sent # 0 => sub.to # 0
  /\ sub.to # 0 => pc[sub.to] # "none"
  /\ pool.pub # 0 => pc[pool.pub] # "none"
  /\ sub.pc = "slot" => sub.sent # 0 /\ pool.pub = sub.to /\ view = NoView
  /\ sub.sent # 0 /\ ~iox /\ ~overtaken /\ ~overlapped => shmName \in {0, sub.to}

\* Whose frames a channel can bring, once wait_handshake() has opened it.
ChannelInv ==
  /\ \A p \in Pubs : frame[p] = NoFrame \/ frame[p].pub = p
  /\ meta.kind = "slot" => meta.pub # 0
  /\ sub.pc # "slot" /\ meta.kind = "slot" /\ ~overtaken /\ ~overlapped => meta.pub = pool.pub
  /\ sub.pc # "slot" /\ meta.kind = "service" /\ ~overlapped =>
       \A f \in {box, last} : f = NoFrame \/ f.pub >= pool.pub

IInv == TypeOK /\ StartInv /\ HoldInv /\ NameInv /\ HandshakeInv /\ ChannelInv /\ ViewsMatchPool

-----------------------------------------------------------------------------
(* Which steps change what.                                                 *)

\* Only create() up to its check, the end of a publisher and its death change the
\* names, the port, and what a publisher has.
LEMMA NamesChange ==
  ASSUME [Next]_vars
  PROVE  \/ UNCHANGED <<pc, socket, channel, sockName, shmName, sized, port, overlapped>>
         \/ \E p \in Pubs : \/ UnlinkSocket(p) \/ BindSocket(p) \/ MakePort(p) \/ UnlinkSlot(p)
                            \/ OpenSlot(p) \/ SizeSlot(p) \/ Complete(p) \/ Stop(p)
                            \/ CloseServer(p) \/ CloseChannel(p) \/ Crash(p)
PROOF
  BY DEF Next, SubscriberNext, vars, namesVars, pubVars, Accept, Publish, Retire, Connect,
         RecvPool, RecvPoolFails, OpenChannel, LatestView

\* Only publish() and the reading of a channel move frames.
LEMMA FramesChange ==
  ASSUME [Next]_vars
  PROVE  \/ UNCHANGED <<frame, box, last>>
         \/ \E p \in Pubs : Publish(p)
         \/ OpenChannel \/ LatestView
PROOF
  BY DEF Next, SubscriberNext, vars, namesVars, pubVars, subVars, UnlinkSocket, BindSocket,
         MakePort, UnlinkSlot, OpenSlot, SizeSlot, Complete, Stop, CloseServer, CloseChannel,
         Crash, Accept, Retire, Connect, RecvPool, RecvPoolFails

\* Only the subscriber, and a publisher that answers it, change its state.
LEMMA SubscriberChanges ==
  ASSUME [Next]_vars
  PROVE  \/ UNCHANGED <<sub, pool, meta, view>>
         \/ (\E p \in Pubs : Accept(p)) /\ UNCHANGED <<pool, meta, view>>
         \/ SubscriberNext
PROOF
  BY DEF Next, SubscriberNext, vars, namesVars, pubVars, subVars, UnlinkSocket, BindSocket,
         MakePort, UnlinkSlot, OpenSlot, SizeSlot, Complete, Stop, CloseServer, CloseChannel,
         Crash, Accept, Publish, Retire

\* Nobody changes the build; only Retire changes a generation, and a slot made over
\* another's handshake stays noted.
LEMMA SettingsChange ==
  ASSUME [Next]_vars
  PROVE  /\ iox' = iox
         /\ gen' = gen \/ \E p \in Pubs : Retire(p)
         /\ overtaken' = overtaken \/ \E p \in Pubs : OpenSlot(p)
         /\ overlapped' = overlapped \/ \E p \in Pubs : UnlinkSocket(p)
PROOF
  BY DEF Next, SubscriberNext, vars, namesVars, pubVars, subVars, UnlinkSocket, BindSocket,
         MakePort, UnlinkSlot, OpenSlot, SizeSlot, Complete, Stop, CloseServer, CloseChannel,
         Crash, Accept, Publish, Retire, Connect, RecvPool, RecvPoolFails, OpenChannel, LatestView

-----------------------------------------------------------------------------
(* Typing, in four parts.                                                   *)

PubTypes ==
  /\ pc \in [Pubs -> {"none", "bind", "channel", "open", "size", "check", "live", "stop",
                      "close", "gone"}]
  /\ socket \in [Pubs -> BOOLEAN] /\ sized \in [Pubs -> BOOLEAN]
  /\ channel \in [Pubs -> {"none", "slot", "service"}]
NameTypes == sockName \in 0..MaxPubs /\ shmName \in 0..MaxPubs /\ port \in 0..MaxPubs
SettingTypes ==
  iox \in BOOLEAN /\ overtaken \in BOOLEAN /\ overlapped \in BOOLEAN /\ gen \in [Pubs -> 1..MaxGen]
FrameTypes == frame \in [Pubs -> FrameRecords] /\ box \in FrameRecords /\ last \in FrameRecords
SubTypes ==
  /\ sub \in [pc : {"idle", "pool", "slot"}, to : 0..MaxPubs, sent : 0..MaxGen]
  /\ pool \in [pub : 0..MaxPubs, gen : 0..MaxGen]
  /\ meta \in [kind : {"none", "slot", "service"}, pub : 0..MaxPubs]
  /\ view \in [frame : 0..MaxPubs, buffers : 0..MaxPubs]

LEMMA TypeParts ==
  TypeOK <=> PubTypes /\ NameTypes /\ SettingTypes /\ FrameTypes /\ SubTypes
PROOF
  BY DEF TypeOK, PubTypes, NameTypes, SettingTypes, FrameTypes, SubTypes

LEMMA TypePartsPrime ==
  TypeOK' <=> PubTypes' /\ NameTypes' /\ SettingTypes' /\ FrameTypes' /\ SubTypes'
PROOF
  BY DEF TypeOK, PubTypes, NameTypes, SettingTypes, FrameTypes, SubTypes

\* The publishers are the names other than 0, and 0 is one.
LEMMA NamesAndPubs ==
  /\ 0 \in 0..MaxPubs /\ 0 \in 0..MaxGen /\ 0 \in 0..MaxFrames
  /\ \A n \in 0..MaxPubs : n # 0 <=> n \in Pubs
  /\ \A p \in Pubs : p \in Nat /\ p # 0 /\ p \in 0..MaxPubs
  /\ \A g \in 1..MaxGen : g \in 0..MaxGen /\ g # 0
PROOF
  BY LifecycleBounds DEF Pubs

LEMMA ZeroRecords ==
  /\ NoFrame \in FrameRecords
  /\ NoPool \in [pub : 0..MaxPubs, gen : 0..MaxGen]
  /\ NoMeta \in [kind : {"none", "slot", "service"}, pub : 0..MaxPubs]
  /\ NoView \in [frame : 0..MaxPubs, buffers : 0..MaxPubs]
  /\ Idle \in [pc : {"idle", "pool", "slot"}, to : 0..MaxPubs, sent : 0..MaxGen]
PROOF
  BY NamesAndPubs DEF NoFrame, NoPool, NoMeta, NoView, Idle, FrameRecords

LEMMA InitTyped ==
  ASSUME Init
  PROVE  TypeOK
PROOF
<1>1. PubTypes /\ NameTypes
  BY NamesAndPubs DEF Init, PubTypes, NameTypes
<1>2. SettingTypes
  <2>1. 1 \in 1..MaxGen
    BY LifecycleBounds
  <2>2. QED
    BY <2>1 DEF Init, SettingTypes
<1>3. FrameTypes
  BY ZeroRecords DEF Init, FrameTypes
<1>4. SubTypes
  BY ZeroRecords DEF Init, SubTypes
<1>5. QED
  BY <1>1, <1>2, <1>3, <1>4, TypeParts

LEMMA StepPubTypes ==
  ASSUME PubTypes, NameTypes, [Next]_vars
  PROVE  PubTypes' /\ NameTypes'
PROOF
<1>1. CASE UNCHANGED <<pc, socket, channel, sockName, shmName, sized, port, overlapped>>
  BY <1>1 DEF PubTypes, NameTypes
<1>2. ASSUME NEW p \in Pubs, UnlinkSocket(p) PROVE PubTypes' /\ NameTypes'
  BY <1>2, NamesAndPubs DEF UnlinkSocket, At, PubTypes, NameTypes
<1>3. ASSUME NEW p \in Pubs, BindSocket(p) PROVE PubTypes' /\ NameTypes'
  BY <1>3, NamesAndPubs DEF BindSocket, At, PubTypes, NameTypes
<1>4. ASSUME NEW p \in Pubs, MakePort(p) PROVE PubTypes' /\ NameTypes'
  BY <1>4, NamesAndPubs DEF MakePort, At, PubTypes, NameTypes
<1>5. ASSUME NEW p \in Pubs, UnlinkSlot(p) PROVE PubTypes' /\ NameTypes'
  BY <1>5, NamesAndPubs DEF UnlinkSlot, At, PubTypes, NameTypes
<1>6. ASSUME NEW p \in Pubs, OpenSlot(p) PROVE PubTypes' /\ NameTypes'
  BY <1>6, NamesAndPubs DEF OpenSlot, At, PubTypes, NameTypes
<1>7. ASSUME NEW p \in Pubs, SizeSlot(p) PROVE PubTypes' /\ NameTypes'
  BY <1>7, NamesAndPubs DEF SizeSlot, At, PubTypes, NameTypes
<1>8. ASSUME NEW p \in Pubs, Complete(p) PROVE PubTypes' /\ NameTypes'
  BY <1>8 DEF Complete, At, PubTypes, NameTypes, namesVars
<1>9. ASSUME NEW p \in Pubs, Stop(p) PROVE PubTypes' /\ NameTypes'
  BY <1>9 DEF Stop, At, PubTypes, NameTypes, namesVars
<1>10. ASSUME NEW p \in Pubs, CloseServer(p) PROVE PubTypes' /\ NameTypes'
  BY <1>10, NamesAndPubs DEF CloseServer, At, PubTypes, NameTypes
<1>11. ASSUME NEW p \in Pubs, CloseChannel(p) PROVE PubTypes' /\ NameTypes'
  BY <1>11, NamesAndPubs DEF CloseChannel, At, PubTypes, NameTypes
<1>12. ASSUME NEW p \in Pubs, Crash(p) PROVE PubTypes' /\ NameTypes'
  BY <1>12, NamesAndPubs DEF Crash, PubTypes, NameTypes
<1>13. QED
  BY <1>1, <1>2, <1>3, <1>4, <1>5, <1>6, <1>7, <1>8, <1>9, <1>10, <1>11, <1>12, NamesChange

LEMMA StepSettingTypes ==
  ASSUME SettingTypes, [Next]_vars
  PROVE  SettingTypes'
PROOF
<1>1. overtaken' \in BOOLEAN
  BY SettingsChange DEF SettingTypes, OpenSlot
<1>2. overlapped' \in BOOLEAN
  BY SettingsChange DEF SettingTypes, UnlinkSocket
<1>3. ASSUME NEW p \in Pubs, Retire(p) PROVE gen' \in [Pubs -> 1..MaxGen]
  BY <1>3, LifecycleBounds DEF SettingTypes, Retire
<1>4. QED
  BY <1>1, <1>2, <1>3, SettingsChange DEF SettingTypes

LEMMA StepFrameTypes ==
  ASSUME FrameTypes, NameTypes, SettingTypes, [Next]_vars
  PROVE  FrameTypes'
PROOF
<1>1. ASSUME NEW p \in Pubs, Publish(p) PROVE FrameTypes'
  <2>1. PICK n \in 0..MaxFrames : n = frame[p].n
    BY DEF FrameTypes, FrameRecords
  <2>2. n + 1 \in 0..MaxFrames
    BY <1>1, <2>1, LifecycleBounds DEF Publish
  <2>3. frame' = [frame EXCEPT ![p] = [pub |-> p, gen |-> gen[p], n |-> n + 1]]
    BY <1>1, <2>1 DEF Publish, FrameTypes
  <2>4. [pub |-> p, gen |-> gen[p], n |-> n + 1] \in FrameRecords
    BY <2>2, NamesAndPubs DEF FrameRecords, SettingTypes
  <2>5. frame' \in [Pubs -> FrameRecords]
    BY <2>3, <2>4 DEF FrameTypes
  <2>6. box' \in FrameRecords /\ last' = last
    BY <1>1, <2>5 DEF Publish, FrameTypes, subVars
  <2>7. QED
    BY <2>5, <2>6 DEF FrameTypes
<1>2. CASE OpenChannel
  BY <1>2, ZeroRecords, NamesAndPubs DEF OpenChannel, FrameTypes, NameTypes, pubVars
<1>3. CASE LatestView
  <2>1. LatestFrame \in FrameRecords \/ meta.kind = "slot"
    BY ZeroRecords DEF LatestFrame, FrameTypes
  <2>2. last' \in FrameRecords
    BY <1>3, <2>1 DEF LatestView, FrameTypes
  <2>3. QED
    BY <1>3, <2>2, ZeroRecords DEF LatestView, FrameTypes, pubVars
<1>4. QED
  BY <1>1, <1>2, <1>3, FramesChange DEF FrameTypes

\* The frame a channel brings is one that was published, or none.
LEMMA LatestFrameTyped ==
  ASSUME FrameTypes, SubTypes, meta.kind = "slot" => meta.pub # 0
  PROVE  LatestFrame \in FrameRecords
PROOF
<1>1. CASE meta.kind = "slot"
  BY <1>1, NamesAndPubs DEF LatestFrame, FrameTypes, SubTypes
<1>2. CASE meta.kind # "slot"
  BY <1>2, ZeroRecords DEF LatestFrame, FrameTypes
<1>3. QED
  BY <1>1, <1>2

LEMMA StepSubTypes ==
  ASSUME FrameTypes, NameTypes, SettingTypes, SubTypes, [Next]_vars,
         meta.kind = "slot" => meta.pub # 0
  PROVE  SubTypes'
PROOF
<1>1. ASSUME NEW p \in Pubs, Accept(p), UNCHANGED <<pool, meta, view>> PROVE SubTypes'
  BY <1>1, NamesAndPubs DEF Accept, SubTypes, SettingTypes
<1>2. CASE Connect
  BY <1>2, NamesAndPubs DEF Connect, SubTypes, NameTypes
<1>3. CASE RecvPool
  BY <1>3, ZeroRecords DEF RecvPool, SubTypes
<1>4. CASE RecvPoolFails
  BY <1>4, ZeroRecords DEF RecvPoolFails, SubTypes
<1>5. CASE OpenChannel
  <2>1. sub' = Idle /\ pool' = pool /\ view' = view
    BY <1>5 DEF OpenChannel
  <2>2. meta' \in [kind : {"none", "slot", "service"}, pub : 0..MaxPubs]
    BY <1>5, ZeroRecords, NamesAndPubs DEF OpenChannel, NameTypes
  <2>3. QED
    BY <2>1, <2>2, ZeroRecords DEF SubTypes
<1>6. CASE LatestView
  <2>1. LatestFrame.pub \in 0..MaxPubs /\ pool.pub \in 0..MaxPubs
    BY LatestFrameTyped DEF FrameRecords, SubTypes
  <2>2. [frame |-> LatestFrame.pub, buffers |-> pool.pub] \in
          [frame : 0..MaxPubs, buffers : 0..MaxPubs]
    BY <2>1
  <2>3. view' \in [frame : 0..MaxPubs, buffers : 0..MaxPubs]
    BY <1>6, <2>2 DEF LatestView, SubTypes
  <2>4. QED
    BY <1>6, <2>3 DEF LatestView, SubTypes
<1>7. QED
  BY <1>1, <1>2, <1>3, <1>4, <1>5, <1>6, SubscriberChanges DEF SubTypes, SubscriberNext

LEMMA StepTyped ==
  ASSUME TypeOK, [Next]_vars, meta.kind = "slot" => meta.pub # 0
  PROVE  TypeOK'
PROOF
<1>1. PubTypes /\ NameTypes /\ SettingTypes /\ FrameTypes /\ SubTypes
  BY TypeParts
<1>2. PubTypes' /\ NameTypes'
  BY <1>1, StepPubTypes
<1>3. SettingTypes'
  BY <1>1, StepSettingTypes
<1>4. FrameTypes'
  BY <1>1, StepFrameTypes
<1>5. SubTypes'
  BY <1>1, StepSubTypes
<1>6. QED
  BY <1>2, <1>3, <1>4, <1>5, TypePartsPrime

-----------------------------------------------------------------------------
(* The publishers: their order, what each has, and the names.               *)

\* A publisher, once started, stays started.
LEMMA StartedStay ==
  ASSUME TypeOK, [Next]_vars, NEW p \in Pubs, pc[p] # "none"
  PROVE  pc'[p] # "none"
PROOF
<1>1. CASE UNCHANGED pc
  BY <1>1
<1>2. ASSUME NEW q \in Pubs,
             \/ UnlinkSocket(q) \/ BindSocket(q) \/ MakePort(q) \/ UnlinkSlot(q) \/ OpenSlot(q)
             \/ SizeSlot(q) \/ Complete(q) \/ Stop(q) \/ CloseServer(q) \/ CloseChannel(q)
             \/ Crash(q)
      PROVE  pc'[p] # "none"
  <2>1. PICK s \in {"bind", "channel", "open", "size", "check", "live", "stop", "close", "gone"} :
          pc' = [pc EXCEPT ![q] = s]
    BY <1>2
    DEF At, UnlinkSocket, BindSocket, MakePort, UnlinkSlot, OpenSlot, SizeSlot, Complete,
                Stop, CloseServer, CloseChannel, Crash
  <2>2. QED
    BY <2>1 DEF TypeOK
<1>3. QED
  BY <1>1, <1>2, NamesChange

\* A publisher that is not started by a step was not alive only if it is not after it.
LEMMA StartedBefore ==
  ASSUME TypeOK, [Next]_vars
  PROVE  \/ /\ overlapped' = overlapped
            /\ \A p \in Pubs : (pc'[p] # "none" <=> pc[p] # "none") /\ (Alive(p)' => Alive(p))
         \/ \E q \in Pubs : UnlinkSocket(q)
PROOF
<1>1. CASE UNCHANGED <<pc, overlapped>>
  BY <1>1 DEF Alive
<1>2. ASSUME NEW q \in Pubs,
             \/ BindSocket(q) \/ MakePort(q) \/ UnlinkSlot(q) \/ OpenSlot(q)
             \/ SizeSlot(q) \/ Complete(q) \/ Stop(q) \/ CloseServer(q) \/ CloseChannel(q)
             \/ Crash(q)
      PROVE  /\ overlapped' = overlapped
             /\ \A p \in Pubs : (pc'[p] # "none" <=> pc[p] # "none") /\ (Alive(p)' => Alive(p))
  <2>1. PICK s \in {"bind", "channel", "open", "size", "check", "live", "stop", "close", "gone"} :
          pc' = [pc EXCEPT ![q] = s]
    BY <1>2 DEF At, BindSocket, MakePort, UnlinkSlot, OpenSlot, SizeSlot, Complete,
                Stop, CloseServer, CloseChannel, Crash
  <2>2. Alive(q) /\ overlapped' = overlapped
    BY <1>2 DEF At, BindSocket, MakePort, UnlinkSlot, OpenSlot, SizeSlot, Complete,
                Stop, CloseServer, CloseChannel, Crash, Alive, namesVars
  <2>3. QED
    BY <2>1, <2>2 DEF TypeOK, Alive
<1>3. QED
  BY <1>1, <1>2, NamesChange

LEMMA StepStart ==
  ASSUME TypeOK, StartInv, [Next]_vars
  PROVE  StartInv'
PROOF
<1>1. CASE /\ overlapped' = overlapped
           /\ \A p \in Pubs : (pc'[p] # "none" <=> pc[p] # "none") /\ (Alive(p)' => Alive(p))
  BY <1>1 DEF StartInv
<1>2. ASSUME NEW q \in Pubs, UnlinkSocket(q) PROVE StartInv'
  <2>1. pc' = [pc EXCEPT ![q] = "bind"] /\ pc[q] = "none"
    BY <1>2 DEF UnlinkSocket, At
  <2>2. \A p \in Pubs : q < p => pc[p] = "none"
    BY <2>1 DEF StartInv
  <2>3. \A p \in Pubs : p # q => pc'[p] = pc[p]
    BY <2>1 DEF TypeOK
  <2>4. pc'[q] = "bind"
    BY <2>1 DEF TypeOK
  <2>5. \A p, r \in Pubs : p < r /\ pc'[r] # "none" => pc'[p] # "none"
    <3>1. SUFFICES ASSUME NEW p \in Pubs, NEW r \in Pubs, p < r, pc'[r] # "none"
                   PROVE  pc'[p] # "none"
      OBVIOUS
    <3>2. CASE p = q
      BY <3>2, <2>4
    <3>3. CASE p # q /\ r = q
      BY <3>1, <3>3, <1>2, <2>3 DEF UnlinkSocket
    <3>4. CASE p # q /\ r # q
      BY <3>1, <3>4, <2>3 DEF StartInv
    <3>5. QED
      BY <3>2, <3>3, <3>4
  <2>6. ASSUME ~overlapped', NEW p \in Pubs, NEW r \in Pubs, Alive(p)', pc'[r] # "none"
        PROVE  r =< p
    <3>1. \A s \in Pubs : ~Alive(s)
      BY <1>2, <2>6 DEF UnlinkSocket
    <3>2. p = q
      BY <2>3, <2>6, <3>1 DEF Alive
    <3>3. ~(q < r)
      BY <2>2, <2>3, <2>6, NamesAndPubs
    <3>4. QED
      BY <3>2, <3>3, NamesAndPubs
  <2>7. QED
    BY <2>5, <2>6 DEF StartInv
<1>3. QED
  BY <1>1, <1>2, StartedBefore

\* Unless two have run at once, what is not the one alive has nothing.
LEMMA Alone ==
  ASSUME StartInv, HoldInv, PubTypes, ~overlapped, NEW p \in Pubs, Alive(p)
  PROVE  \A q \in Pubs : q # p => ~socket[q] /\ channel[q] = "none" /\ ~Alive(q)
PROOF
<1>1. \A q \in Pubs : Alive(q) => q = p
  BY NamesAndPubs DEF StartInv, Alive
<1>2. QED
  BY <1>1 DEF HoldInv, HasSocket, HasChannel, Alive, PubTypes

\* What a publisher has is what its place in its life gives it.
LEMMA StepHold ==
  ASSUME PubTypes, NameTypes, HoldInv, [Next]_vars
  PROVE  HoldInv'
PROOF
<1>1. CASE UNCHANGED <<pc, socket, channel, sockName, shmName, sized, port, overlapped>>
  BY <1>1, SettingsChange DEF HoldInv, HasSocket, HasChannel
<1>2. ASSUME NEW p \in Pubs, UnlinkSocket(p) PROVE HoldInv'
  BY <1>2, NamesAndPubs
  DEF UnlinkSocket, At, HoldInv, HasSocket, HasChannel, PubTypes, NameTypes, namesVars, Alive
<1>3. ASSUME NEW p \in Pubs, BindSocket(p) PROVE HoldInv'
  BY <1>3, NamesAndPubs
  DEF BindSocket, At, HoldInv, HasSocket, HasChannel, PubTypes, NameTypes, namesVars
<1>4. ASSUME NEW p \in Pubs, MakePort(p) PROVE HoldInv'
  BY <1>4, NamesAndPubs
  DEF MakePort, At, HoldInv, HasSocket, HasChannel, PubTypes, NameTypes, namesVars
<1>5. ASSUME NEW p \in Pubs, UnlinkSlot(p) PROVE HoldInv'
  BY <1>5, NamesAndPubs
  DEF UnlinkSlot, At, HoldInv, HasSocket, HasChannel, PubTypes, NameTypes, namesVars
<1>6. ASSUME NEW p \in Pubs, OpenSlot(p) PROVE HoldInv'
  BY <1>6, NamesAndPubs
  DEF OpenSlot, At, HoldInv, HasSocket, HasChannel, PubTypes, NameTypes, namesVars
<1>7. ASSUME NEW p \in Pubs, SizeSlot(p) PROVE HoldInv'
  BY <1>7, NamesAndPubs
  DEF SizeSlot, At, HoldInv, HasSocket, HasChannel, PubTypes, NameTypes, namesVars
<1>8. ASSUME NEW p \in Pubs, Complete(p) PROVE HoldInv'
  BY <1>8, NamesAndPubs
  DEF Complete, At, HoldInv, HasSocket, HasChannel, PubTypes, NameTypes, namesVars
<1>9. ASSUME NEW p \in Pubs, Stop(p) PROVE HoldInv'
  BY <1>9, NamesAndPubs
  DEF Stop, At, HoldInv, HasSocket, HasChannel, PubTypes, NameTypes, namesVars
<1>10. ASSUME NEW p \in Pubs, CloseServer(p) PROVE HoldInv'
  BY <1>10, NamesAndPubs
  DEF CloseServer, At, HoldInv, HasSocket, HasChannel, PubTypes, NameTypes, namesVars
<1>11. ASSUME NEW p \in Pubs, CloseChannel(p) PROVE HoldInv'
  BY <1>11, NamesAndPubs
  DEF CloseChannel, At, HoldInv, HasSocket, HasChannel, PubTypes, NameTypes, namesVars
<1>12. ASSUME NEW p \in Pubs, Crash(p) PROVE HoldInv'
  BY <1>12, NamesAndPubs
  DEF Crash, At, HoldInv, HasSocket, HasChannel, PubTypes, NameTypes, namesVars, Alive
<1>13. QED
  BY <1>1, <1>2, <1>3, <1>4, <1>5, <1>6, <1>7, <1>8, <1>9, <1>10, <1>11, <1>12, NamesChange

\* While one publisher is alive at a time, nobody takes its names from it.
LEMMA StepName ==
  ASSUME PubTypes, NameTypes, StartInv, HoldInv, NameInv, [Next]_vars
  PROVE  NameInv'
PROOF
<1>1. CASE UNCHANGED <<pc, socket, channel, sockName, shmName, sized, port, overlapped>>
  BY <1>1, SettingsChange DEF NameInv, HoldInv, HasSocket, HasChannel
<1>2. ASSUME NEW p \in Pubs, UnlinkSocket(p) PROVE NameInv'
  BY <1>2, NamesAndPubs, Alone
    DEF UnlinkSocket, At, NameInv, HoldInv, HasSocket, HasChannel, PubTypes, NameTypes,
      namesVars, Alive
<1>3. ASSUME NEW p \in Pubs, BindSocket(p) PROVE NameInv'
  <2>1. SUFFICES ASSUME ~overlapped
                 PROVE  NameInv'
    BY <1>3 DEF NameInv, BindSocket
  <2>2. \A q \in Pubs : q # p => ~socket[q] /\ channel[q] = "none" /\ ~Alive(q)
    BY <1>3, <2>1, Alone DEF BindSocket, At, Alive
  <2>3. socket[p] => sockName = p
    BY <2>1 DEF NameInv
  <2>4. channel[p] = "none" /\ (pc[p] = "bind" => ~socket[p])
    BY <1>3 DEF BindSocket, At, HoldInv, HasSocket, HasChannel, PubTypes
  <2>5. \A q \in Pubs : q # p => pc'[q] # "size"
    BY <1>3, <2>2 DEF BindSocket, At, PubTypes, Alive
  <2>6. QED
    BY <1>3, <2>2, <2>3, <2>4, <2>5 DEF BindSocket, At, NameInv, PubTypes
<1>4. ASSUME NEW p \in Pubs, MakePort(p) PROVE NameInv'
  BY <1>4, NamesAndPubs, Alone
  DEF MakePort, At, NameInv, HoldInv, HasSocket, HasChannel, PubTypes, NameTypes, namesVars
<1>5. ASSUME NEW p \in Pubs, UnlinkSlot(p) PROVE NameInv'
  <2>1. SUFFICES ASSUME ~overlapped
                 PROVE  NameInv'
    BY <1>5 DEF NameInv, UnlinkSlot
  <2>2. \A q \in Pubs : q # p => ~socket[q] /\ channel[q] = "none" /\ ~Alive(q)
    BY <1>5, <2>1, Alone DEF UnlinkSlot, At, Alive
  <2>3. socket[p] => sockName = p
    BY <2>1 DEF NameInv
  <2>4. channel[p] = "none" /\ (pc[p] = "bind" => ~socket[p])
    BY <1>5 DEF UnlinkSlot, At, HoldInv, HasSocket, HasChannel, PubTypes
  <2>5. \A q \in Pubs : q # p => pc'[q] # "size"
    BY <1>5, <2>2 DEF UnlinkSlot, At, PubTypes, Alive
  <2>6. QED
    BY <1>5, <2>2, <2>3, <2>4, <2>5 DEF UnlinkSlot, At, NameInv, PubTypes
<1>6. ASSUME NEW p \in Pubs, OpenSlot(p) PROVE NameInv'
  <2>1. SUFFICES ASSUME ~overlapped
                 PROVE  NameInv'
    BY <1>6 DEF NameInv, OpenSlot
  <2>2. \A q \in Pubs : q # p => ~socket[q] /\ channel[q] = "none" /\ ~Alive(q)
    BY <1>6, <2>1, Alone DEF OpenSlot, At, Alive
  <2>3. socket[p] => sockName = p
    BY <2>1 DEF NameInv
  <2>4. channel[p] = "none" /\ (pc[p] = "bind" => ~socket[p])
    BY <1>6 DEF OpenSlot, At, HoldInv, HasSocket, HasChannel, PubTypes
  <2>5. \A q \in Pubs : q # p => pc'[q] # "size"
    BY <1>6, <2>2 DEF OpenSlot, At, PubTypes, Alive
  <2>6. QED
    BY <1>6, <2>2, <2>3, <2>4, <2>5 DEF OpenSlot, At, NameInv, PubTypes
<1>7. ASSUME NEW p \in Pubs, SizeSlot(p) PROVE NameInv'
  BY <1>7, NamesAndPubs, Alone
  DEF SizeSlot, At, NameInv, HoldInv, HasSocket, HasChannel, PubTypes, NameTypes, namesVars
<1>8. ASSUME NEW p \in Pubs, Complete(p) PROVE NameInv'
  BY <1>8, NamesAndPubs, Alone
  DEF Complete, At, NameInv, HoldInv, HasSocket, HasChannel, PubTypes, NameTypes, namesVars
<1>9. ASSUME NEW p \in Pubs, Stop(p) PROVE NameInv'
  BY <1>9, NamesAndPubs, Alone
  DEF Stop, At, NameInv, HoldInv, HasSocket, HasChannel, PubTypes, NameTypes, namesVars
<1>10. ASSUME NEW p \in Pubs, CloseServer(p) PROVE NameInv'
  BY <1>10, NamesAndPubs, Alone
  DEF CloseServer, At, NameInv, HoldInv, HasSocket, HasChannel, PubTypes, NameTypes, namesVars
<1>11. ASSUME NEW p \in Pubs, CloseChannel(p) PROVE NameInv'
  BY <1>11, NamesAndPubs, Alone
    DEF CloseChannel, At, NameInv, HoldInv, HasSocket, HasChannel, PubTypes, NameTypes,
      namesVars
<1>12. ASSUME NEW p \in Pubs, Crash(p) PROVE NameInv'
  BY <1>12, NamesAndPubs, Alone
    DEF Crash, At, NameInv, HoldInv, HasSocket, HasChannel, PubTypes, NameTypes, namesVars,
      Alive
<1>13. QED
  BY <1>1, <1>2, <1>3, <1>4, <1>5, <1>6, <1>7, <1>8, <1>9, <1>10, <1>11, <1>12, NamesChange

-----------------------------------------------------------------------------
(* The subscriber: its handshake, its channel and its views.                *)

\* What has happened once is remembered.
LEMMA NotesStay ==
  ASSUME [Next]_vars, SettingTypes
  PROVE  /\ ~overtaken' => ~overtaken
         /\ ~overlapped' => ~overlapped
         /\ iox' = iox
PROOF
  BY SettingsChange DEF SettingTypes, OpenSlot, UnlinkSocket

\* The name of the slot is taken away, or given by a publisher that makes its slot.
LEMMA SlotNameChanges ==
  ASSUME [Next]_vars
  PROVE  \/ shmName' \in {shmName, 0}
         \/ \E p \in Pubs : /\ shmName' = p /\ sub' = sub
                            /\ overtaken' = (overtaken \/ sub.to \notin {0, p})
PROOF
  BY NamesChange
  DEF UnlinkSocket, BindSocket, MakePort, UnlinkSlot, OpenSlot, SizeSlot, Complete,
     Stop, CloseServer, CloseChannel, Crash, namesVars

LEMMA StepHandshake ==
  ASSUME TypeOK, HoldInv, NameInv, HandshakeInv, [Next]_vars
  PROVE  HandshakeInv'
PROOF
<1>1. PubTypes /\ NameTypes /\ SettingTypes /\ FrameTypes /\ SubTypes
  BY TypeParts
<1>2. \A p \in Pubs : pc[p] # "none" => pc'[p] # "none"
  BY StartedStay
<1>3. sub.to # 0 => sub.to \in Pubs
  BY <1>1, NamesAndPubs DEF SubTypes
<1>4. pool.pub # 0 => pool.pub \in Pubs
  BY <1>1, NamesAndPubs DEF SubTypes
<1>5. (sub.to # 0 => pc'[sub.to] # "none") /\ (pool.pub # 0 => pc'[pool.pub] # "none")
  BY <1>2, <1>3, <1>4 DEF HandshakeInv
<1>6. ASSUME sub.sent # 0, sub' = sub, ~iox', ~overtaken', ~overlapped'
      PROVE  shmName' \in {0, sub.to}
  <2>1. shmName \in {0, sub.to} /\ sub.to # 0
    BY <1>1, <1>6, NotesStay DEF HandshakeInv
  <2>2. QED
    BY <1>6, <2>1, SlotNameChanges
<1>7. CASE UNCHANGED <<sub, pool, meta, view>>
  BY <1>5, <1>6, <1>7 DEF HandshakeInv
<1>8. ASSUME NEW p \in Pubs, Accept(p), UNCHANGED <<pool, meta, view>> PROVE HandshakeInv'
  <2>1. sub'.pc = "pool" /\ sub'.to = p /\ pc'[p] # "none" /\ p # 0
    BY <1>1, <1>8, NamesAndPubs DEF Accept, SubTypes, pubVars
  <2>2. ~iox /\ ~overlapped => shmName = p
    BY <1>1, <1>8 DEF Accept, HoldInv, NameInv, PubTypes
  <2>3. iox' = iox /\ overlapped' = overlapped /\ shmName' = shmName
    BY <1>8 DEF Accept, namesVars
  <2>4. QED
    BY <1>5, <1>8, <2>1, <2>2, <2>3 DEF HandshakeInv
<1>9. CASE Connect
  <2>1. sockName \in Pubs /\ pc[sockName] # "none"
    BY <1>1, <1>9, NamesAndPubs DEF Connect, HoldInv, HasSocket, NameTypes
  <2>2. sub' = [pc |-> "pool", to |-> sockName, sent |-> 0] /\ pool' = pool /\ pc' = pc
    BY <1>9 DEF Connect, pubVars
  <2>3. QED
    BY <1>5, <2>1, <2>2 DEF HandshakeInv
<1>10. CASE RecvPool
  <2>1. /\ sub'.pc = "slot" /\ sub'.to = sub.to /\ sub'.sent = sub.sent /\ sub.sent # 0
        /\ pool'.pub = sub.to /\ view' = NoView
        /\ UNCHANGED <<iox, overtaken, overlapped, shmName, pc>>
    BY <1>1, <1>10 DEF RecvPool, SubTypes, namesVars, pubVars
  <2>2. QED
    BY <2>1 DEF HandshakeInv
<1>11. CASE RecvPoolFails \/ OpenChannel
  <2>1. sub' = Idle /\ pool' = pool
    BY <1>11 DEF RecvPoolFails, OpenChannel
  <2>2. QED
    BY <1>5, <2>1 DEF HandshakeInv, Idle
<1>12. CASE LatestView
  <2>1. sub' = sub /\ pool' = pool /\ sub.pc = "idle"
    BY <1>12 DEF LatestView
  <2>2. QED
    BY <1>5, <1>6, <2>1 DEF HandshakeInv
<1>13. QED
  BY <1>7, <1>8, <1>9, <1>10, <1>11, <1>12, SubscriberChanges DEF SubscriberNext

\* The frame a channel brings is its publisher's, or of the service's one publisher
\* then or since.
LEMMA LatestFrameOfPool ==
  ASSUME TypeOK, ChannelInv, sub.pc = "idle", meta.kind # "none", LatestFrame # NoFrame,
         ~overtaken, ~overlapped
  PROVE  \/ LatestFrame.pub = pool.pub
         \/ meta.kind = "service" /\ LatestFrame.pub >= pool.pub
PROOF
<1>1. CASE meta.kind = "slot"
  <2>1. meta.pub \in Pubs /\ meta.pub = pool.pub
    BY <1>1, NamesAndPubs, TypeParts DEF SubTypes, ChannelInv
  <2>2. LatestFrame = frame[meta.pub]
    BY <1>1 DEF LatestFrame
  <2>3. QED
    BY <2>1, <2>2 DEF ChannelInv
<1>2. CASE meta.kind = "service"
  <2>1. LatestFrame \in {box, last}
    BY <1>2 DEF LatestFrame
  <2>2. QED
    BY <1>2, <2>1 DEF ChannelInv
<1>3. QED
  BY <1>1, <1>2, TypeParts DEF SubTypes

LEMMA StepChannel ==
  ASSUME TypeOK, StartInv, HoldInv, HandshakeInv, ChannelInv, [Next]_vars
  PROVE  ChannelInv'
PROOF
<1>1. PubTypes /\ NameTypes /\ SettingTypes /\ FrameTypes /\ SubTypes
  BY TypeParts
<1>2. (~overtaken' => ~overtaken) /\ (~overlapped' => ~overlapped) /\ iox' = iox
  BY <1>1, NotesStay
<1>3. \A p \in Pubs : frame'[p] = NoFrame \/ frame'[p].pub = p
  <2>1. ASSUME NEW q \in Pubs, Publish(q)
        PROVE  \A p \in Pubs : frame'[p] = NoFrame \/ frame'[p].pub = p
    BY <1>1, <2>1 DEF Publish, FrameTypes, ChannelInv
  <2>2. QED
    BY <2>1, FramesChange DEF OpenChannel, LatestView, pubVars, ChannelInv
<1>4. ASSUME NEW p \in Pubs, pc[p] # "none", Alive(p) \/ pc[p] = "live", ~overlapped
      PROVE  p >= pool.pub
  <2>1. Alive(p) /\ (pool.pub # 0 => pool.pub \in Pubs /\ pc[pool.pub] # "none")
    BY <1>1, <1>4, NamesAndPubs DEF SubTypes, HandshakeInv, Alive
  <2>2. CASE pool.pub = 0
    BY <2>2, NamesAndPubs
  <2>3. CASE pool.pub # 0
    BY <1>4, <2>1, <2>3, NamesAndPubs DEF StartInv
  <2>4. QED
    BY <2>2, <2>3
<1>5. ASSUME UNCHANGED <<pool, meta>>, UNCHANGED <<box, last>>, sub'.pc = "slot" <=> sub.pc = "slot"
      PROVE  ChannelInv'
  BY <1>2, <1>3, <1>5 DEF ChannelInv
<1>6. ASSUME NEW p \in Pubs, Publish(p) PROVE ChannelInv'
  <2>1. UNCHANGED <<sub, pool, meta, last>>
    BY <1>6 DEF Publish, subVars
  <2>2. box' = box \/ box'.pub = p
    BY <1>1, <1>6 DEF Publish, FrameTypes
  <2>3. ~overlapped' => p >= pool.pub
    BY <1>2, <1>4, <1>6 DEF Publish, namesVars
  <2>4. QED
    BY <1>2, <1>3, <2>1, <2>2, <2>3 DEF ChannelInv
<1>7. CASE Connect \/ RecvPoolFails
  BY <1>5, <1>7 DEF Connect, RecvPoolFails, Idle, subVars
<1>8. CASE RecvPool
  <2>1. sub'.pc = "slot" /\ meta' = meta
    BY <1>1, <1>8 DEF RecvPool, SubTypes
  <2>2. QED
    BY <1>3, <2>1 DEF ChannelInv
<1>9. CASE OpenChannel
  <2>1. /\ sub.pc = "slot" /\ last' = NoFrame /\ pool' = pool
        /\ UNCHANGED <<iox, overtaken, overlapped, shmName, port, frame>>
    BY <1>9 DEF OpenChannel, namesVars, pubVars
  <2>2. CASE iox
    <3>1. meta'.kind = "service" /\ box' = IF port = 0 THEN NoFrame ELSE frame[port]
      BY <1>9, <2>2 DEF OpenChannel
    <3>2. ~overlapped /\ box' # NoFrame => box'.pub >= pool.pub
      <4>1. SUFFICES ASSUME ~overlapped, box' # NoFrame
                     PROVE  box'.pub >= pool.pub
        OBVIOUS
      <4>2. port # 0 /\ port \in Pubs
        BY <1>1, <3>1, <4>1, NamesAndPubs DEF NameTypes
      <4>3. pc[port] # "none" /\ Alive(port)
        BY <4>2 DEF HoldInv, HasChannel, Alive
      <4>4. box'.pub = port
        BY <3>1, <4>1, <4>2 DEF ChannelInv
      <4>5. QED
        BY <1>4, <4>1, <4>2, <4>3, <4>4
    <3>3. QED
      BY <1>3, <2>1, <3>1, <3>2 DEF ChannelInv
  <2>3. CASE ~iox
    <3>1. \/ meta' = NoMeta
          \/ meta' = [kind |-> "slot", pub |-> shmName] /\ shmName # 0
      BY <1>9, <2>3 DEF OpenChannel
    <3>2. ~overtaken /\ ~overlapped /\ shmName # 0 => shmName = pool.pub
      BY <2>1, <2>3 DEF HandshakeInv
    <3>3. QED
      BY <1>3, <2>1, <3>1, <3>2 DEF ChannelInv, NoMeta
  <2>4. QED
    BY <2>2, <2>3
<1>10. CASE LatestView
  <2>1. UNCHANGED <<sub, pool, meta>> /\ box' = NoFrame
    BY <1>10 DEF LatestView
  <2>2. meta.kind = "service" => last' \in {box, last}
    BY <1>10 DEF LatestView, LatestFrame
  <2>3. QED
    BY <1>2, <1>3, <2>1, <2>2 DEF ChannelInv
<1>11. ASSUME NEW p \in Pubs, Accept(p) PROVE ChannelInv'
  BY <1>1, <1>5, <1>11 DEF Accept, SubTypes
<1>12. QED
  BY <1>5, <1>6, <1>7, <1>8, <1>9, <1>10, <1>11, FramesChange, SubscriberChanges
  DEF SubscriberNext

LEMMA StepViews ==
  ASSUME TypeOK, HandshakeInv, ChannelInv, ViewsMatchPool, [Next]_vars
  PROVE  ViewsMatchPool'
PROOF
<1>1. SettingTypes /\ SubTypes /\ FrameTypes
  BY TypeParts
<1>2. (~overtaken' => ~overtaken) /\ (~overlapped' => ~overlapped)
  BY <1>1, NotesStay
<1>3. CASE UNCHANGED <<meta, view>>
  BY <1>2, <1>3 DEF ViewsMatchPool
<1>4. CASE view' = NoView
  BY <1>4 DEF ViewsMatchPool, NoView
<1>5. CASE OpenChannel
  BY <1>4, <1>5 DEF OpenChannel, HandshakeInv
<1>6. CASE LatestView /\ view' # view
  <2>1. view' = [frame |-> LatestFrame.pub, buffers |-> pool.pub] /\ meta' = meta
    BY <1>6 DEF LatestView
  <2>2. ~overtaken /\ ~overlapped =>
          \/ LatestFrame.pub = pool.pub
          \/ meta.kind = "service" /\ LatestFrame.pub >= pool.pub
    BY <1>6, LatestFrameOfPool DEF LatestView
  <2>3. LatestFrame.pub \in Int /\ pool.pub \in Int
    BY <1>1, <1>6, LatestFrameTyped DEF SubTypes, FrameRecords, ChannelInv
  <2>4. LatestFrame.pub >= pool.pub /\ LatestFrame.pub # pool.pub => LatestFrame.pub > pool.pub
    BY <2>3
  <2>5. QED
    BY <1>2, <2>1, <2>2, <2>4 DEF ViewsMatchPool
<1>7. CASE LatestView /\ view' = view
  BY <1>3, <1>7 DEF LatestView
<1>8. QED
  BY <1>3, <1>4, <1>5, <1>6, <1>7, SubscriberChanges
  DEF SubscriberNext, Connect, RecvPool, RecvPoolFails

-----------------------------------------------------------------------------
(* The results.                                                             *)

LEMMA InitInv ==
  ASSUME Init
  PROVE  IInv
PROOF
<1>1. TypeOK
  BY InitTyped
<1>2. StartInv /\ HoldInv /\ NameInv
  BY DEF Init, StartInv, HoldInv, NameInv, Alive
<1>3. HandshakeInv /\ ChannelInv /\ ViewsMatchPool
  BY DEF Init, HandshakeInv, ChannelInv, ViewsMatchPool, Idle, NoPool, NoMeta, NoView, NoFrame
<1>4. QED
  BY <1>1, <1>2, <1>3 DEF IInv

LEMMA StepInv ==
  ASSUME IInv, [Next]_vars
  PROVE  IInv'
PROOF
<1>1. TypeOK'
  BY StepTyped DEF IInv, ChannelInv
<1>2. StartInv'
  BY StepStart DEF IInv
<1>3. HoldInv' /\ NameInv'
  BY StepHold, StepName, TypeParts DEF IInv
<1>4. HandshakeInv'
  BY StepHandshake DEF IInv
<1>5. ChannelInv'
  BY StepChannel DEF IInv
<1>6. ViewsMatchPool'
  BY StepViews DEF IInv
<1>7. QED
  BY <1>1, <1>2, <1>3, <1>4, <1>5, <1>6 DEF IInv

\* Publishers and the subscriber keep the invariant in every reachable state,
\* whoever stops or dies at whatever step of create() or of the destructor.
THEOREM Invariance == Spec => []IInv
PROOF
<1>1. Init => IInv
  BY InitInv
<1>2. IInv /\ [Next]_vars => IInv'
  BY StepInv
<1>3. QED
  BY <1>1, <1>2, PTL DEF Spec

\* Names, channels, handshake, frames and views keep their types.
THEOREM TypeCorrectness == Spec => []TypeOK
PROOF
<1>1. IInv => TypeOK
  BY DEF IInv
<1>2. QED
  BY <1>1, Invariance, PTL

\* As long as a publisher starts only after the end of the one before, a live one
\* is found under the name of its socket, and its slot under the name of the slot:
\* create() takes away what a crash left, and no destructor comes after it.
THEOREM LivePublishersAreNamed == Spec => []LivePublisherIsNamed
PROOF
<1>1. IInv => LivePublisherIsNamed
  BY DEF IInv, HoldInv, NameInv, LivePublisherIsNamed
<1>2. QED
  BY <1>1, Invariance, PTL

\* latest_view() maps a frame into the buffers of the publisher that sent it, but
\* for the three cases the property names.
THEOREM ViewsMatchTheirPool == Spec => []ViewsMatchPool
PROOF
<1>1. IInv => ViewsMatchPool
  BY DEF IInv
<1>2. QED
  BY <1>1, Invariance, PTL

-----------------------------------------------------------------------------
(* Module Realtime.  The invariants are about a system k and a table H of   *)
(* holds, so that calls made of several steps take them one by one.         *)

Kernels == [limit : [Cpus -> Nat \cup {NoLimit}], refs : [Fds -> SUBSET Procs],
            nest : [Cpus -> SUBSET CpuHolds], crossed : [Cpus -> BOOLEAN]]
SomeHolds == CpuHolds \cup AllHolds
HoldTables == [Procs -> [Holders -> {NoHold} \cup SomeHolds]]

\* The limit that was there when a hold of level n was taken is the one of the
\* hold next to it.
Outside(S, n) == IF n = 1 THEN {NoLimit} ELSE {x.us : x \in {y \in S : y.level = n - 1}}
InForceOn(S) == IF S = {} THEN {NoLimit} ELSE {x.us : x \in Innermost(S)}
NestOn(c, S, isCrossed, lim) ==
  /\ \A x \in S : x.cpu = c
  /\ \A x \in S : \A y \in S : x.level = y.level => x = y
  /\ ~isCrossed => lim \in InForceOn(S) /\ \A x \in S : x.restore \in Outside(S, x.level)
WellNested(k) == \A c \in Cpus : NestOn(c, k.nest[c], k.crossed[c], k.limit[c])

\* What a process has acquired itself is in force, and in one place only.
Owns(H, p, h) == H[p][h] \in SomeHolds /\ H[p][h].owner = p
InForce(k, x) == IF x.kind = "cpu" THEN x \in k.nest[x.cpu] ELSE x.owner \in k.refs[x.fd]
Apart(x, y) == x # y /\ (x.kind = "all" /\ y.kind = "all" => x.fd # y.fd)
Kept(k, H) ==
  \A p \in Procs : \A h \in Holders : Owns(H, p, h) =>
    /\ InForce(k, H[p][h])
    /\ \A g \in Holders : g # h /\ Owns(H, p, g) => Apart(H[p][h], H[p][g])
\* Only a child has holds of another process, and nobody after its death.
Inherited(A, H) ==
  \A p \in Procs : \A h \in Holders : H[p][h] # NoHold =>
    p \in A /\ (p = Child \/ H[p][h].owner = p)
Requested(k, H) ==
  \A f \in Fds : Parent \in k.refs[f] =>
    \E h \in Holders : H[Parent][h].kind = "all" /\ H[Parent][h].fd = f

LatencyInv(A, k, H) == /\ k \in Kernels /\ H \in HoldTables
                     /\ WellNested(k) /\ Kept(k, H) /\ Inherited(A, H) /\ Requested(k, H)

\* The process that was set up lives and has the hold it asked for.
SetupInv == rt # NotSetUp =>
  /\ rt.by \in alive
  /\ rt.cfg.us >= 0 =>
       /\ Owns(holds, rt.by, Setup) /\ holds[rt.by][Setup].us = rt.cfg.us
       /\ IF holds[rt.by][Setup].kind = "cpu" THEN holds[rt.by][Setup].cpu = rt.cfg.cpu
                                              ELSE rt.cfg.cpu = -1

RtIInv == RtTypeOK /\ LatencyInv(alive, Kernel, holds) /\ SetupInv

-----------------------------------------------------------------------------
LEMMA HoldKinds ==
  /\ NoHold \notin SomeHolds
  /\ \A x \in CpuHolds : x.kind = "cpu" /\ x \notin AllHolds
  /\ \A x \in AllHolds : x.kind = "all" /\ x \notin CpuHolds
<1>1. \A x \in CpuHolds : x.kind = "cpu"
  BY DEF CpuHolds
<1>2. \A x \in AllHolds : x.kind = "all"
  BY DEF AllHolds
<1>3. NoHold.kind = "none"
  BY DEF NoHold
<1> QED
  BY <1>1, <1>2, <1>3 DEF SomeHolds

\* A nest with a hold more: it is inside all the others.
LEMMA NestGrows ==
  ASSUME NEW c \in Cpus, NEW S \in SUBSET CpuHolds, NEW b \in BOOLEAN,
         NEW lim \in Nat \cup {NoLimit}, NestOn(c, S, b, lim),
         NEW h \in CpuHolds, h.cpu = c, h.restore = lim, h.level \in NextLevels(S)
  PROVE  NestOn(c, S \cup {h}, b, h.us) /\ h \notin S
<1> DEFINE n == h.level
           T == S \cup {h}
<1>1. n \in 1..Depth /\ (\A x \in S : x.level < n) /\ (n = 1 \/ \E x \in S : x.level = n - 1)
  BY DEF NextLevels
<1>2. \A x \in CpuHolds : x.level \in Nat /\ x.level >= 1
  BY RealtimeBounds DEF CpuHolds
<1>3. h \notin S
  BY <1>1, <1>2
<1>4. (\A x \in T : x.cpu = c) /\ \A x \in T : \A y \in T : x.level = y.level => x = y
  BY <1>1, <1>2 DEF NestOn
<1>5. h.us \in InForceOn(T)
  <2>1. h \in Innermost(T)
    BY <1>1, <1>2 DEF Innermost
  <2> QED
    BY <2>1 DEF InForceOn
<1>6. ASSUME ~b, NEW x \in T PROVE x.restore \in Outside(T, x.level)
  <2>1. CASE x \in S
    BY <1>6, <2>1 DEF NestOn, Outside
  <2>2. CASE x = h /\ n = 1
    <3>1. S = {}
      BY <1>1, <1>2, <2>2
    <3> QED
      BY <1>6, <2>2, <3>1 DEF NestOn, Outside, InForceOn
  <2>3. CASE x = h /\ n # 1
    <3>1. PICK z \in S : z.level = n - 1
      BY <1>1, <2>3
    <3>2. lim \in {y.us : y \in Innermost(S)}
      BY <1>6, <3>1 DEF NestOn, InForceOn
    <3>3. PICK y \in Innermost(S) : lim = y.us
      BY <3>2
    <3>4. y \in S /\ y.level >= z.level /\ y.level < n
      BY <1>1, <3>1, <3>3 DEF Innermost
    <3>5. y.level = n - 1
      BY <1>1, <1>2, <3>1, <3>4
    <3> QED
      BY <2>3, <3>3, <3>4, <3>5 DEF Outside
  <2> QED
    BY <1>6, <2>1, <2>2, <2>3
<1> QED
  BY <1>3, <1>4, <1>5, <1>6 DEF NestOn

\* A nest with a hold less: the innermost one, or it is crossed from then on.
LEMMA NestShrinks ==
  ASSUME NEW c \in Cpus, NEW S \in SUBSET CpuHolds, NEW b \in BOOLEAN,
         NEW lim \in Nat \cup {NoLimit}, NestOn(c, S, b, lim), NEW h \in S
  PROVE  NestOn(c, S \ {h}, b \/ \E x \in S : x.level > h.level, h.restore)
<1> DEFINE n == h.level
           T == S \ {h}
<1>2. \A x \in S : x.level \in Nat /\ x.level >= 1
  BY RealtimeBounds DEF CpuHolds
<1>3. (\A x \in T : x.cpu = c) /\ \A x \in T : \A y \in T : x.level = y.level => x = y
  BY DEF NestOn
<1>4. ASSUME ~b, ~\E x \in S : x.level > n
      PROVE  h.restore \in InForceOn(T) /\ \A x \in T : x.restore \in Outside(T, x.level)
  <2>1. \A x \in T : x.level < n
    BY <1>2, <1>4 DEF NestOn
  <2>2. h.restore \in Outside(S, n)
    BY <1>4 DEF NestOn
  <2>3. h.restore \in InForceOn(T)
    <3>1. CASE n = 1
      <4>1. T = {}
        BY <1>2, <2>1, <3>1
      <4> QED
        BY <2>2, <3>1, <4>1 DEF Outside, InForceOn
    <3>2. CASE n # 1
      <4>1. PICK z \in S : z.level = n - 1 /\ h.restore = z.us
        BY <2>2, <3>2 DEF Outside
      <4>2. z \in T
        BY <1>2, <4>1
      <4>3. z \in Innermost(T)
        BY <1>2, <2>1, <4>1, <4>2 DEF Innermost
      <4> QED
        BY <4>1, <4>2, <4>3 DEF InForceOn
    <3> QED
      BY <3>1, <3>2
  <2>4. ASSUME NEW x \in T PROVE x.restore \in Outside(T, x.level)
    <3>1. x.restore \in Outside(S, x.level)
      BY <1>4 DEF NestOn
    <3>2. ASSUME NEW y \in S, y.level = x.level - 1 PROVE y \in T
      BY <1>2, <2>1, <3>2
    <3> QED
      BY <3>1, <3>2 DEF Outside
  <2> QED
    BY <2>3, <2>4
<1> QED
  BY <1>3, <1>4 DEF NestOn

\* release() of a hold that its process has acquired itself.
LEMMA ReleaseOwned ==
  ASSUME NEW A, NEW k, NEW H, LatencyInv(A, k, H),
         NEW p \in Procs, NEW h \in Holders, Owns(H, p, h), NEW written \in BOOLEAN
  PROVE  LatencyInv(A, Released(k, p, H[p][h], written), [H EXCEPT ![p][h] = NoHold])
<1> DEFINE x == H[p][h]
           r == Released(k, p, x, written)
           G == [H EXCEPT ![p][h] = NoHold]
<1>1. k \in Kernels /\ H \in HoldTables /\ x \in SomeHolds /\ x.owner = p
  BY DEF LatencyInv, Owns
<1>2. G \in HoldTables /\ G[p][h] = NoHold
  BY <1>1 DEF HoldTables
<1>3. \A q \in Procs : \A g \in Holders : (q = p /\ g = h) \/ G[q][g] = H[q][g]
  BY <1>1 DEF HoldTables
<1>4. \A q \in Procs : \A g \in Holders : Owns(G, q, g) => Owns(H, q, g) /\ G[q][g] = H[q][g]
  BY <1>2, <1>3, HoldKinds DEF Owns
<1>5. Inherited(A, G)
  BY <1>2, <1>3 DEF LatencyInv, Inherited
<1>6. \A q \in Procs : \A g \in Holders : Owns(G, q, g) =>
        InForce(k, G[q][g]) /\ (q = p => Apart(x, G[q][g]))
  <2> SUFFICES ASSUME NEW q \in Procs, NEW g \in Holders, Owns(G, q, g)
               PROVE  InForce(k, G[q][g]) /\ (q = p => Apart(x, G[q][g]))
    OBVIOUS
  <2>1. Owns(H, q, g) /\ G[q][g] = H[q][g]
    BY <1>4
  <2>2. q = p => g # h
    BY <1>2, HoldKinds DEF Owns
  <2> QED
    BY <2>1, <2>2 DEF LatencyInv, Kept
<1>7. \A q \in Procs : \A g \in Holders : \A e \in Holders :
        Owns(G, q, g) /\ e # g /\ Owns(G, q, e) => Apart(G[q][g], G[q][e])
  BY <1>4 DEF LatencyInv, Kept
<1>8. CASE x.kind = "cpu"
  <2> DEFINE c == x.cpu
  <2>1. x \in CpuHolds /\ c \in Cpus /\ x.restore \in Nat \cup {NoLimit}
    BY <1>1, <1>8, HoldKinds DEF SomeHolds, CpuHolds
  <2>2. x \in k.nest[c]
    BY <1>8 DEF LatencyInv, Kept, InForce
  <2> DEFINE v == IF written THEN x.restore ELSE k.limit[c]
             b == k.crossed[c] \/ ~written \/ \E y \in k.nest[c] : y.level > x.level
  <2>v. v \in Nat \cup {NoLimit} /\ b \in BOOLEAN /\ k.crossed[c] \in BOOLEAN
    BY <1>1, <2>1 DEF Kernels
  <2>3. r = [k EXCEPT !.limit[c] = v, !.nest[c] = @ \ {x}, !.crossed[c] = b]
    BY <1>1, <1>8, <2>1 DEF Released, Kernels
  <2>n. ASSUME NestOn(c, k.nest[c], k.crossed[c], k.limit[c])
        PROVE  NestOn(c, k.nest[c] \ {x}, b, v)
    <3>1. k.nest[c] \in SUBSET CpuHolds /\ k.limit[c] \in Nat \cup {NoLimit}
      BY <1>1, <2>1 DEF Kernels
    <3>2. NestOn(c, k.nest[c] \ {x}, k.crossed[c] \/ \E y \in k.nest[c] : y.level > x.level,
                 x.restore)
      BY <2>1, <2>2, <2>v, <2>n, <3>1, NestShrinks
    <3> QED
      BY <3>2 DEF NestOn
  <2> HIDE DEF v, b
  <2>4. /\ r.refs = k.refs /\ r.limit = [k.limit EXCEPT ![c] = v]
        /\ r.nest = [k.nest EXCEPT ![c] = @ \ {x}]
        /\ r.crossed = [k.crossed EXCEPT ![c] = b]
        /\ r \in Kernels
    <3>1. k.nest[c] \ {x} \in SUBSET CpuHolds
      BY <1>1, <2>1 DEF Kernels
    <3>3. /\ r.refs = k.refs /\ r.limit = [k.limit EXCEPT ![c] = v]
          /\ r.nest = [k.nest EXCEPT ![c] = @ \ {x}]
      BY <1>1, <2>1, <2>3 DEF Kernels
    <3>4. r.crossed = [k.crossed EXCEPT ![c] = b]
      BY <1>1, <2>1, <2>3 DEF Kernels
    <3>5. r \in Kernels
      <4>1. r.limit \in [Cpus -> Nat \cup {NoLimit}]
        BY <1>1, <2>1, <2>v, <3>3 DEF Kernels
      <4>2. r.nest \in [Cpus -> SUBSET CpuHolds]
        BY <1>1, <2>1, <3>1, <3>3 DEF Kernels
      <4>3. r.crossed \in [Cpus -> BOOLEAN]
        BY <1>1, <2>1, <2>v, <3>4 DEF Kernels
      <4>4. r = [limit |-> r.limit, refs |-> k.refs, nest |-> r.nest, crossed |-> r.crossed]
        BY <1>1, <2>3 DEF Kernels
      <4> QED
        BY <1>1, <4>1, <4>2, <4>3, <4>4 DEF Kernels
    <3> QED
      BY <3>3, <3>4, <3>5
  <2>5. WellNested(r)
    <3> SUFFICES ASSUME NEW d \in Cpus PROVE NestOn(d, r.nest[d], r.crossed[d], r.limit[d])
      BY DEF WellNested
    <3>0. NestOn(d, k.nest[d], k.crossed[d], k.limit[d])
      BY DEF LatencyInv, WellNested
    <3>1. CASE d # c
      BY <1>1, <2>1, <2>4, <3>0, <3>1 DEF Kernels
    <3>2. CASE d = c
      <4>1. r.nest[d] = k.nest[d] \ {x} /\ r.limit[d] = v /\ r.crossed[d] = b
        BY <1>1, <2>1, <2>4, <3>2 DEF Kernels
      <4>2. NestOn(d, k.nest[d] \ {x}, b, v)
        BY <2>n, <3>0, <3>2
      <4> QED
        BY <4>1, <4>2
    <3> QED
      BY <3>1, <3>2
  <2>6. \A y \in SomeHolds : y # x /\ InForce(k, y) => InForce(r, y)
    <3> SUFFICES ASSUME NEW y \in SomeHolds, y # x, InForce(k, y) PROVE InForce(r, y)
      OBVIOUS
    <3>1. CASE y.kind = "cpu"
      <4>1. y.cpu \in Cpus
        BY <3>1, HoldKinds DEF SomeHolds, CpuHolds
      <4> QED
        BY <1>1, <2>1, <2>4, <3>1, <4>1 DEF InForce, Kernels
    <3>2. CASE y.kind # "cpu"
      BY <2>4, <3>2 DEF InForce
    <3> QED
      BY <3>1, <3>2
  <2>7. Kept(r, G)
    <3> SUFFICES ASSUME NEW q \in Procs, NEW g \in Holders, Owns(G, q, g)
                 PROVE  InForce(r, G[q][g])
      BY <1>7 DEF Kept
    <3>1. G[q][g] \in SomeHolds /\ G[q][g].owner = q /\ InForce(k, G[q][g])
      BY <1>6 DEF Owns
    <3>2. G[q][g] # x
      BY <1>1, <1>6, <3>1 DEF Apart
    <3> QED
      BY <2>6, <3>1, <3>2
  <2>8. Requested(r, G)
    <3> SUFFICES ASSUME NEW f \in Fds, Parent \in k.refs[f]
                 PROVE  \E g \in Holders : G[Parent][g].kind = "all" /\ G[Parent][g].fd = f
      BY <2>4 DEF Requested
    <3>1. PICK g \in Holders : H[Parent][g].kind = "all" /\ H[Parent][g].fd = f
      BY DEF LatencyInv, Requested
    <3> QED
      BY <1>3, <1>8, <3>1 DEF Procs
  <2> QED
    BY <1>2, <1>5, <2>4, <2>5, <2>7, <2>8 DEF LatencyInv
<1>9. CASE x.kind # "cpu"
  <2>1. x \in AllHolds /\ x.kind = "all" /\ x.fd \in Fds
    BY <1>1, <1>9, HoldKinds DEF SomeHolds, AllHolds
  <2>3. r = [k EXCEPT !.refs[x.fd] = @ \ {p}]
    BY <1>1, <2>1 DEF Released
  <2>4. /\ r.refs = [k.refs EXCEPT ![x.fd] = @ \ {p}] /\ r.limit = k.limit /\ r.nest = k.nest
        /\ r.crossed = k.crossed /\ r \in Kernels
    BY <1>1, <2>1, <2>3 DEF Kernels
  <2>5. WellNested(r)
    BY <2>4 DEF LatencyInv, WellNested
  <2>7. Kept(r, G)
    <3> SUFFICES ASSUME NEW q \in Procs, NEW g \in Holders, Owns(G, q, g)
                 PROVE  InForce(r, G[q][g])
      BY <1>7 DEF Kept
    <3>1. G[q][g] \in SomeHolds /\ G[q][g].owner = q /\ InForce(k, G[q][g])
      BY <1>6 DEF Owns
    <3>2. CASE G[q][g].kind = "cpu"
      BY <2>4, <3>1, <3>2 DEF InForce
    <3>3. CASE G[q][g].kind # "cpu"
      <4>1. G[q][g].kind = "all" /\ G[q][g].fd \in Fds
        BY <3>1, <3>3, HoldKinds DEF SomeHolds, AllHolds
      <4>2. q = p => G[q][g].fd # x.fd
        BY <1>6, <2>1, <4>1 DEF Apart
      <4>3. r.refs[G[q][g].fd] = IF G[q][g].fd = x.fd THEN k.refs[x.fd] \ {p}
                                                     ELSE k.refs[G[q][g].fd]
        BY <1>1, <2>1, <2>4, <4>1 DEF Kernels
      <4>4. q \in k.refs[G[q][g].fd]
        BY <3>1, <3>3 DEF InForce
      <4> QED
        BY <3>1, <3>3, <4>2, <4>3, <4>4 DEF InForce
    <3> QED
      BY <3>2, <3>3
  <2>8. Requested(r, G)
    <3> SUFFICES ASSUME NEW f \in Fds, Parent \in r.refs[f]
                 PROVE  \E g \in Holders : G[Parent][g].kind = "all" /\ G[Parent][g].fd = f
      BY DEF Requested
    <3>0. Parent \in k.refs[f] /\ (f = x.fd => p # Parent)
      BY <1>1, <2>1, <2>4 DEF Kernels
    <3>1. PICK g \in Holders : H[Parent][g].kind = "all" /\ H[Parent][g].fd = f
      BY <3>0 DEF LatencyInv, Requested
    <3> QED
      BY <1>3, <3>0, <3>1 DEF Procs
  <2> QED
    BY <1>2, <1>5, <2>4, <2>5, <2>7, <2>8 DEF LatencyInv
<1> QED
  BY <1>8, <1>9

\* release() of any hold, or of none: what a process inherited it leaves alone.
LEMMA ReleaseKeeps ==
  ASSUME NEW A, NEW k, NEW H, LatencyInv(A, k, H), NEW p \in Procs, NEW h \in Holders,
         NEW written \in BOOLEAN
  PROVE  LatencyInv(A, Released(k, p, H[p][h], written), [H EXCEPT ![p][h] = NoHold])
<1> DEFINE x == H[p][h]
           G == [H EXCEPT ![p][h] = NoHold]
<1>1. k \in Kernels /\ H \in HoldTables /\ x \in {NoHold} \cup SomeHolds
  BY DEF LatencyInv, HoldTables
<1>2. CASE Owns(H, p, h)
  BY <1>2, ReleaseOwned
<1>3. CASE ~Owns(H, p, h)
  <2>1. Released(k, p, x, written) = k
    <3>1. x = NoHold => x.kind = "none"
      BY DEF NoHold
    <3>2. x # NoHold => x.owner # p
      BY <1>1, <1>3 DEF Owns
    <3> QED
      BY <3>1, <3>2 DEF Released
  <2>2. G \in HoldTables /\ G[p][h] = NoHold
    BY <1>1 DEF HoldTables
  <2>3. \A q \in Procs : \A g \in Holders : (q = p /\ g = h) \/ G[q][g] = H[q][g]
    BY <1>1 DEF HoldTables
  <2>4. \A q \in Procs : \A g \in Holders : Owns(G, q, g) => Owns(H, q, g) /\ G[q][g] = H[q][g]
    BY <2>2, <2>3, HoldKinds DEF Owns
  <2>5. Kept(k, G)
    BY <2>4 DEF LatencyInv, Kept
  <2>6. Inherited(A, G)
    BY <2>2, <2>3 DEF LatencyInv, Inherited
  <2>7. Requested(k, G)
    <3> SUFFICES ASSUME NEW f \in Fds, Parent \in k.refs[f]
                 PROVE  \E g \in Holders : G[Parent][g].kind = "all" /\ G[Parent][g].fd = f
      BY DEF Requested
    <3>1. PICK g \in Holders : H[Parent][g].kind = "all" /\ H[Parent][g].fd = f
      BY DEF LatencyInv, Requested
    <3>2. H[Parent][g] # NoHold /\ H[Parent][g] \in {NoHold} \cup SomeHolds
      BY <1>1, <3>1 DEF NoHold, HoldTables, Procs
    <3>3. Owns(H, Parent, g)
      BY <3>2, ProcessesDiffer DEF LatencyInv, Inherited, Owns, Procs
    <3> QED
      BY <1>3, <2>3, <3>1, <3>3 DEF Procs
  <2> QED
    BY <2>1, <2>2, <2>5, <2>6, <2>7 DEF LatencyInv
<1> QED
  BY <1>2, <1>3

\* A hold acquired: it is in force and apart from those there were.
LEMMA AcquiredIsNew ==
  ASSUME NEW A, NEW k, NEW H, LatencyInv(A, k, H), NEW p \in Procs, p \in A,
         NEW h \in Holders, H[p][h] = NoHold, NEW j, j \in Kernels, WellNested(j),
         NEW x \in SomeHolds, x.owner = p, InForce(j, x),
         \A y \in SomeHolds : InForce(k, y) => InForce(j, y) /\ (y.owner = p => Apart(x, y)),
         \A f \in Fds : Parent \in j.refs[f] =>
           Parent \in k.refs[f] \/ (p = Parent /\ x.kind = "all" /\ x.fd = f)
  PROVE  LatencyInv(A, j, [H EXCEPT ![p][h] = x])
<1> DEFINE G == [H EXCEPT ![p][h] = x]
<1>1. k \in Kernels /\ H \in HoldTables
  BY DEF LatencyInv
<1>2. G \in HoldTables /\ G[p][h] = x
  BY <1>1 DEF HoldTables
<1>3. \A q \in Procs : \A g \in Holders : (q = p /\ g = h) \/ G[q][g] = H[q][g]
  BY <1>1 DEF HoldTables
<1>4. \A q \in Procs : \A g \in Holders : Owns(G, q, g) =>
        \/ q = p /\ g = h
        \/ Owns(H, q, g) /\ G[q][g] = H[q][g]
  BY <1>3 DEF Owns
<1> HIDE DEF G
<1>5. \A q \in Procs : \A g \in Holders : Owns(H, q, g) =>
        InForce(k, H[q][g]) /\ H[q][g] \in SomeHolds /\ H[q][g].owner = q
  BY DEF LatencyInv, Kept, Owns
<1>6. Kept(j, G)
  <2> SUFFICES ASSUME NEW q \in Procs, NEW g \in Holders, Owns(G, q, g)
               PROVE  /\ InForce(j, G[q][g])
                      /\ \A e \in Holders : e # g /\ Owns(G, q, e) => Apart(G[q][g], G[q][e])
    BY DEF Kept
  <2>1. CASE q = p /\ g = h
    <3> SUFFICES ASSUME NEW e \in Holders, e # g, Owns(G, q, e) PROVE Apart(x, G[q][e])
      BY <1>2, <1>5, <1>2, <2>1
    <3>1. Owns(H, p, e) /\ G[q][e] = H[p][e]
      BY <1>4, <2>1
    <3>2. H[p][e] \in SomeHolds /\ InForce(k, H[p][e]) /\ H[p][e].owner = p
      BY <1>5, <3>1
    <3> QED
      BY <3>1, <3>2
  <2>2. CASE ~(q = p /\ g = h)
    <3>1. Owns(H, q, g) /\ G[q][g] = H[q][g]
      BY <1>4, <2>2
    <3> SUFFICES ASSUME NEW e \in Holders, e # g, Owns(G, q, e)
                 PROVE  Apart(H[q][g], G[q][e])
      BY <1>5, <3>1
    <3>2. CASE q = p /\ e = h
      <4>1. Apart(x, H[q][g])
        BY <1>5, <3>1, <3>2
      <4> QED
        BY <1>2, <3>2, <4>1 DEF Apart
    <3>3. CASE ~(q = p /\ e = h)
      BY <1>4, <3>1, <3>3 DEF LatencyInv, Kept
    <3> QED
      BY <3>2, <3>3
  <2> QED
    BY <2>1, <2>2
<1>7. Inherited(A, G)
  BY <1>2, <1>3 DEF LatencyInv, Inherited
<1>8. Requested(j, G)
  <2> SUFFICES ASSUME NEW f \in Fds, Parent \in j.refs[f]
               PROVE  \E g \in Holders : G[Parent][g].kind = "all" /\ G[Parent][g].fd = f
    BY DEF Requested
  <2>1. CASE Parent \in k.refs[f]
    <3>1. PICK g \in Holders : H[Parent][g].kind = "all" /\ H[Parent][g].fd = f
      BY <2>1 DEF LatencyInv, Requested
    <3>2. H[Parent][g] # NoHold
      BY <3>1 DEF NoHold
    <3> QED
      BY <1>3, <3>1, <3>2 DEF Procs
  <2>2. CASE Parent \notin k.refs[f]
    BY <1>2, <2>2
  <2> QED
    BY <2>1, <2>2
<1> QED
  BY <1>2, <1>6, <1>7, <1>8 DEF LatencyInv, G

LEMMA AcquireKeeps ==
  ASSUME NEW A, NEW k, NEW H, LatencyInv(A, k, H), NEW p \in Procs, p \in A,
         NEW h \in Holders, H[p][h] = NoHold, NEW us \in Nat, NEW c \in Cpus \cup {-1},
         NEW a \in Acquired(k, p, us, c)
  PROVE  /\ LatencyInv(A, a[2], [H EXCEPT ![p][h] = a[1]])
         /\ a[1] # NoHold => /\ a[1] \in SomeHolds /\ a[1].owner = p /\ a[1].us = us
                             /\ IF a[1].kind = "cpu" THEN a[1].cpu = c ELSE c = -1
<1>1. k \in Kernels /\ H \in HoldTables /\ WellNested(k)
  BY DEF LatencyInv
<1>2. CASE a = <<NoHold, k>>
  <2>1. [H EXCEPT ![p][h] = NoHold] = H
    BY <1>1 DEF HoldTables
  <2> QED
    BY <1>2, <2>1
<1>3. CASE c = -1 /\ a # <<NoHold, k>>
  <2>1. PICK f \in FreeFds(k) : a = AcquiredAll(k, p, us, f)
    BY <1>3 DEF Acquired
  <2> DEFINE x == [kind |-> "all", owner |-> p, fd |-> f, us |-> us]
             j == [k EXCEPT !.refs[f] = {p}]
  <2>2. a[1] = x /\ a[2] = j
    BY <2>1 DEF AcquiredAll
  <2>3. f \in Fds /\ k.refs[f] = {}
    BY DEF FreeFds
  <2>4. x \in AllHolds /\ x \in SomeHolds /\ x.kind = "all" /\ x.owner = p /\ x.fd = f /\ x.us = us
    BY <2>3 DEF AllHolds, SomeHolds
  <2>5. /\ j.refs = [k.refs EXCEPT ![f] = {p}] /\ j.limit = k.limit /\ j.nest = k.nest
        /\ j.crossed = k.crossed /\ j \in Kernels
    BY <1>1, <2>3 DEF Kernels
  <2>6. WellNested(j)
    BY <1>1, <2>5 DEF WellNested
  <2>7. InForce(j, x)
    BY <1>1, <2>3, <2>4, <2>5 DEF InForce, Kernels
  <2>8. ASSUME NEW y \in SomeHolds, InForce(k, y)
        PROVE  InForce(j, y) /\ (y.owner = p => Apart(x, y))
    <3>1. CASE y.kind = "cpu"
      BY <2>4, <2>5, <2>8, <3>1 DEF InForce, Apart
    <3>2. CASE y.kind # "cpu"
      <4>1. y.fd \in Fds /\ y.owner \in k.refs[y.fd]
        BY <2>8, <3>2, HoldKinds DEF SomeHolds, AllHolds, InForce
      <4>2. y.fd # f
        BY <2>3, <4>1
      <4>3. j.refs[y.fd] = k.refs[y.fd]
        BY <1>1, <2>3, <2>5, <4>1, <4>2 DEF Kernels
      <4> QED
        BY <2>4, <3>2, <4>1, <4>2, <4>3 DEF InForce, Apart
    <3> QED
      BY <3>1, <3>2
  <2>9. \A e \in Fds : Parent \in j.refs[e] =>
          Parent \in k.refs[e] \/ (p = Parent /\ x.kind = "all" /\ x.fd = e)
    BY <1>1, <2>3, <2>4, <2>5 DEF Kernels
  <2> HIDE DEF x, j
  <2>10. LatencyInv(A, j, [H EXCEPT ![p][h] = x])
    <3>1. j \in Kernels
      BY <2>5
    <3>2. x \in SomeHolds /\ x.owner = p
      BY <2>4
    <3> QED
      BY <2>6, <2>7, <2>8, <2>9, <3>1, <3>2, AcquiredIsNew
  <2> QED
    BY <1>3, <2>2, <2>4, <2>10
<1>4. CASE c # -1 /\ a # <<NoHold, k>>
  <2>0. c \in Cpus
    BY <1>4
  <2>1. PICK n \in NextLevels(k.nest[c]) : a = AcquiredCpu(k, p, us, c, n)
    BY <1>4 DEF Acquired
  <2> DEFINE x == CpuHold(k, p, us, c, n)
             j == [k EXCEPT !.limit[c] = us, !.nest[c] = @ \cup {x}]
  <2>2. a[1] = x /\ a[2] = j
    BY <2>1 DEF AcquiredCpu
  <2>3. n \in 1..Depth /\ k.nest[c] \in SUBSET CpuHolds /\ k.limit[c] \in Nat \cup {NoLimit}
        /\ k.crossed[c] \in BOOLEAN
    BY <1>1, <2>0 DEF NextLevels, Kernels
  <2>4. /\ x \in CpuHolds /\ x \in SomeHolds /\ x.kind = "cpu" /\ x.owner = p /\ x.cpu = c
        /\ x.us = us /\ x.restore = k.limit[c] /\ x.level = n
    BY <2>0, <2>3 DEF CpuHold, CpuHolds, SomeHolds
  <2>b. j = [k EXCEPT !.limit[c] = us, !.nest[c] = @ \cup {x}]
    OBVIOUS
  <2> HIDE DEF x, j
  <2>5. /\ j.refs = k.refs /\ j.limit = [k.limit EXCEPT ![c] = us]
        /\ j.nest = [k.nest EXCEPT ![c] = @ \cup {x}] /\ j.crossed = k.crossed /\ j \in Kernels
    <3>1. /\ j.refs = k.refs /\ j.limit = [k.limit EXCEPT ![c] = us]
          /\ j.nest = [k.nest EXCEPT ![c] = @ \cup {x}] /\ j.crossed = k.crossed
      BY <1>1, <2>0, <2>b DEF Kernels
    <3>2. j.limit \in [Cpus -> Nat \cup {NoLimit}] /\ j.nest \in [Cpus -> SUBSET CpuHolds]
      BY <1>1, <2>0, <2>3, <2>4, <3>1 DEF Kernels
    <3>3. j = [limit |-> j.limit, refs |-> k.refs, nest |-> j.nest, crossed |-> k.crossed]
      BY <1>1, <2>0, <2>b DEF Kernels
    <3> QED
      BY <1>1, <3>1, <3>2, <3>3 DEF Kernels
  <2>6. NestOn(c, k.nest[c] \cup {x}, k.crossed[c], us) /\ x \notin k.nest[c]
    <3>1. NestOn(c, k.nest[c], k.crossed[c], k.limit[c])
      BY <1>1, <2>0 DEF WellNested
    <3>2. x.level \in NextLevels(k.nest[c])
      BY <2>1, <2>4
    <3>3. NestOn(c, k.nest[c] \cup {x}, k.crossed[c], x.us) /\ x \notin k.nest[c]
      <4> DEFINE S == k.nest[c]
                 b == k.crossed[c]
                 lim == k.limit[c]
      <4>1. /\ S \in SUBSET CpuHolds /\ b \in BOOLEAN /\ lim \in Nat \cup {NoLimit}
            /\ NestOn(c, S, b, lim) /\ x.restore = lim /\ x.level \in NextLevels(S)
        BY <2>3, <2>4, <3>1, <3>2
      <4> HIDE DEF S, b, lim
      <4>2. x \in CpuHolds /\ x.cpu = c
        BY <2>4
      <4>3. NestOn(c, S \cup {x}, b, x.us) /\ x \notin S
        BY ONLY <2>0, <4>1, <4>2, NestGrows, Zenon
      <4> QED
        BY <4>3 DEF S, b
    <3> QED
      BY <2>4, <3>3
  <2>7. WellNested(j)
    <3> SUFFICES ASSUME NEW d \in Cpus PROVE NestOn(d, j.nest[d], j.crossed[d], j.limit[d])
      BY DEF WellNested
    <3>1. CASE d # c
      BY <1>1, <2>0, <2>5, <3>1 DEF Kernels, WellNested
    <3>2. CASE d = c
      BY <1>1, <2>0, <2>5, <2>6, <3>2 DEF Kernels
    <3> QED
      BY <3>1, <3>2
  <2>8. InForce(j, x)
    BY <1>1, <2>0, <2>4, <2>5 DEF InForce, Kernels
  <2>9. ASSUME NEW y \in SomeHolds, InForce(k, y)
        PROVE  InForce(j, y) /\ (y.owner = p => Apart(x, y))
    <3>1. CASE y.kind = "cpu"
      <4>1. y.cpu \in Cpus /\ y \in k.nest[y.cpu]
        BY <2>9, <3>1, HoldKinds DEF SomeHolds, CpuHolds, InForce
      <4>2. y # x
        BY <2>4, <2>6, <4>1
      <4> QED
        BY <1>1, <2>0, <2>4, <2>5, <3>1, <4>1, <4>2 DEF InForce, Apart, Kernels
    <3>2. CASE y.kind # "cpu"
      BY <2>4, <2>5, <2>9, <3>2 DEF InForce, Apart
    <3> QED
      BY <3>1, <3>2
  <2>10. LatencyInv(A, j, [H EXCEPT ![p][h] = x])
    BY <2>4, <2>5, <2>7, <2>8, <2>9, AcquiredIsNew
  <2> QED
    BY <1>4, <2>2, <2>4, <2>10
<1> QED
  BY <1>2, <1>3, <1>4

\* A hold moved to an empty holder.
LEMMA MoveKeeps ==
  ASSUME NEW A, NEW k, NEW H, LatencyInv(A, k, H), NEW p \in Procs,
         NEW h \in Holders, NEW g \in Holders, h # g, H[p][h] = NoHold
  PROVE  LatencyInv(A, k, [H EXCEPT ![p][h] = H[p][g], ![p][g] = NoHold])
<1> DEFINE G == [H EXCEPT ![p][h] = H[p][g], ![p][g] = NoHold]
           From(e) == IF e = h THEN g ELSE e
<1>1. k \in Kernels /\ H \in HoldTables
  BY DEF LatencyInv
<1>2. G \in HoldTables /\ G[p][g] = NoHold
  BY <1>1 DEF HoldTables
<1>3. /\ \A q \in Procs : q # p => G[q] = H[q]
      /\ \A e \in Holders : e # g => G[p][e] = H[p][From(e)]
  BY <1>1 DEF HoldTables
<1>4. \A e \in Holders : From(e) \in Holders
  OBVIOUS
<1>5. \A e \in Holders : \A d \in Holders : e # g /\ d # g /\ e # d => From(e) # From(d)
  OBVIOUS
<1>6. \A q \in Procs : \A e \in Holders : Owns(G, q, e) =>
        \/ q # p /\ Owns(H, q, e) /\ G[q][e] = H[q][e]
        \/ q = p /\ e # g /\ Owns(H, q, From(e)) /\ G[q][e] = H[q][From(e)]
  BY <1>2, <1>3, HoldKinds DEF Owns
<1> HIDE DEF From, G
<1>7. Kept(k, G)
  <2> SUFFICES ASSUME NEW q \in Procs, NEW e \in Holders, Owns(G, q, e)
               PROVE  /\ InForce(k, G[q][e])
                      /\ \A d \in Holders : d # e /\ Owns(G, q, d) => Apart(G[q][e], G[q][d])
    BY DEF Kept
  <2>1. CASE q # p
    BY <1>6, <2>1 DEF LatencyInv, Kept
  <2>2. CASE q = p
    BY <1>4, <1>5, <1>6, <2>2 DEF LatencyInv, Kept
  <2> QED
    BY <2>1, <2>2
<1>8. Inherited(A, G)
  BY <1>2, <1>3, <1>4 DEF LatencyInv, Inherited
<1>9. Requested(k, G)
  <2> SUFFICES ASSUME NEW f \in Fds, Parent \in k.refs[f]
               PROVE  \E e \in Holders : G[Parent][e].kind = "all" /\ G[Parent][e].fd = f
    BY DEF Requested
  <2>1. PICK e \in Holders : H[Parent][e].kind = "all" /\ H[Parent][e].fd = f
    BY DEF LatencyInv, Requested
  <2>2. H[Parent][e] # NoHold
    BY <2>1 DEF NoHold
  <2>3. Parent \in Procs /\ From(h) = g
    BY DEF Procs, From
  <2>4. e # h /\ e # g => From(e) = e
    BY DEF From
  <2> QED
    BY <1>3, <2>1, <2>2, <2>3, <2>4
<1> QED
  BY <1>1, <1>2, <1>7, <1>8, <1>9 DEF LatencyInv, G

\* The death of p: nobody else's hold is touched.
NoHolds == [h \in Holders |-> NoHold]
LEMMA DeathKeeps ==
  ASSUME NEW A, NEW k, NEW H, LatencyInv(A, k, H), NEW p \in Procs, NEW j, j \in Kernels,
         WellNested(j), \A f \in Fds : j.refs[f] = k.refs[f] \ {p},
         \A c \in Cpus : \A x \in k.nest[c] : x.owner # p => x \in j.nest[c]
  PROVE  LatencyInv(A \ {p}, j, [H EXCEPT ![p] = NoHolds])
<1> DEFINE G == [H EXCEPT ![p] = NoHolds]
<1>1. k \in Kernels /\ H \in HoldTables
  BY DEF LatencyInv
<1>2. G \in HoldTables /\ \A h \in Holders : G[p][h] = NoHold
  BY <1>1 DEF HoldTables, NoHolds
<1>3. \A q \in Procs : q # p => G[q] = H[q]
  BY <1>1 DEF HoldTables
<1> HIDE DEF G
<1>4. \A q \in Procs : \A h \in Holders : Owns(G, q, h) =>
        q # p /\ Owns(H, q, h) /\ G[q][h] = H[q][h]
  BY <1>2, <1>3, HoldKinds DEF Owns
<1>5. ASSUME NEW x \in SomeHolds, InForce(k, x), x.owner # p PROVE InForce(j, x)
  <2>1. CASE x.kind = "cpu"
    <3>1. x.cpu \in Cpus
      BY <2>1, HoldKinds DEF SomeHolds, CpuHolds
    <3> QED
      BY <1>5, <2>1, <3>1 DEF InForce
  <2>2. CASE x.kind # "cpu"
    <3>1. x.fd \in Fds
      BY <2>2, HoldKinds DEF SomeHolds, AllHolds
    <3> QED
      BY <1>5, <2>2, <3>1 DEF InForce
  <2> QED
    BY <2>1, <2>2
<1>6. Kept(j, G)
  <2> SUFFICES ASSUME NEW q \in Procs, NEW h \in Holders, Owns(G, q, h)
               PROVE  /\ InForce(j, G[q][h])
                      /\ \A g \in Holders : g # h /\ Owns(G, q, g) => Apart(G[q][h], G[q][g])
    BY DEF Kept
  <2>1. /\ q # p /\ Owns(H, q, h) /\ G[q][h] = H[q][h] /\ InForce(k, H[q][h])
        /\ H[q][h] \in SomeHolds /\ H[q][h].owner = q
    BY <1>4 DEF LatencyInv, Kept, Owns
  <2> QED
    BY <1>4, <1>5, <2>1 DEF LatencyInv, Kept
<1>7. Inherited(A \ {p}, G)
  BY <1>2, <1>3 DEF LatencyInv, Inherited
<1>8. Requested(j, G)
  <2>1. \A f \in Fds : Parent \in j.refs[f] => p # Parent /\ Parent \in k.refs[f]
    OBVIOUS
  <2> QED
    BY <1>3, <2>1 DEF LatencyInv, Requested, Procs
<1> QED
  BY <1>2, <1>6, <1>7, <1>8 DEF LatencyInv, G

\* The holds that a process does not undo cross those of its CPUs.
LEMMA AbandonedNests ==
  ASSUME NEW k, k \in Kernels, WellNested(k), NEW p \in Procs
  PROVE  LET j == Abandoned(k, p)
         IN  /\ j \in Kernels /\ WellNested(j) /\ j.refs = k.refs
             /\ \A c \in Cpus : \A x \in k.nest[c] : x.owner # p => x \in j.nest[c]
<1> DEFINE B == [c \in Cpus |-> k.crossed[c] \/ \E x \in k.nest[c] : x.owner = p]
           N == [c \in Cpus |-> {x \in k.nest[c] : x.owner # p}]
           j == Abandoned(k, p)
<1>1. B \in [Cpus -> BOOLEAN]
  BY DEF Kernels
<1>2. N \in [Cpus -> SUBSET CpuHolds]
  BY DEF Kernels
<1>3. j = [k EXCEPT !.crossed = B, !.nest = N]
  BY DEF Abandoned
<1> HIDE DEF j
<1>4. j = [limit |-> k.limit, refs |-> k.refs, nest |-> N, crossed |-> B]
  <2> HIDE DEF N, B
  <2> QED
    BY <1>3 DEF Kernels
<1>5. j \in Kernels
  <2> HIDE DEF N, B
  <2> QED
    BY <1>1, <1>2, <1>4 DEF Kernels
<1>6. j.limit = k.limit /\ j.refs = k.refs /\ j.nest = N /\ j.crossed = B
  <2> HIDE DEF N, B
  <2> QED
    BY <1>4
<1>7. ASSUME NEW c \in Cpus PROVE NestOn(c, N[c], B[c], k.limit[c])
  <2>0. NestOn(c, k.nest[c], k.crossed[c], k.limit[c])
    BY DEF WellNested
  <2>1. CASE \E x \in k.nest[c] : x.owner = p
    <3>1. B[c] = TRUE /\ N[c] \subseteq k.nest[c]
      BY <2>1
    <3> HIDE DEF B, N
    <3> QED
      BY <2>0, <3>1 DEF NestOn
  <2>2. CASE ~\E x \in k.nest[c] : x.owner = p
    <3>1. N[c] = k.nest[c]
      BY <2>2
    <3>2. B[c] = (k.crossed[c] \/ FALSE)
      BY <2>2
    <3>3. B[c] = k.crossed[c]
      BY <3>2 DEF Kernels
    <3> HIDE DEF B, N
    <3> QED
      BY <2>0, <3>1, <3>3
  <2> QED
    BY <2>1, <2>2
<1>8. WellNested(j)
  <2> HIDE DEF N, B
  <2> QED
    BY <1>6, <1>7 DEF WellNested
<1>9. \A c \in Cpus : \A x \in k.nest[c] : x.owner # p => x \in N[c]
  OBVIOUS
<1> QED
  BY <1>5, <1>6, <1>8, <1>9 DEF j

LEMMA ClosedIs ==
  ASSUME NEW k, k \in Kernels, NEW p \in Procs
  PROVE  LET j == Closed(k, p)
         IN  /\ j \in Kernels /\ j.limit = k.limit /\ j.nest = k.nest /\ j.crossed = k.crossed
             /\ \A f \in Fds : j.refs[f] = k.refs[f] \ {p}
<1> DEFINE R == [f \in Fds |-> k.refs[f] \ {p}]
           j == Closed(k, p)
<1>1. R \in [Fds -> SUBSET Procs] /\ \A f \in Fds : R[f] = k.refs[f] \ {p}
  BY DEF Kernels
<1>2. j = [k EXCEPT !.refs = R]
  BY DEF Closed
<1> HIDE DEF R, j
<1>3. j = [limit |-> k.limit, refs |-> R, nest |-> k.nest, crossed |-> k.crossed]
  BY <1>2 DEF Kernels
<1> QED
  BY <1>1, <1>3 DEF Kernels, j

\* fork(): the child's copies are nobody's.
LEMMA ForkKeeps ==
  ASSUME NEW k, NEW H, LatencyInv({Parent}, k, H), NEW j, j \in Kernels,
         j.limit = k.limit, j.nest = k.nest, j.crossed = k.crossed,
         \A f \in Fds : j.refs[f] = IF Parent \in k.refs[f] THEN Procs ELSE k.refs[f]
  PROVE  LatencyInv(Procs, j, [H EXCEPT ![Child] = H[Parent]])
<1> DEFINE G == [H EXCEPT ![Child] = H[Parent]]
<1>0. Parent \in Procs /\ Child \in Procs /\ Parent # Child
  BY ProcessesDiffer DEF Procs
<1>1. k \in Kernels /\ H \in HoldTables
  BY DEF LatencyInv
<1>2. G \in HoldTables /\ G[Child] = H[Parent] /\ G[Parent] = H[Parent]
  BY <1>0, <1>1 DEF HoldTables
<1> HIDE DEF G
<1>3. \A h \in Holders : H[Parent][h] # NoHold => H[Parent][h].owner = Parent
  BY <1>0 DEF LatencyInv, Inherited
<1>4. \A q \in Procs : \A h \in Holders : Owns(G, q, h) =>
        q = Parent /\ Owns(H, q, h) /\ G[q][h] = H[q][h]
  BY <1>0, <1>2, <1>3, HoldKinds DEF Owns, Procs
<1>5. ASSUME NEW x \in SomeHolds, InForce(k, x) PROVE InForce(j, x)
  <2>1. CASE x.kind = "cpu"
    BY <1>5, <2>1 DEF InForce
  <2>2. CASE x.kind # "cpu"
    <3>1. x.fd \in Fds /\ x.owner \in Procs
      BY <2>2, HoldKinds DEF SomeHolds, AllHolds
    <3> QED
      BY <1>5, <2>2, <3>1 DEF InForce
  <2> QED
    BY <2>1, <2>2
<1>6. Kept(j, G)
  <2> SUFFICES ASSUME NEW q \in Procs, NEW h \in Holders, Owns(G, q, h)
               PROVE  /\ InForce(j, G[q][h])
                      /\ \A g \in Holders : g # h /\ Owns(G, q, g) => Apart(G[q][h], G[q][g])
    BY DEF Kept
  <2>1. Owns(H, q, h) /\ G[q][h] = H[q][h] /\ InForce(k, H[q][h]) /\ H[q][h] \in SomeHolds
    BY <1>4 DEF LatencyInv, Kept, Owns
  <2> QED
    BY <1>4, <1>5, <2>1 DEF LatencyInv, Kept
<1>7. Inherited(Procs, G)
  BY <1>0, <1>2, <1>3 DEF Inherited, Procs
<1>8. Requested(j, G)
  <2>1. \A f \in Fds : Parent \in j.refs[f] => Parent \in k.refs[f]
    OBVIOUS
  <2> QED
    BY <1>2, <2>1 DEF LatencyInv, Requested
<1>9. WellNested(j)
  BY DEF LatencyInv, WellNested
<1> QED
  BY <1>2, <1>6, <1>7, <1>8, <1>9 DEF LatencyInv, G

-----------------------------------------------------------------------------
(* The steps.                                                               *)

LEMMA SetKernelIs == ASSUME NEW k, k \in Kernels, SetKernel(k) PROVE Kernel' = k
<1>1. k = [limit |-> k.limit, refs |-> k.refs, nest |-> k.nest, crossed |-> k.crossed]
  BY DEF Kernels
<1> QED
  BY <1>1 DEF SetKernel, Kernel

LEMMA InitHolds == RtInit => LatencyInv(alive, Kernel, holds) /\ SetupInv
<1> SUFFICES ASSUME RtInit PROVE LatencyInv(alive, Kernel, holds) /\ SetupInv
  OBVIOUS
<1>1. Kernel = [limit |-> [c \in Cpus |-> NoLimit], refs |-> [f \in Fds |-> {}],
                nest |-> [c \in Cpus |-> {}], crossed |-> [c \in Cpus |-> FALSE]]
  BY DEF RtInit, Kernel
<1>2. Kernel \in Kernels
  BY <1>1 DEF Kernels
<1>3. holds \in HoldTables /\ \A p \in Procs : \A h \in Holders : holds[p][h] = NoHold
  BY DEF RtInit, HoldTables
<1>4. WellNested(Kernel)
  BY <1>1 DEF WellNested, NestOn, InForceOn
<1>5. Kept(Kernel, holds)
  BY <1>3, HoldKinds DEF Kept, Owns
<1>6. Inherited(alive, holds)
  BY <1>3 DEF Inherited
<1>7. Requested(Kernel, holds)
  BY <1>1 DEF Requested
<1>8. SetupInv
  BY DEF RtInit, SetupInv
<1> QED
  BY <1>2, <1>3, <1>4, <1>5, <1>6, <1>7, <1>8 DEF LatencyInv

LEMMA AcquireStep ==
  ASSUME LatencyInv(alive, Kernel, holds), NEW p \in Procs, NEW h \in Names, NEW us \in Limits,
         NEW c \in Cpus \cup {-1}, Acquire(p, h, us, c)
  PROVE  LatencyInv(alive, Kernel, holds)'
<1>1. PICK a \in Acquired(Kernel, p, us, c) :
        SetKernel(a[2]) /\ holds' = [holds EXCEPT ![p][h] = a[1]]
  BY DEF Acquire
<1>2. us \in Nat /\ h \in Holders /\ p \in alive /\ holds[p][h] = NoHold /\ alive' = alive
  BY RequestTypes DEF Holders, Acquire
<1>3. LatencyInv(alive, a[2], [holds EXCEPT ![p][h] = a[1]])
  BY <1>2, AcquireKeeps
<1>4. Kernel' = a[2]
  BY <1>1, <1>3, SetKernelIs DEF LatencyInv
<1> QED
  BY <1>1, <1>2, <1>3, <1>4

LEMMA ReleaseStep ==
  ASSUME LatencyInv(alive, Kernel, holds), NEW p \in Procs, NEW h \in Names, Release(p, h)
  PROVE  LatencyInv(alive, Kernel, holds)'
<1>1. h \in Holders
  BY DEF Holders
<1>w. PICK written \in BOOLEAN : SetKernel(Released(Kernel, p, holds[p][h], written))
  BY DEF Release
<1>2. LatencyInv(alive, Released(Kernel, p, holds[p][h], written), [holds EXCEPT ![p][h] = NoHold])
  BY <1>1, ReleaseKeeps
<1>3. Kernel' = Released(Kernel, p, holds[p][h], written)
  BY <1>w, <1>2, SetKernelIs DEF LatencyInv
<1> QED
  BY <1>2, <1>3 DEF Release

LEMMA MoveStep ==
  ASSUME LatencyInv(alive, Kernel, holds), NEW p \in Procs, NEW h \in Names, NEW g \in Names,
         MoveAssign(p, h, g)
  PROVE  LatencyInv(alive, Kernel, holds)'
<1>w. PICK written \in BOOLEAN : SetKernel(Released(Kernel, p, holds[p][h], written))
  BY DEF MoveAssign
<1> DEFINE k == Released(Kernel, p, holds[p][h], written)
           G == [holds EXCEPT ![p][h] = NoHold]
           M == [G EXCEPT ![p][h] = G[p][g], ![p][g] = NoHold]
<1>1. h \in Holders /\ g \in Holders /\ h # g
  BY DEF Holders, MoveAssign
<1>2. LatencyInv(alive, k, G)
  BY <1>1, ReleaseKeeps
<1>3. holds \in HoldTables
  BY DEF LatencyInv
<1>4. G[p][h] = NoHold
  BY <1>1, <1>3 DEF HoldTables
<1>5. M = [holds EXCEPT ![p][h] = holds[p][g], ![p][g] = NoHold]
  BY <1>1, <1>3 DEF HoldTables
<1> HIDE DEF k, G
<1>6. LatencyInv(alive, k, M)
  BY <1>1, <1>2, <1>4, MoveKeeps
<1> HIDE DEF M
<1>7. Kernel' = k
  BY <1>w, <1>6, SetKernelIs DEF LatencyInv, k
<1> QED
  BY <1>5, <1>6, <1>7 DEF MoveAssign

LEMMA SetUpStep ==
  ASSUME RtTypeOK, LatencyInv(alive, Kernel, holds), SetupInv, NEW p \in Procs, NEW cfg \in Configs,
         NEW failed, NEW locked \in BOOLEAN, SetUp(p, cfg, failed, locked)
  PROVE  LatencyInv(alive, Kernel, holds)' /\ SetupInv'
<1> DEFINE k(written) == Released(Kernel, p, holds[p][Setup], written)
           G == [holds EXCEPT ![p][Setup] = NoHold]
<1>1. /\ Setup \in Holders /\ p \in alive /\ alive' = alive /\ holds \in HoldTables
      /\ cfg.cpu \in Cpus \cup {-1} /\ cfg.us \in Nat \cup {-1}
  BY RequestTypes DEF Holders, SetUp, LatencyInv
<1>2. \A written \in BOOLEAN : LatencyInv(alive, k(written), G)
  BY <1>1, ReleaseKeeps
<1>3. G[p][Setup] = NoHold
  BY <1>1 DEF HoldTables
<1>4. CASE cfg.us >= 0 /\ (failed = "hold" \/ Reached(failed, "hold"))
  <2>0. PICK written \in BOOLEAN :
          \E a \in Acquired(k(written), p, cfg.us, cfg.cpu) :
            /\ (a[1] = NoHold) <=> (failed = "hold")
            /\ SetKernel(a[2])
            /\ holds' = [holds EXCEPT ![p][Setup] = a[1]]
    BY <1>4 DEF SetUp
  <2>1. PICK a \in Acquired(k(written), p, cfg.us, cfg.cpu) :
          /\ (a[1] = NoHold) <=> (failed = "hold")
          /\ SetKernel(a[2])
          /\ holds' = [holds EXCEPT ![p][Setup] = a[1]]
    BY <2>0
  <2>2. cfg.us \in Nat
    BY <1>1, <1>4
  <2> DEFINE M == [G EXCEPT ![p][Setup] = a[1]]
  <2>3. M = [holds EXCEPT ![p][Setup] = a[1]]
    BY <1>1 DEF HoldTables
  <2>4. M[p][Setup] = a[1]
    BY <1>1 DEF HoldTables
  <2> HIDE DEF k, G
  <2>5. /\ LatencyInv(alive, a[2], M)
        /\ a[1] # NoHold => /\ a[1] \in SomeHolds /\ a[1].owner = p /\ a[1].us = cfg.us
                            /\ IF a[1].kind = "cpu" THEN a[1].cpu = cfg.cpu ELSE cfg.cpu = -1
    BY <1>1, <1>2, <1>3, <2>2, AcquireKeeps
  <2> HIDE DEF M
  <2>6. Kernel' = a[2]
    BY <2>1, <2>5, SetKernelIs DEF LatencyInv
  <2>7. LatencyInv(alive, Kernel, holds)'
    BY <1>1, <2>1, <2>3, <2>5, <2>6
  <2>8. SetupInv'
    <3>1. CASE failed = "none"
      <4>1. rt' = [by |-> p, cfg |-> cfg, locked |-> locked]
        BY <3>1 DEF SetUp
      <4>2. rt'.by = p /\ rt'.cfg = cfg
        BY <4>1
      <4>3. holds'[p][Setup] = a[1] /\ a[1] # NoHold
        BY <2>1, <2>3, <2>4, <3>1
      <4> QED
        BY <1>1, <2>5, <4>2, <4>3 DEF SetupInv, Owns
    <3>2. CASE failed # "none"
      BY <3>2 DEF SetUp, SetupInv
    <3> QED
      BY <3>1, <3>2
  <2> QED
    BY <2>7, <2>8
<1>5. CASE ~(cfg.us >= 0 /\ (failed = "hold" \/ Reached(failed, "hold")))
  <2>1. UNCHANGED <<limit, refs, nest, crossed, holds>>
    BY <1>5 DEF SetUp
  <2>2. LatencyInv(alive, Kernel, holds)'
    BY <1>1, <2>1 DEF Kernel
  <2>3. SetupInv'
    <3>1. CASE failed = "none"
      <4>1. rt' = [by |-> p, cfg |-> cfg, locked |-> locked]
        BY <3>1 DEF SetUp
      <4>2. rt'.by = p /\ rt'.cfg = cfg /\ ~(cfg.us >= 0)
        BY <1>5, <3>1, <4>1 DEF Reached
      <4> QED
        BY <1>1, <4>2 DEF SetupInv
    <3>2. CASE failed # "none"
      BY <3>2 DEF SetUp, SetupInv
    <3> QED
      BY <3>1, <3>2
  <2> QED
    BY <2>2, <2>3
<1> QED
  BY <1>4, <1>5

LEMMA ForkStep ==
  ASSUME LatencyInv(alive, Kernel, holds), Fork
  PROVE  LatencyInv(alive, Kernel, holds)'
<1>1. /\ alive = {Parent} /\ alive' = Procs /\ Kernel \in Kernels
      /\ Kernel.limit = limit /\ Kernel.nest = nest /\ Kernel.crossed = crossed
      /\ Kernel.refs = refs
  BY DEF Fork, LatencyInv, Kernel
<1>2. refs \in [Fds -> SUBSET Procs]
  BY <1>1 DEF Kernels
<1>3. refs' \in [Fds -> SUBSET Procs]
  BY <1>2 DEF Fork
<1>4. /\ Kernel'.limit = limit /\ Kernel'.nest = nest /\ Kernel'.crossed = crossed
      /\ Kernel'.refs = refs'
  BY DEF Fork, Kernel
<1>5. Kernel' \in Kernels
  BY <1>1, <1>3 DEF Fork, Kernel, Kernels
<1>6. \A f \in Fds : Kernel'.refs[f] = IF Parent \in Kernel.refs[f] THEN Procs ELSE Kernel.refs[f]
  BY <1>1, <1>4 DEF Fork
<1>7. LatencyInv(Procs, Kernel', [holds EXCEPT ![Child] = holds[Parent]])
  BY <1>1, <1>4, <1>5, <1>6, ForkKeeps
<1> QED
  BY <1>1, <1>7 DEF Fork

LEMMA ExitStep ==
  ASSUME LatencyInv(alive, Kernel, holds), NEW p \in Procs, Exit(p)
  PROVE  LatencyInv(alive, Kernel, holds)'
<1>w. PICK written \in BOOLEAN :
        SetKernel(Closed(Released(Kernel, p, holds[p][Setup], written), p))
  BY DEF Exit
<1> DEFINE k == Released(Kernel, p, holds[p][Setup], written)
           G == [holds EXCEPT ![p][Setup] = NoHold]
<1>1. LatencyInv(alive, k, G)
  BY ReleaseKeeps DEF Holders
<1>2. [holds EXCEPT ![p] = NoHolds] = [G EXCEPT ![p] = NoHolds]
  BY DEF LatencyInv, HoldTables
<1>3. k \in Kernels /\ WellNested(k)
  BY <1>1 DEF LatencyInv
<1> HIDE DEF k, G
<1> DEFINE j == Closed(k, p)
<1>4. /\ j \in Kernels /\ j.limit = k.limit /\ j.nest = k.nest /\ j.crossed = k.crossed
      /\ \A f \in Fds : j.refs[f] = k.refs[f] \ {p}
  BY <1>3, ClosedIs
<1>5. Kernel' = j
  BY <1>w, <1>4, SetKernelIs DEF k
<1> HIDE DEF j
<1>6. WellNested(j)
  BY <1>3, <1>4 DEF WellNested
<1>7. LatencyInv(alive \ {p}, j, [G EXCEPT ![p] = NoHolds])
  BY <1>1, <1>4, <1>6, DeathKeeps
<1> QED
  BY <1>2, <1>5, <1>7 DEF Exit, NoHolds

LEMMA KillStep ==
  ASSUME LatencyInv(alive, Kernel, holds), NEW p \in Procs, Kill(p)
  PROVE  LatencyInv(alive, Kernel, holds)'
<1> DEFINE k == Abandoned(Kernel, p)
           j == Closed(k, p)
<1>1. Kernel \in Kernels /\ WellNested(Kernel)
  BY DEF LatencyInv
<1>2. /\ k \in Kernels /\ WellNested(k) /\ k.refs = Kernel.refs
      /\ \A c \in Cpus : \A x \in Kernel.nest[c] : x.owner # p => x \in k.nest[c]
  BY <1>1, AbandonedNests
<1> HIDE DEF k
<1>4. /\ j \in Kernels /\ j.limit = k.limit /\ j.nest = k.nest /\ j.crossed = k.crossed
      /\ \A f \in Fds : j.refs[f] = k.refs[f] \ {p}
  BY <1>2, ClosedIs
<1>5. Kernel' = j
  BY <1>4, SetKernelIs DEF Kill, k
<1> HIDE DEF j
<1>6. WellNested(j)
  BY <1>2, <1>4 DEF WellNested
<1>7. LatencyInv(alive \ {p}, j, [holds EXCEPT ![p] = NoHolds])
  BY <1>2, <1>4, <1>6, DeathKeeps
<1> QED
  BY <1>5, <1>7 DEF Kill, NoHolds

LEMMA SleepSteps ==
  BeginSleep \/ Wake \/ Spin \/ EndSleep =>
    UNCHANGED <<alive, limit, refs, holds, nest, crossed, rt>>
  BY DEF BeginSleep, Wake, Spin, EndSleep

LEMMA StepHolds ==
  RtTypeOK /\ LatencyInv(alive, Kernel, holds) /\ SetupInv /\ [RtNext]_rtVars
    => LatencyInv(alive, Kernel, holds)'
<1> SUFFICES ASSUME RtTypeOK, LatencyInv(alive, Kernel, holds), SetupInv, [RtNext]_rtVars
             PROVE  LatencyInv(alive, Kernel, holds)'
  OBVIOUS
<1>1. CASE UNCHANGED <<alive, limit, refs, holds, nest, crossed, rt>>
  BY <1>1 DEF Kernel
<1>2. CASE Fork
  BY <1>2, ForkStep
<1>3. CASE \E p \in Procs : HoldStep(p)
  <2>1. PICK p \in Procs : HoldStep(p)
    BY <1>3
  <2>2. CASE \E h \in Names : \E us \in Limits : \E c \in Cpus \cup {-1} : Acquire(p, h, us, c)
    BY <2>2, AcquireStep
  <2>3. CASE \E h \in Names : Release(p, h)
    BY <2>3, ReleaseStep
  <2>4. CASE \E h \in Names : \E g \in Names : MoveAssign(p, h, g)
    BY <2>4, MoveStep
  <2>5. CASE \E cfg \in Configs : \E failed \in {"none"} \cup ToSet(Steps) :
               \E locked \in BOOLEAN : SetUp(p, cfg, failed, locked)
    BY <2>5, SetUpStep
  <2>6. CASE Exit(p)
    BY <2>6, ExitStep
  <2>7. CASE Kill(p)
    BY <2>7, KillStep
  <2> QED
    BY <2>1, <2>2, <2>3, <2>4, <2>5, <2>6, <2>7 DEF HoldStep
<1> QED
  BY <1>1, <1>2, <1>3, SleepSteps DEF RtNext, rtVars

LEMMA StepSetup ==
  RtTypeOK /\ LatencyInv(alive, Kernel, holds) /\ SetupInv /\ [RtNext]_rtVars => SetupInv'
<1> SUFFICES ASSUME RtTypeOK, LatencyInv(alive, Kernel, holds), SetupInv, [RtNext]_rtVars
             PROVE  SetupInv'
  OBVIOUS
<1>0. holds \in HoldTables /\ Setup \in Holders /\ \A h \in Names : h \in Holders /\ h # Setup
  BY SetupHoldIsPrivate DEF LatencyInv, Holders
<1>a. ASSUME rt' = rt, rt = NotSetUp \/ rt.by \in alive',
             rt = NotSetUp \/ holds'[rt.by][Setup] = holds[rt.by][Setup]
      PROVE  SetupInv'
  BY <1>a DEF SetupInv, Owns
<1>b. rt # NotSetUp => rt.by \in Procs
  BY DEF RtTypeOK
<1>1. CASE UNCHANGED <<alive, limit, refs, holds, nest, crossed, rt>>
  BY <1>1 DEF SetupInv, Owns
<1>2. CASE Fork
  <2>1. rt = NotSetUp \/ rt.by = Parent
    BY <1>2 DEF SetupInv, Fork
  <2>2. holds'[Parent] = holds[Parent] /\ Parent \in alive' /\ rt' = rt
    BY <1>0, <1>2, ProcessesDiffer DEF Fork, HoldTables, Procs
  <2> QED
    BY <1>a, <2>1, <2>2
<1>3. CASE \E p \in Procs : HoldStep(p)
  <2>1. PICK p \in Procs : HoldStep(p)
    BY <1>3
  <2>2. ASSUME NEW h \in Names, \/ \E us \in Limits : \E c \in Cpus \cup {-1} : Acquire(p, h, us, c)
                                \/ Release(p, h)
                                \/ \E g \in Names : MoveAssign(p, h, g)
        PROVE  SetupInv'
    <3>1. rt' = rt /\ alive' = alive
      BY <2>2 DEF Acquire, Release, MoveAssign
    <3>2. \A q \in Procs : holds'[q][Setup] = holds[q][Setup]
      <4>1. \/ \E x : holds' = [holds EXCEPT ![p][h] = x]
            \/ \E g \in Names : holds' = [holds EXCEPT ![p][h] = holds[p][g], ![p][g] = NoHold]
        BY <2>2 DEF Acquire, Release, MoveAssign
      <4>2. ASSUME NEW x, holds' = [holds EXCEPT ![p][h] = x]
            PROVE  \A q \in Procs : holds'[q][Setup] = holds[q][Setup]
        BY <1>0, <4>2 DEF HoldTables
      <4>3. ASSUME NEW g \in Names, NEW x, holds' = [holds EXCEPT ![p][h] = x, ![p][g] = NoHold]
            PROVE  \A q \in Procs : holds'[q][Setup] = holds[q][Setup]
        BY <1>0, <4>3 DEF HoldTables
      <4> QED
        BY <4>1, <4>2, <4>3
    <3> QED
      BY <1>a, <1>b, <3>1, <3>2 DEF SetupInv
  <2>5. CASE \E cfg \in Configs : \E failed \in {"none"} \cup ToSet(Steps) :
               \E locked \in BOOLEAN : SetUp(p, cfg, failed, locked)
    BY <2>5, SetUpStep
  <2>6. CASE Exit(p) \/ Kill(p)
    <3>1. /\ alive' = alive \ {p} /\ rt' = IF rt.by = p THEN NotSetUp ELSE rt
          /\ \E x : holds' = [holds EXCEPT ![p] = x]
      BY <2>6 DEF Exit, Kill
    <3>2. CASE rt.by = p
      BY <3>1, <3>2 DEF SetupInv
    <3>3. CASE rt.by # p
      <4>1. \A q \in Procs : q # p => holds'[q] = holds[q]
        BY <1>0, <3>1 DEF HoldTables
      <4> QED
        BY <1>a, <1>b, <3>1, <3>3, <4>1 DEF SetupInv
    <3> QED
      BY <3>2, <3>3
  <2> QED
    BY <2>1, <2>2, <2>5, <2>6 DEF HoldStep
<1> QED
  BY <1>1, <1>2, <1>3, SleepSteps DEF RtNext, rtVars

Naps == [pc : {"awake", "asleep", "spins", "returned"},
         deadline : 0..Deadline, spin : 0..Deadline, now : 0..Deadline]

\* The loop of clock_nanosleep() ends in the last spin_us before the deadline.
LEMMA SleepEnds ==
  ASSUME NEW n \in Naps
  PROVE  AfterSleep(n) \in Naps
         /\ (AfterSleep(n).pc = "spins" => AfterSleep(n).now + AfterSleep(n).spin
                                            >= AfterSleep(n).deadline)
<1> DEFINE m == AfterSleep(n)
<1>1. /\ m \in Naps /\ m.now = n.now /\ m.spin = n.spin /\ m.deadline = n.deadline
      /\ (m.pc = "spins" => ~Sleeps(n))
  BY DEF AfterSleep, Naps
<1>2. n.now \in 0..Deadline /\ n.spin \in 0..Deadline /\ n.deadline \in 0..Deadline
  BY DEF Naps
<1>3. n.deadline > n.spin => (n.deadline - n.spin) % Word = n.deadline - n.spin
  BY <1>2, RealtimeBounds
<1>4. ~Sleeps(n) => n.now + n.spin >= n.deadline
  BY <1>2, <1>3 DEF Sleeps
<1> QED
  BY <1>1, <1>4

LEMMA StepNap ==
  ASSUME nap \in Naps, SpinsBriefly, [RtNext]_rtVars
  PROVE  nap' \in Naps /\ SpinsBriefly'
<1>0. Deadline \in Nat
  BY RealtimeBounds
<1>1. CASE UNCHANGED nap
  BY <1>1 DEF SpinsBriefly
<1>2. CASE BeginSleep
  <2>1. PICK d \in 0..Deadline, s \in 0..Deadline :
          nap' = AfterSleep([Awake EXCEPT !.deadline = d, !.spin = s])
    BY <1>2 DEF BeginSleep
  <2>2. [Awake EXCEPT !.deadline = d, !.spin = s] \in Naps
    <3>1. Awake \in Naps
      BY <1>0 DEF Awake, Naps
    <3> QED
      BY <2>1, <3>1 DEF Naps
  <2> QED
    BY <2>1, <2>2, SleepEnds DEF SpinsBriefly
<1>3. CASE Wake
  <2>1. PICK t \in (nap.now + 1)..Deadline : nap' = AfterSleep([nap EXCEPT !.now = t])
    BY <1>3 DEF Wake
  <2>2. t \in 0..Deadline
    BY <1>0, <2>1 DEF Naps
  <2>3. [nap EXCEPT !.now = t] \in Naps
    BY <2>2 DEF Naps
  <2> QED
    BY <2>1, <2>3, SleepEnds DEF SpinsBriefly
<1>4. CASE Spin
  <2>1. CASE nap.now < nap.deadline
    <3>1. PICK t \in (nap.now + 1)..Deadline : nap' = [nap EXCEPT !.now = t]
      BY <1>4, <2>1 DEF Spin
    <3>2. t \in 0..Deadline /\ t > nap.now
      BY <1>0, <3>1 DEF Naps
    <3>3. nap' \in Naps /\ nap'.now = t /\ nap'.spin = nap.spin /\ nap'.deadline = nap.deadline
      BY <3>1, <3>2 DEF Naps
    <3>4. nap.pc = "spins"
      BY <1>4 DEF Spin
    <3> QED
      BY <1>0, <3>2, <3>3, <3>4 DEF SpinsBriefly, Naps
  <2>2. CASE ~(nap.now < nap.deadline)
    BY <1>4, <2>2 DEF Spin, SpinsBriefly, Naps
  <2> QED
    BY <2>1, <2>2
<1>5. CASE EndSleep
  BY <1>0, <1>5 DEF EndSleep, Awake, SpinsBriefly, Naps
<1>6. Fork => UNCHANGED nap
  BY DEF Fork
<1>7. ASSUME NEW p \in Procs, HoldStep(p) PROVE UNCHANGED nap
  BY <1>7 DEF HoldStep, Acquire, Release, MoveAssign, SetUp, Exit, Kill
<1> QED
  BY <1>1, <1>2, <1>3, <1>4, <1>5, <1>6, <1>7 DEF RtNext, rtVars

LEMMA StepRtTyped ==
  RtTypeOK /\ LatencyInv(alive, Kernel, holds)' /\ SpinsBriefly /\ [RtNext]_rtVars => RtTypeOK'
<1> SUFFICES ASSUME RtTypeOK, LatencyInv(alive, Kernel, holds)', SpinsBriefly, [RtNext]_rtVars
             PROVE  RtTypeOK'
  OBVIOUS
<1>1. /\ limit' \in [Cpus -> Nat \cup {NoLimit}] /\ refs' \in [Fds -> SUBSET Procs]
      /\ nest' \in [Cpus -> SUBSET CpuHolds] /\ crossed' \in [Cpus -> BOOLEAN]
  <2>1. Kernel' \in Kernels
    BY DEF LatencyInv
  <2> QED
    BY <2>1 DEF Kernel, Kernels
<1>2. holds' \in [Procs -> [Holders -> {NoHold} \cup CpuHolds \cup AllHolds]]
  BY DEF LatencyInv, HoldTables, SomeHolds
<1>3. nap' \in Naps
  BY StepNap DEF RtTypeOK, Naps
<1>4. /\ alive' \subseteq Procs
      /\ rt' \in {NotSetUp} \cup [by : Procs, cfg : Configs, locked : BOOLEAN]
  <2>1. CASE UNCHANGED <<alive, rt>>
    BY <2>1 DEF RtTypeOK
  <2>2. CASE Fork
    BY <2>2 DEF RtTypeOK, Fork
  <2>3. ASSUME NEW p \in Procs, HoldStep(p)
        PROVE  /\ alive' \subseteq Procs
               /\ rt' \in {NotSetUp} \cup [by : Procs, cfg : Configs, locked : BOOLEAN]
    <3>1. CASE UNCHANGED <<alive, rt>>
      BY <3>1 DEF RtTypeOK
    <3>2. CASE \E cfg \in Configs : \E failed \in {"none"} \cup ToSet(Steps) :
                 \E locked \in BOOLEAN : SetUp(p, cfg, failed, locked)
      BY <3>2 DEF RtTypeOK, SetUp
    <3>3. CASE Exit(p) \/ Kill(p)
      BY <3>3 DEF RtTypeOK, Exit, Kill
    <3> QED
      BY <2>3, <3>1, <3>2, <3>3 DEF HoldStep, Acquire, Release, MoveAssign
  <2> QED
    BY <2>1, <2>2, <2>3, SleepSteps DEF RtNext, rtVars
<1> QED
  BY <1>1, <1>2, <1>3, <1>4 DEF RtTypeOK, Naps

\* The latency holds of parent and child, and the sleep, keep the invariant in every
\* reachable state of rt.cpp.
THEOREM RtInvariance == RtSpec => [](RtIInv /\ SpinsBriefly)
<1>1. RtInit => RtIInv /\ SpinsBriefly
  <2> SUFFICES ASSUME RtInit PROVE RtIInv /\ SpinsBriefly
    OBVIOUS
  <2>1. LatencyInv(alive, Kernel, holds) /\ SetupInv
    BY InitHolds
  <2>2. nap = Awake /\ nap \in Naps /\ SpinsBriefly
    BY RealtimeBounds DEF RtInit, Awake, Naps, SpinsBriefly
  <2>3. RtTypeOK
    BY <2>2 DEF RtInit, RtTypeOK, Naps, Procs
  <2> QED
    BY <2>1, <2>2, <2>3 DEF RtIInv
<1>2. RtIInv /\ SpinsBriefly /\ [RtNext]_rtVars => (RtIInv /\ SpinsBriefly)'
  <2> SUFFICES ASSUME RtIInv, SpinsBriefly, [RtNext]_rtVars PROVE RtIInv' /\ SpinsBriefly'
    OBVIOUS
  <2>1. LatencyInv(alive, Kernel, holds)' /\ SetupInv'
    BY StepHolds, StepSetup DEF RtIInv
  <2>2. RtTypeOK'
    BY <2>1, StepRtTyped DEF RtIInv
  <2>3. SpinsBriefly'
    BY StepNap DEF RtIInv, RtTypeOK, Naps
  <2> QED
    BY <2>1, <2>2, <2>3 DEF RtIInv
<1> QED
  BY <1>1, <1>2, PTL DEF RtSpec

\* Holds, descriptions, the nest and the call of the sleep keep their types.
THEOREM RtTypeCorrectness == RtSpec => []RtTypeOK
<1>1. RtIInv => RtTypeOK
  BY DEF RtIInv
<1> QED
  BY <1>1, RtInvariance, PTL

\* While the holds on a CPU are released in the reverse order, across moves, a second
\* rt_setup, one that fails, and forked copies that are dropped, the innermost hold's
\* limit is in force, and the CPU's own when there is none.
THEOREM LimitsFollowNesting == RtSpec => []LimitFollowsNesting
<1>1. RtIInv => LimitFollowsNesting
  BY DEF RtIInv, LatencyInv, WellNested, NestOn, InForceOn, LimitFollowsNesting, Kernel
<1> QED
  BY <1>1, RtInvariance, PTL

\* The parent has a description of /dev/cpu_dma_latency open for each of its
\* system-wide holds and for nothing else, whatever call of acquire() failed and
\* whatever its child closes.
THEOREM RequestsStayHeld == RtSpec => []RequestsAreHeld
<1>1. RtIInv => RequestsAreHeld
  <2> SUFFICES ASSUME RtIInv PROVE RequestsAreHeld
    OBVIOUS
  <2>1. /\ Kernel.refs = refs /\ Parent \in Procs /\ holds \in HoldTables
        /\ Requested(Kernel, holds) /\ Kept(Kernel, holds) /\ Inherited(alive, holds)
    BY DEF RtIInv, LatencyInv, Kernel, Procs
  <2>2. ASSUME NEW h \in Holders, holds[Parent][h].kind = "all"
        PROVE  holds[Parent][h].fd \in Fds /\ Parent \in refs[holds[Parent][h].fd]
    <3>1. holds[Parent][h] # NoHold
      BY <2>2 DEF NoHold
    <3>2. holds[Parent][h] \in SomeHolds /\ holds[Parent][h].owner = Parent
      BY <2>1, <3>1, ProcessesDiffer DEF HoldTables, Inherited
    <3>3. InForce(Kernel, holds[Parent][h])
      BY <2>1, <3>2 DEF Kept, Owns
    <3> QED
      BY <2>1, <2>2, <3>2, <3>3, HoldKinds DEF InForce, SomeHolds, AllHolds
  <2> QED
    BY <2>1, <2>2 DEF RequestsAreHeld, Requested
<1> QED
  BY <1>1, RtInvariance, PTL

\* After rt_setup_memory_and_sched() has returned 0 the hold asked for is the
\* process's own and in force, until that process ends or is set up again.
THEOREM SetupHoldsStay == RtSpec => []SetupHoldStays
<1>1. RtIInv => SetupHoldStays
  <2> SUFFICES ASSUME RtIInv, rt # NotSetUp, rt.cfg.us >= 0
               PROVE  LET h == holds[rt.by][Setup] IN
                        /\ h # NoHold /\ h.owner = rt.by /\ h.us = rt.cfg.us
                        /\ IF h.kind = "cpu" THEN h.cpu = rt.cfg.cpu /\ h \in nest[h.cpu]
                                             ELSE rt.cfg.cpu = -1 /\ rt.by \in refs[h.fd]
    BY DEF SetupHoldStays
  <2>1. rt.by \in Procs /\ Setup \in Holders /\ Kernel.refs = refs /\ Kernel.nest = nest
    BY DEF RtIInv, RtTypeOK, Holders, Kernel
  <2>2. /\ Owns(holds, rt.by, Setup) /\ holds[rt.by][Setup].us = rt.cfg.us
        /\ IF holds[rt.by][Setup].kind = "cpu" THEN holds[rt.by][Setup].cpu = rt.cfg.cpu
                                               ELSE rt.cfg.cpu = -1
    BY DEF RtIInv, SetupInv
  <2>3. InForce(Kernel, holds[rt.by][Setup])
    BY <2>1, <2>2 DEF RtIInv, LatencyInv, Kept
  <2> QED
    BY <2>1, <2>2, <2>3, HoldKinds DEF InForce, Owns
<1> QED
  BY <1>1, RtInvariance, PTL

\* rt_sleep_until_prewarmed() spins only once no more than spin_us is left to the
\* deadline, whatever the two are: the difference is taken when it does not wrap.
THEOREM SleepsSpinBriefly == RtSpec => []SpinsBriefly
BY RtInvariance, PTL
=============================================================================
