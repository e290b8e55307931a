-------------------------- MODULE WaitNotifyProofs ---------------------------
(* Proofs about module WaitNotify, for every set of streams and waiters,    *)
(* every wait list, kernel and number of publishes.                         *)
EXTENDS WaitNotify, TLAPS

-----------------------------------------------------------------------------
(* The inductive invariants.                                                *)

\* What notify counts: every frame, but for one between its store and its bump.
\* A slot without the words is stored in one step.
CountInv ==
  \A s \in Streams :
    /\ s \notin hasNotify => ppc[s] = "idle"
    /\ s \in hasNotify => notify[s] = IF ppc[s] = "stored" THEN frame[s] - 1 ELSE frame[s]

\* A subscriber has not seen more bumps than frames, nor more than there are: it
\* loaded the word before it read the frame it commits with it.
SeenInv ==
  \A w \in Waiters :
    /\ \A s \in Streams : seenNotify[w][s] =< seenFrame[w][s] /\ seenFrame[w][s] =< frame[s]
    /\ pc[w] = "view" => notifyNow[w] =< notify[Current(w)]

\* The loop variable stands at the first stream but inside a loop.
LoopInv == \A w \in Waiters : pc[w] \notin {"view", "raise", "check"} => idx[w] = 1

\* A flag that a waiter has raised stays up until a publisher takes it: before
\* the waiter sleeps the stream is noted in `taken`, after that it is woken.
FlagInv ==
  \A w \in Waiters :
    /\ \A s \in Raised(w) \ taken[w] : flag[s] = 1
    /\ pc[w] = "asleep" =>
         \A s \in List(w) \ taken[w] : flag[s] = 1 \/ ppc[s] = "waking"

IInv == TypeOK /\ CountInv /\ SeenInv /\ LoopInv /\ FlagInv

-----------------------------------------------------------------------------
(* The lists of streams                                                     *)

\* What a waiter's loop variable may index is a stream of its list.
LEMMA ListsAreStreams ==
  \A w \in Waiters : /\ WaitList[w] \in Seq(Streams)
                     /\ Len(WaitList[w]) \in Nat /\ 1 \in 1..Len(WaitList[w])
                     /\ \A k \in 1..Len(WaitList[w]) : WaitList[w][k] \in Streams
                     /\ List(w) \subseteq Streams
  BY WaitListsAreLists, WaitListsNonEmpty DEF List

\* An action of Next is one of these.
LEMMA NextCases ==
  ASSUME [Next]_vars
  PROVE  \/ \E s \in Streams : StoreFrame(s) \/ BumpNotify(s) \/ TakeFlag(s) \/ WakeAll(s)
         \/ \E w \in Waiters :
              \/ \E k \in 1..Len(WaitList[w]) : LoadNotify(w, k)
              \/ HandOut(w) \/ FallBack(w)
              \/ \E t \in BOOLEAN : WaitBegin(w, t)
              \/ RaiseFlag(w) \/ CheckUpdate(w) \/ TimeOut(w) \/ FutexWait(w)
              \/ NoFutexWaitv(w) \/ Interrupted(w) \/ Nap(w) \/ NapEnd(w)
              \/ DeadlinePasses(w)
         \/ UNCHANGED vars
  BY DEF Next, FinishPublish, RunWait, FutexTimeout

-----------------------------------------------------------------------------
(* Types                                                                    *)

PubTyped ==
  /\ frame \in [Streams -> Nat]
  /\ notify \in [Streams -> Nat]
  /\ \A s \in Streams : notify[s] =< frame[s] /\ frame[s] =< MaxPublish[s]
  /\ flag \in [Streams -> {0, 1}]
  /\ ppc \in [Streams -> {"idle", "stored", "bumped", "waking"}]
PlatformTyped == kernel \in Kernels /\ hasNotify \in SlotKinds
LoopTyped ==
  /\ pc \in [Waiters -> {"idle", "view", "raise", "check", "decide", "asleep", "nap"}]
  /\ idx \in [Waiters -> Nat]
  /\ \A w \in Waiters : idx[w] \in 1..Len(WaitList[w])
ViewTyped ==
  /\ notifyNow \in [Waiters -> Nat]
  /\ seenNotify \in [Waiters -> [Streams -> Nat]]
  /\ seenFrame \in [Waiters -> [Streams -> Nat]]
CallTyped ==
  /\ futexes \in [Waiters -> BOOLEAN]
  /\ timed \in [Waiters -> BOOLEAN]
  /\ expired \in [Waiters -> BOOLEAN]
  /\ result \in [Waiters -> Nat]
  /\ taken \in [Waiters -> SUBSET Streams]

LEMMA TypeParts == TypeOK <=> PubTyped /\ PlatformTyped /\ LoopTyped /\ ViewTyped /\ CallTyped
  BY DEF TypeOK, PubTyped, PlatformTyped, LoopTyped, ViewTyped, CallTyped

LEMMA TypePartsPrime ==
  TypeOK' <=> PubTyped' /\ PlatformTyped' /\ LoopTyped' /\ ViewTyped' /\ CallTyped'
  BY DEF TypeOK, PubTyped, PlatformTyped, LoopTyped, ViewTyped, CallTyped

LEMMA PubUntouched == PubTyped /\ UNCHANGED pubVars => PubTyped'
  BY DEF PubTyped, pubVars
LEMMA PlatformUntouched == PlatformTyped /\ UNCHANGED platform => PlatformTyped'
  BY DEF PlatformTyped, platform
LEMMA LoopUntouched == LoopTyped /\ UNCHANGED <<pc, idx>> => LoopTyped'
  BY DEF LoopTyped
LEMMA ViewUntouched == ViewTyped /\ UNCHANGED viewVars => ViewTyped'
  BY DEF ViewTyped, viewVars
LEMMA CallUntouched == CallTyped /\ UNCHANGED callVars => CallTyped'
  BY DEF CallTyped, callVars

LEMMA InitTyped == Init => TypeOK
  BY MaxPublishIsNat, SlotKindsOK, ListsAreStreams DEF Init, TypeOK

\* What HandOut(w) and its kind index is one of the streams.
LEMMA CurrentIsStream ==
  ASSUME LoopTyped, NEW w \in Waiters
  PROVE  Current(w) \in Streams
  BY ListsAreStreams DEF LoopTyped, Current

\* A turn of a loop leaves the loop variable in the list.
LEMMA AdvanceTyped ==
  ASSUME LoopTyped, NEW w \in Waiters, NEW next \in {"check", "decide"}, Advance(w, next)
  PROVE  LoopTyped'
<1>1. idx[w] \in 1..Len(WaitList[w]) /\ Len(WaitList[w]) \in Nat /\ 1 \in 1..Len(WaitList[w])
  BY ListsAreStreams DEF LoopTyped
<1>2. CASE idx[w] < Len(WaitList[w])
  <2>1. idx[w] + 1 \in 1..Len(WaitList[w]) /\ idx[w] + 1 \in Nat
    BY <1>1, <1>2
  <2> QED
    BY <1>2, <2>1 DEF LoopTyped, Advance
<1>3. CASE ~(idx[w] < Len(WaitList[w]))
  BY <1>1, <1>3 DEF LoopTyped, Advance
<1> QED
  BY <1>2, <1>3

LEMMA ReturnTyped ==
  ASSUME LoopTyped, CallTyped, NEW w \in Waiters, NEW i \in Nat, Return(w, i)
  PROVE  LoopTyped' /\ CallTyped'
<1>1. LoopTyped'
  BY ListsAreStreams DEF LoopTyped, Return
<1>2. CallTyped'
  BY DEF CallTyped, Return
<1> QED
  BY <1>1, <1>2

\* CountInv is what keeps the bump below the number of frames.
LEMMA StepTyped == TypeOK /\ CountInv /\ [Next]_vars => TypeOK'
<1> SUFFICES ASSUME TypeOK, CountInv, [Next]_vars
             PROVE  PubTyped' /\ PlatformTyped' /\ LoopTyped' /\ ViewTyped' /\ CallTyped'
  BY TypePartsPrime
<1>0. PubTyped /\ PlatformTyped /\ LoopTyped /\ ViewTyped /\ CallTyped
  BY TypeParts
<1> DEFINE AllTyped == PubTyped /\ PlatformTyped /\ LoopTyped /\ ViewTyped /\ CallTyped
<1>1. ASSUME NEW s \in Streams, StoreFrame(s) PROVE AllTyped'
  <2>1. frame[s] \in Nat /\ notify[s] \in Nat /\ frame[s] + 1 =< MaxPublish[s]
    <3>1. frame[s] \in Nat /\ notify[s] \in Nat /\ MaxPublish[s] \in Nat
      BY <1>0, MaxPublishIsNat DEF PubTyped
    <3>2. frame[s] < MaxPublish[s]
      BY <1>1 DEF StoreFrame
    <3> QED
      BY <3>1, <3>2
  <2>2. /\ frame' \in [Streams -> Nat] /\ ppc' \in [Streams -> {"idle", "stored", "bumped", "waking"}]
        /\ \A x \in Streams : notify[x] =< frame'[x] /\ frame'[x] =< MaxPublish[x]
    BY <1>0, <1>1, <2>1 DEF StoreFrame, PubTyped
  <2>3. PubTyped'
    BY <1>0, <1>1, <2>2 DEF StoreFrame, PubTyped
  <2> QED
    BY <1>0, <1>1, <2>3, PlatformUntouched, LoopUntouched, ViewUntouched, CallUntouched
       DEF StoreFrame
<1>2. ASSUME NEW s \in Streams, BumpNotify(s) PROVE AllTyped'
  <2>1. notify[s] = frame[s] - 1
    BY <1>2 DEF BumpNotify, CountInv
  <2>2. PubTyped'
    BY <1>0, <1>2, <2>1 DEF BumpNotify, PubTyped
  <2> QED
    BY <1>0, <1>2, <2>2, PlatformUntouched, LoopUntouched, ViewUntouched, CallUntouched
       DEF BumpNotify
<1>3. ASSUME NEW s \in Streams, TakeFlag(s) PROVE AllTyped'
  <2>1. PubTyped'
    BY <1>0, <1>3 DEF TakeFlag, PubTyped
  <2>2. CallTyped'
    BY <1>0, <1>3 DEF TakeFlag, CallTyped
  <2> QED
    BY <1>0, <1>3, <2>1, <2>2, PlatformUntouched, LoopUntouched, ViewUntouched DEF TakeFlag
<1>4. ASSUME NEW s \in Streams, WakeAll(s) PROVE AllTyped'
  <2>1. PubTyped'
    BY <1>0, <1>4 DEF WakeAll, PubTyped
  <2>2. LoopTyped'
    BY <1>0, <1>4 DEF WakeAll, LoopTyped, LoopTop
  <2> QED
    BY <1>0, <1>4, <2>1, <2>2, PlatformUntouched, ViewUntouched, CallUntouched DEF WakeAll
<1>5. ASSUME NEW w \in Waiters, NEW k \in 1..Len(WaitList[w]), LoadNotify(w, k) PROVE AllTyped'
  <2>1. WaitList[w][k] \in Streams /\ k \in Nat
    BY ListsAreStreams
  <2>2. LoopTyped'
    BY <1>0, <1>5, <2>1 DEF LoadNotify, LoopTyped
  <2>3. ViewTyped' /\ CallTyped'
    BY <1>0, <1>5, <2>1 DEF LoadNotify, ViewTyped, CallTyped, PubTyped
  <2> QED
    BY <1>0, <1>5, <2>2, <2>3, PubUntouched, PlatformUntouched DEF LoadNotify
<1>6. ASSUME NEW w \in Waiters, HandOut(w) PROVE AllTyped'
  <2>1. Current(w) \in Streams
    BY <1>0, CurrentIsStream
  <2>2. LoopTyped'
    BY <1>0, <1>6, ListsAreStreams DEF HandOut, LoopTyped
  <2>3. ViewTyped'
    BY <1>0, <1>6, <2>1 DEF HandOut, ViewTyped, PubTyped
  <2> QED
    BY <1>0, <1>6, <2>2, <2>3, PubUntouched, PlatformUntouched, CallUntouched DEF HandOut
<1>7. ASSUME NEW w \in Waiters, FallBack(w) PROVE AllTyped'
  <2>1. LoopTyped' /\ ViewTyped'
    BY <1>0, <1>7, ListsAreStreams DEF FallBack, LoopTyped, ViewTyped
  <2> QED
    BY <1>0, <1>7, <2>1, PubUntouched, PlatformUntouched, CallUntouched DEF FallBack
<1>8. ASSUME NEW w \in Waiters, NEW t \in BOOLEAN, WaitBegin(w, t) PROVE AllTyped'
  <2>1. LoopTyped' /\ CallTyped'
    BY <1>0, <1>8 DEF WaitBegin, LoopTyped, CallTyped
  <2> QED
    BY <1>0, <1>8, <2>1, PubUntouched, PlatformUntouched, ViewUntouched DEF WaitBegin
<1>9. ASSUME NEW w \in Waiters, RaiseFlag(w) PROVE AllTyped'
  <2>1. Current(w) \in Streams
    BY <1>0, CurrentIsStream
  <2>2. PubTyped' /\ CallTyped'
    BY <1>0, <1>9, <2>1 DEF RaiseFlag, PubTyped, CallTyped
  <2>3. LoopTyped'
    BY <1>0, <1>9, AdvanceTyped DEF RaiseFlag
  <2> QED
    BY <1>0, <1>9, <2>2, <2>3, PlatformUntouched, ViewUntouched DEF RaiseFlag
<1>10. ASSUME NEW w \in Waiters, CheckUpdate(w) PROVE AllTyped'
  <2>1. idx[w] \in Nat
    BY <1>0 DEF LoopTyped
  <2>2. LoopTyped' /\ CallTyped'
    <3>1. CASE HasUpdate(w, Current(w))
      BY <1>0, <1>10, <2>1, <3>1, ReturnTyped DEF CheckUpdate
    <3>2. CASE ~HasUpdate(w, Current(w))
      BY <1>0, <1>10, <3>2, AdvanceTyped, CallUntouched DEF CheckUpdate
    <3> QED
      BY <3>1, <3>2
  <2> QED
    BY <1>0, <1>10, <2>2, PubUntouched, PlatformUntouched, ViewUntouched DEF CheckUpdate
<1>11. ASSUME NEW w \in Waiters, TimeOut(w) PROVE AllTyped'
  <2>1. LoopTyped' /\ CallTyped'
    BY <1>0, <1>11, ReturnTyped DEF TimeOut
  <2> QED
    BY <1>0, <1>11, <2>1, PubUntouched, PlatformUntouched, ViewUntouched DEF TimeOut
<1>12. ASSUME NEW w \in Waiters, NoFutexWaitv(w) PROVE AllTyped'
  <2>1. LoopTyped' /\ CallTyped'
    BY <1>0, <1>12 DEF NoFutexWaitv, LoopTyped, CallTyped
  <2> QED
    BY <1>0, <1>12, <2>1, PubUntouched, PlatformUntouched, ViewUntouched DEF NoFutexWaitv
<1>13. ASSUME NEW w \in Waiters, FutexWait(w) \/ Interrupted(w) \/ Nap(w) \/ NapEnd(w)
       PROVE  AllTyped'
  <2>1. LoopTyped'
    BY <1>0, <1>13 DEF FutexWait, Interrupted, Nap, NapEnd, LoopTop, LoopTyped
  <2>2. UNCHANGED <<pubVars, platform, viewVars, callVars>>
    BY <1>13 DEF FutexWait, Interrupted, Nap, NapEnd
  <2> QED
    BY <1>0, <2>1, <2>2, PubUntouched, PlatformUntouched, ViewUntouched, CallUntouched
<1>14. ASSUME NEW w \in Waiters, DeadlinePasses(w) PROVE AllTyped'
  <2>1. CallTyped'
    BY <1>0, <1>14 DEF DeadlinePasses, CallTyped
  <2> QED
    BY <1>0, <1>14, <2>1, PubUntouched, PlatformUntouched, LoopUntouched, ViewUntouched
       DEF DeadlinePasses
<1>15. CASE UNCHANGED vars
  BY <1>0, <1>15, PubUntouched, PlatformUntouched, LoopUntouched, ViewUntouched, CallUntouched
     DEF vars
<1> QED
  BY <1>1, <1>2, <1>3, <1>4, <1>5, <1>6, <1>7, <1>8, <1>9, <1>10, <1>11, <1>12, <1>13, <1>14,
     <1>15, NextCases

-----------------------------------------------------------------------------
(* The frames and the bumps                                                 *)

LEMMA InitInv == Init => CountInv /\ SeenInv /\ LoopInv /\ FlagInv
<1> SUFFICES ASSUME Init PROVE CountInv /\ SeenInv /\ LoopInv /\ FlagInv
  OBVIOUS
<1>1. CountInv
  BY DEF Init, CountInv
<1>2. SeenInv
  BY DEF Init, SeenInv
<1>3. LoopInv
  BY DEF Init, LoopInv
<1>4. \A w \in Waiters : Raised(w) = {} /\ pc[w] # "asleep"
  BY DEF Init, Raised
<1>5. FlagInv
  BY <1>4 DEF FlagInv
<1> QED
  BY <1>1, <1>2, <1>3, <1>5

\* Waiters touch neither the frames nor the notify words.
LEMMA WaitersOnlyRead ==
  ASSUME NEW w \in Waiters,
         \/ \E k \in 1..Len(WaitList[w]) : LoadNotify(w, k)
         \/ HandOut(w) \/ FallBack(w)
         \/ \E t \in BOOLEAN : WaitBegin(w, t)
         \/ RaiseFlag(w) \/ CheckUpdate(w) \/ TimeOut(w) \/ FutexWait(w)
         \/ NoFutexWaitv(w) \/ Interrupted(w) \/ Nap(w) \/ NapEnd(w)
         \/ DeadlinePasses(w)
  PROVE  UNCHANGED <<frame, notify, ppc, hasNotify>>
  BY DEF LoadNotify, HandOut, FallBack, WaitBegin, RaiseFlag, CheckUpdate, TimeOut, FutexWait,
         NoFutexWaitv, Interrupted, Nap, NapEnd, DeadlinePasses, pubVars, platform

LEMMA StepCount == TypeOK /\ CountInv /\ [Next]_vars => CountInv'
<1> SUFFICES ASSUME TypeOK, CountInv, [Next]_vars PROVE CountInv'
  OBVIOUS
<1>0. PubTyped
  BY TypeParts
<1>1. CASE UNCHANGED <<frame, notify, ppc, hasNotify>>
  BY <1>1 DEF CountInv
<1>2. ASSUME NEW s \in Streams, StoreFrame(s) PROVE CountInv'
  BY <1>0, <1>2 DEF StoreFrame, CountInv, PubTyped, platform
<1>3. ASSUME NEW s \in Streams, BumpNotify(s) PROVE CountInv'
  BY <1>0, <1>3 DEF BumpNotify, CountInv, PubTyped, platform
<1>4. ASSUME NEW s \in Streams, TakeFlag(s) PROVE CountInv'
  BY <1>0, <1>4 DEF TakeFlag, CountInv, PubTyped, platform
<1>5. ASSUME NEW s \in Streams, WakeAll(s) PROVE CountInv'
  BY <1>0, <1>5 DEF WakeAll, CountInv, PubTyped, platform
<1>6. CASE UNCHANGED vars
  BY <1>1, <1>6 DEF vars, pubVars, platform
<1> QED
  BY <1>1, <1>2, <1>3, <1>4, <1>5, <1>6, NextCases, WaitersOnlyRead

\* A publish makes the frame and the word grow, and leaves what a waiter has seen.
LEMMA SeenUnderPublisher ==
  ASSUME TypeOK, SeenInv, UNCHANGED <<viewVars, idx>>,
         \A w \in Waiters : pc'[w] = "view" => pc[w] = "view",
         frame' \in [Streams -> Nat], notify' \in [Streams -> Nat],
         \A s \in Streams : frame'[s] >= frame[s] /\ notify'[s] >= notify[s]
  PROVE  SeenInv'
<1>0. PubTyped /\ LoopTyped /\ ViewTyped
  BY TypeParts
<1> SUFFICES ASSUME NEW w \in Waiters
             PROVE  /\ \A s \in Streams : /\ seenNotify'[w][s] =< seenFrame'[w][s]
                                          /\ seenFrame'[w][s] =< frame'[s]
                    /\ pc'[w] = "view" => notifyNow'[w] =< notify'[Current(w)']
  BY DEF SeenInv
<1>1. Current(w) \in Streams /\ Current(w)' = Current(w)
  BY <1>0, CurrentIsStream DEF Current
<1>2. ASSUME NEW s \in Streams
      PROVE  seenNotify[w][s] =< seenFrame[w][s] /\ seenFrame[w][s] =< frame'[s]
  <2>1. seenFrame[w][s] \in Nat /\ frame[s] \in Nat /\ frame'[s] \in Nat
    BY <1>0 DEF ViewTyped, PubTyped
  <2> QED
    BY <2>1 DEF SeenInv
<1>3. ASSUME pc'[w] = "view" PROVE notifyNow[w] =< notify'[Current(w)]
  <2>1. notifyNow[w] \in Nat /\ notify[Current(w)] \in Nat /\ notify'[Current(w)] \in Nat
    BY <1>0, <1>1 DEF ViewTyped, PubTyped
  <2>2. notifyNow[w] =< notify[Current(w)]
    BY <1>3 DEF SeenInv
  <2> QED
    BY <1>1, <2>1, <2>2
<1> QED
  BY <1>1, <1>2, <1>3 DEF viewVars

LEMMA StepSeen == TypeOK /\ CountInv /\ SeenInv /\ [Next]_vars => SeenInv'
<1> SUFFICES ASSUME TypeOK, CountInv, SeenInv, [Next]_vars PROVE SeenInv'
  OBVIOUS
<1>0. PubTyped /\ LoopTyped /\ ViewTyped
  BY TypeParts
<1>1. ASSUME NEW s \in Streams, StoreFrame(s) \/ BumpNotify(s) \/ TakeFlag(s) \/ WakeAll(s)
      PROVE  SeenInv'
  <2>1. frame' \in [Streams -> Nat] /\ notify' \in [Streams -> Nat]
    BY <1>0, <1>1 DEF StoreFrame, BumpNotify, TakeFlag, WakeAll, PubTyped
  <2>2. \A x \in Streams : frame'[x] >= frame[x] /\ notify'[x] >= notify[x]
    BY <1>0, <1>1 DEF StoreFrame, BumpNotify, TakeFlag, WakeAll, PubTyped
  <2>3. \A w \in Waiters : pc'[w] = "view" => pc[w] = "view"
    BY <1>0, <1>1 DEF StoreFrame, BumpNotify, TakeFlag, WakeAll, LoopTop, LoopTyped
  <2>4. UNCHANGED <<viewVars, idx>>
    BY <1>1 DEF StoreFrame, BumpNotify, TakeFlag, WakeAll
  <2> QED
    BY <2>1, <2>2, <2>3, <2>4, SeenUnderPublisher
<1>2. ASSUME NEW w \in Waiters, NEW k \in 1..Len(WaitList[w]), LoadNotify(w, k) PROVE SeenInv'
  <2>1. WaitList[w][k] \in Streams
    BY ListsAreStreams
  <2>2. Current(w)' = WaitList[w][k] /\ notifyNow'[w] = notify[WaitList[w][k]]
    BY <1>0, <1>2 DEF LoadNotify, Current, LoopTyped, ViewTyped
  <2>3. \A x \in Waiters \ {w} : /\ Current(x)' = Current(x) /\ notifyNow'[x] = notifyNow[x]
                                /\ pc'[x] = pc[x]
    BY <1>0, <1>2 DEF LoadNotify, Current, LoopTyped, ViewTyped
  <2>4. notify' = notify /\ frame' = frame /\ seenNotify' = seenNotify /\ seenFrame' = seenFrame
    BY <1>2 DEF LoadNotify, pubVars
  <2>5. notify[WaitList[w][k]] \in Nat
    BY <1>0, <2>1 DEF PubTyped
  <2> QED
    BY <2>2, <2>3, <2>4, <2>5 DEF SeenInv
<1>3. ASSUME NEW w \in Waiters, HandOut(w) PROVE SeenInv'
  <2>1. Current(w) \in Streams
    BY <1>0, CurrentIsStream
  <2>2. notifyNow[w] =< frame[Current(w)]
    <3>1. notifyNow[w] =< notify[Current(w)]
      BY <1>3 DEF HandOut, SeenInv
    <3>2. notify[Current(w)] =< frame[Current(w)]
      BY <1>0, <2>1 DEF PubTyped
    <3>3. notifyNow[w] \in Nat /\ notify[Current(w)] \in Nat /\ frame[Current(w)] \in Nat
      BY <1>0, <2>1 DEF PubTyped, ViewTyped
    <3> QED
      BY <3>1, <3>2, <3>3
  <2>3. /\ seenNotify' = [seenNotify EXCEPT ![w][Current(w)] = notifyNow[w]]
        /\ seenFrame' = [seenFrame EXCEPT ![w][Current(w)] = frame[Current(w)]]
        /\ frame' = frame /\ notify' = notify /\ pc'[w] = "idle"
    BY <1>0, <1>3 DEF HandOut, pubVars, LoopTyped
  <2>4. \A x \in Waiters : \A s \in Streams :
          seenNotify'[x][s] =< seenFrame'[x][s] /\ seenFrame'[x][s] =< frame'[s]
    <3> TAKE x \in Waiters
    <3> TAKE s \in Streams
    <3>0. frame[s] \in Nat
      BY <1>0 DEF PubTyped
    <3>1. CASE x = w /\ s = Current(w)
      <4>1. seenNotify'[x][s] = notifyNow[w] /\ seenFrame'[x][s] = frame[s]
        BY <1>0, <2>1, <2>3, <3>1 DEF ViewTyped
      <4> QED
        BY <2>2, <2>3, <3>0, <3>1, <4>1
    <3>2. CASE ~(x = w /\ s = Current(w))
      <4>1. seenNotify'[x][s] = seenNotify[x][s] /\ seenFrame'[x][s] = seenFrame[x][s]
        BY <1>0, <2>1, <2>3, <3>2 DEF ViewTyped
      <4> QED
        BY <2>3, <4>1 DEF SeenInv
    <3> QED
      BY <3>1, <3>2
  <2>5. \A x \in Waiters : pc'[x] = "view" => notifyNow'[x] =< notify'[Current(x)']
    BY <1>0, <1>3, <2>3 DEF HandOut, SeenInv, Current, LoopTyped, ViewTyped
  <2> QED
    BY <2>4, <2>5 DEF SeenInv
<1>4. ASSUME NEW w \in Waiters, FallBack(w) PROVE SeenInv'
  BY <1>0, <1>4 DEF FallBack, SeenInv, Current, LoopTyped, ViewTyped, pubVars
<1>5. ASSUME NEW w \in Waiters,
             \/ \E t \in BOOLEAN : WaitBegin(w, t)
             \/ RaiseFlag(w) \/ CheckUpdate(w) \/ TimeOut(w) \/ FutexWait(w)
             \/ NoFutexWaitv(w) \/ Interrupted(w) \/ Nap(w) \/ NapEnd(w) \/ DeadlinePasses(w)
      PROVE  SeenInv'
  <2>1. UNCHANGED <<frame, notify, viewVars>>
    BY <1>5 DEF WaitBegin, RaiseFlag, CheckUpdate, TimeOut, FutexWait, NoFutexWaitv, Interrupted,
                Nap, NapEnd, DeadlinePasses, pubVars
  <2>2. \A x \in Waiters \ {w} : pc'[x] = pc[x] /\ idx'[x] = idx[x]
    BY <1>0, <1>5 DEF WaitBegin, RaiseFlag, CheckUpdate, TimeOut, FutexWait, NoFutexWaitv,
                      Interrupted, Nap, NapEnd, DeadlinePasses, Advance, Return, LoopTyped
  <2>3. pc'[w] # "view"
    BY <1>0, <1>5 DEF WaitBegin, RaiseFlag, CheckUpdate, TimeOut, FutexWait, NoFutexWaitv,
                      Interrupted, Nap, NapEnd, DeadlinePasses, InWait, Advance, Return, LoopTop,
                      LoopTyped
  <2> QED
    BY <2>1, <2>2, <2>3 DEF SeenInv, viewVars, Current
<1>6. CASE UNCHANGED vars
  BY <1>6 DEF vars, viewVars, pubVars, SeenInv, Current
<1> QED
  BY <1>1, <1>2, <1>3, <1>4, <1>5, <1>6, NextCases

-----------------------------------------------------------------------------
(* The loop and the flags                                                   *)

LEMMA StepLoop == TypeOK /\ LoopInv /\ [Next]_vars => LoopInv'
<1> SUFFICES ASSUME TypeOK, LoopInv, [Next]_vars PROVE LoopInv'
  OBVIOUS
<1>0. LoopTyped
  BY TypeParts
<1>1. ASSUME NEW s \in Streams, StoreFrame(s) \/ BumpNotify(s) \/ TakeFlag(s) \/ WakeAll(s)
      PROVE  LoopInv'
  BY <1>0, <1>1 DEF StoreFrame, BumpNotify, TakeFlag, WakeAll, LoopTop, LoopInv, LoopTyped
<1>2. ASSUME NEW w \in Waiters,
             \/ \E k \in 1..Len(WaitList[w]) : LoadNotify(w, k)
             \/ HandOut(w) \/ FallBack(w)
             \/ \E t \in BOOLEAN : WaitBegin(w, t)
      PROVE  LoopInv'
  BY <1>0, <1>2 DEF LoadNotify, HandOut, FallBack, WaitBegin, LoopInv, LoopTyped
<1>3. ASSUME NEW w \in Waiters, RaiseFlag(w) \/ CheckUpdate(w) \/ TimeOut(w) PROVE LoopInv'
  BY <1>0, <1>3 DEF RaiseFlag, CheckUpdate, TimeOut, Advance, Return, LoopInv, LoopTyped
<1>4. ASSUME NEW w \in Waiters,
             \/ FutexWait(w) \/ NoFutexWaitv(w) \/ Interrupted(w) \/ Nap(w) \/ NapEnd(w)
             \/ DeadlinePasses(w)
      PROVE  LoopInv'
  BY <1>0, <1>4 DEF FutexWait, NoFutexWaitv, Interrupted, Nap, NapEnd, DeadlinePasses, LoopTop,
                    LoopInv, LoopTyped
<1>5. CASE UNCHANGED vars
  BY <1>5 DEF vars, LoopInv
<1> QED
  BY <1>1, <1>2, <1>3, <1>4, <1>5, NextCases

\* FlagInv for one waiter: what has been raised is up or taken, and who sleeps
\* is announced or about to be woken.
Flagged(w) ==
  /\ \A s \in Raised(w) \ taken[w] : flag[s] = 1
  /\ pc[w] = "asleep" => \A s \in List(w) \ taken[w] : flag[s] = 1 \/ ppc[s] = "waking"

LEMMA FlagParts == FlagInv <=> \A w \in Waiters : Flagged(w)
  BY DEF FlagInv, Flagged
LEMMA FlagPartsPrime == FlagInv' <=> \A w \in Waiters : Flagged(w)'
  BY DEF FlagInv, Flagged

\* A waiter that another one leaves alone stays announced: others only raise flags.
LEMMA FlaggedByOthers ==
  ASSUME NEW w \in Waiters, Flagged(w), UNCHANGED ppc,
         pc'[w] = pc[w], idx'[w] = idx[w], futexes'[w] = futexes[w], taken'[w] = taken[w],
         \A s \in Streams : flag[s] = 1 => flag'[s] = 1,
         Raised(w) \subseteq Streams
  PROVE  Flagged(w)'
<1>1. Raised(w)' = Raised(w)
  BY DEF Raised, List
<1>2. List(w) \subseteq Streams
  BY ListsAreStreams
<1> QED
  BY <1>1, <1>2 DEF Flagged

LEMMA RaisedAreStreams ==
  ASSUME LoopTyped, NEW w \in Waiters
  PROVE  Raised(w) \subseteq List(w) /\ Raised(w) \subseteq Streams
<1>1. idx[w] \in 1..Len(WaitList[w]) /\ Len(WaitList[w]) \in Nat
  BY ListsAreStreams DEF LoopTyped
<1>2. \A k \in 1..(idx[w] - 1) : k \in 1..Len(WaitList[w])
  BY <1>1
<1>3. Raised(w) \subseteq List(w)
  BY <1>2 DEF Raised, List
<1> QED
  BY <1>3, ListsAreStreams

\* At the top of the loop, between calls and on the polling path nothing is raised.
LEMMA NothingRaised ==
  ASSUME NEW w \in Waiters,
         pc[w] \in {"idle", "view", "nap", "asleep"} \/ (pc[w] = "raise" /\ idx[w] = 1)
           \/ (pc[w] \in {"check", "decide"} /\ ~futexes[w])
  PROVE  Raised(w) = {}
<1>1. CASE pc[w] = "raise" /\ idx[w] = 1
  <2>1. 1..(idx[w] - 1) = {}
    BY <1>1
  <2> QED
    BY <1>1, <2>1 DEF Raised
<1>2. CASE ~(pc[w] = "raise" /\ idx[w] = 1)
  BY <1>2 DEF Raised
<1> QED
  BY <1>1, <1>2

LEMMA NothingRaisedPrime ==
  ASSUME NEW w \in Waiters,
         pc'[w] \in {"idle", "view", "nap", "asleep"} \/ (pc'[w] = "raise" /\ idx'[w] = 1)
           \/ (pc'[w] \in {"check", "decide"} /\ ~futexes'[w])
  PROVE  Raised(w)' = {}
<1>1. CASE pc'[w] = "raise" /\ idx'[w] = 1
  <2>1. 1..(idx'[w] - 1) = {}
    BY <1>1
  <2> QED
    BY <1>1, <2>1 DEF Raised
<1>2. CASE ~(pc'[w] = "raise" /\ idx'[w] = 1)
  BY <1>2 DEF Raised
<1> QED
  BY <1>1, <1>2

LEMMA FlagsUnderPublisher ==
  ASSUME TypeOK, LoopInv, FlagInv, NEW s \in Streams,
         StoreFrame(s) \/ BumpNotify(s) \/ TakeFlag(s) \/ WakeAll(s)
  PROVE  FlagInv'
<1>0. PubTyped /\ LoopTyped /\ CallTyped
  BY TypeParts
<1> SUFFICES ASSUME NEW w \in Waiters PROVE Flagged(w)'
  BY FlagPartsPrime
<1>1. Flagged(w) /\ Raised(w) \subseteq Streams /\ List(w) \subseteq Streams
  BY <1>0, FlagParts, RaisedAreStreams, ListsAreStreams
<1>2. CASE StoreFrame(s) \/ BumpNotify(s)
  <2>1. UNCHANGED <<flag, pc, idx, futexes, taken>>
    BY <1>2 DEF StoreFrame, BumpNotify, callVars
  <2>2. Raised(w)' = Raised(w) /\ List(w)' = List(w)
    BY <2>1 DEF Raised, List
  <2>3. \A x \in Streams : ppc[x] = "waking" => ppc'[x] = "waking"
    BY <1>0, <1>2 DEF StoreFrame, BumpNotify, PubTyped
  <2> QED
    BY <1>1, <2>1, <2>2, <2>3 DEF Flagged
<1>3. CASE TakeFlag(s)
  <2>1. UNCHANGED <<pc, idx, futexes>> /\ ppc[s] = "bumped"
    BY <1>3 DEF TakeFlag
  <2>2. Raised(w)' = Raised(w) /\ List(w)' = List(w)
    BY <2>1 DEF Raised, List
  <2>3. taken[w] \subseteq taken'[w] /\ (s \in Raised(w) => s \in taken'[w])
    BY <1>3 DEF TakeFlag
  <2>4. \A x \in Streams \ {s} : flag'[x] = flag[x] /\ ppc'[x] = ppc[x]
    BY <1>0, <1>3 DEF TakeFlag, PubTyped
  <2>5. flag[s] = 1 => ppc'[s] = "waking"
    BY <1>0, <1>3 DEF TakeFlag, PubTyped
  <2> QED
    BY <1>1, <2>1, <2>2, <2>3, <2>4, <2>5 DEF Flagged
<1>4. CASE WakeAll(s)
  <2>1. UNCHANGED <<flag, idx, futexes, taken>>
    BY <1>4 DEF WakeAll, callVars
  <2>2. CASE pc[w] = "asleep" /\ s \in List(w)
    <3>1. pc'[w] \in {"raise", "check"} /\ (pc'[w] = "check" => ~futexes'[w])
      BY <1>0, <1>4, <2>1, <2>2 DEF WakeAll, LoopTop, CallTyped
    <3>2. idx'[w] = 1
      BY <2>1, <2>2 DEF LoopInv
    <3>3. Raised(w)' = {}
      BY <3>1, <3>2, NothingRaisedPrime
    <3> QED
      BY <3>1, <3>3 DEF Flagged
  <2>3. CASE ~(pc[w] = "asleep" /\ s \in List(w))
    <3>1. pc'[w] = pc[w]
      BY <1>0, <1>4, <2>3 DEF WakeAll, LoopTyped
    <3>2. Raised(w)' = Raised(w) /\ List(w)' = List(w)
      BY <2>1, <3>1 DEF Raised, List
    <3>3. \A x \in Streams \ {s} : ppc'[x] = ppc[x]
      BY <1>0, <1>4 DEF WakeAll, PubTyped
    <3> QED
      BY <1>1, <2>1, <2>3, <3>1, <3>2, <3>3 DEF Flagged
  <2> QED
    BY <2>2, <2>3
<1> QED
  BY <1>2, <1>3, <1>4

\* Only its own step changes where a waiter is.
LEMMA OthersStay ==
  ASSUME TypeOK, NEW w \in Waiters,
         \/ \E k \in 1..Len(WaitList[w]) : LoadNotify(w, k)
         \/ HandOut(w) \/ FallBack(w)
         \/ \E t \in BOOLEAN : WaitBegin(w, t)
         \/ RaiseFlag(w) \/ CheckUpdate(w) \/ TimeOut(w) \/ FutexWait(w)
         \/ NoFutexWaitv(w) \/ Interrupted(w) \/ Nap(w) \/ NapEnd(w)
         \/ DeadlinePasses(w)
  PROVE  /\ \A x \in Waiters \ {w} : /\ pc'[x] = pc[x] /\ idx'[x] = idx[x]
                                    /\ futexes'[x] = futexes[x] /\ taken'[x] = taken[x]
         /\ \A s \in Streams : flag[s] = 1 => flag'[s] = 1
<1>0. PubTyped /\ LoopTyped /\ CallTyped
  BY TypeParts
<1>1. Current(w) \in Streams
  BY <1>0, CurrentIsStream
<1>2. \A x \in Waiters \ {w} : /\ pc'[x] = pc[x] /\ idx'[x] = idx[x]
                              /\ futexes'[x] = futexes[x] /\ taken'[x] = taken[x]
  BY <1>0 DEF LoadNotify, HandOut, FallBack, WaitBegin, RaiseFlag, CheckUpdate, TimeOut, FutexWait,
              NoFutexWaitv, Interrupted, Nap, NapEnd, DeadlinePasses, callVars, Advance, Return,
              LoopTyped, CallTyped
<1>3. \A s \in Streams : flag[s] = 1 => flag'[s] = 1
  BY <1>0, <1>1 DEF LoadNotify, HandOut, FallBack, WaitBegin, RaiseFlag, CheckUpdate, TimeOut,
                    FutexWait, NoFutexWaitv, Interrupted, Nap, NapEnd, DeadlinePasses, pubVars,
                    PubTyped
<1> QED
  BY <1>2, <1>3

\* RaiseFlag adds the stream it flags to the ones that are raised.
LEMMA RaiseAddsCurrent ==
  ASSUME TypeOK, LoopInv, NEW w \in Waiters, RaiseFlag(w)
  PROVE  Raised(w)' \subseteq Raised(w) \cup {Current(w)}
<1>0. LoopTyped /\ CallTyped
  BY TypeParts
<1>1. /\ idx[w] \in 1..Len(WaitList[w]) /\ Len(WaitList[w]) \in Nat /\ pc[w] = "raise"
      /\ futexes' = futexes
  BY <1>0, ListsAreStreams DEF LoopTyped, RaiseFlag
<1>2. Raised(w) = {WaitList[w][k] : k \in 1..(idx[w] - 1)}
  BY <1>1 DEF Raised
<1>3. \A k \in 1..idx[w] : WaitList[w][k] \in Raised(w) \cup {Current(w)}
  <2> TAKE k \in 1..idx[w]
  <2>1. k = idx[w] \/ k \in 1..(idx[w] - 1)
    BY <1>1
  <2> QED
    BY <1>2, <2>1 DEF Current
<1>4. CASE idx[w] < Len(WaitList[w])
  <2>1. pc'[w] = "raise" /\ idx'[w] = idx[w] + 1
    BY <1>0, <1>1, <1>4 DEF RaiseFlag, Advance, LoopTyped
  <2>2. idx'[w] - 1 = idx[w]
    BY <1>1, <2>1
  <2>3. Raised(w)' = {WaitList[w][k] : k \in 1..idx[w]}
    BY <2>1, <2>2 DEF Raised
  <2> QED
    BY <1>3, <2>3
<1>5. CASE ~(idx[w] < Len(WaitList[w]))
  <2>1. pc'[w] = "check" /\ idx[w] = Len(WaitList[w])
    BY <1>0, <1>1, <1>5 DEF RaiseFlag, Advance, LoopTyped
  <2>2. Raised(w)' \subseteq {WaitList[w][k] : k \in 1..idx[w]}
    BY <2>1 DEF Raised, List
  <2> QED
    BY <1>3, <2>2
<1> QED
  BY <1>4, <1>5

LEMMA FlagsUnderItself ==
  ASSUME TypeOK, LoopInv, FlagInv, NEW w \in Waiters,
         \/ \E k \in 1..Len(WaitList[w]) : LoadNotify(w, k)
         \/ HandOut(w) \/ FallBack(w)
         \/ \E t \in BOOLEAN : WaitBegin(w, t)
         \/ RaiseFlag(w) \/ CheckUpdate(w) \/ TimeOut(w) \/ FutexWait(w)
         \/ NoFutexWaitv(w) \/ Interrupted(w) \/ Nap(w) \/ NapEnd(w)
         \/ DeadlinePasses(w)
  PROVE  Flagged(w)'
<1>0. PubTyped /\ LoopTyped /\ CallTyped
  BY TypeParts
<1>1. Flagged(w) /\ Raised(w) \subseteq List(w) /\ List(w) \subseteq Streams
  BY <1>0, FlagParts, RaisedAreStreams, ListsAreStreams
\* Nothing is raised afterwards, and the waiter is awake.
<1>2. CASE /\ pc'[w] \in {"idle", "view", "nap", "raise", "check", "decide"}
           /\ pc'[w] = "raise" => idx'[w] = 1
           /\ pc'[w] \in {"check", "decide"} => ~futexes'[w]
  BY <1>2, NothingRaisedPrime DEF Flagged
<1>3. CASE \/ \E k \in 1..Len(WaitList[w]) : LoadNotify(w, k)
           \/ HandOut(w) \/ FallBack(w) \/ TimeOut(w) \/ Nap(w)
  <2>1. pc'[w] \in {"idle", "view", "nap"}
    BY <1>0, <1>3 DEF LoadNotify, HandOut, FallBack, TimeOut, Return, Nap, LoopTyped
  <2> QED
    BY <1>2, <2>1
<1>4. ASSUME NEW t \in BOOLEAN, WaitBegin(w, t) PROVE Flagged(w)'
  <2>1. /\ idx'[w] = 1
        /\ \/ pc'[w] = "raise"
           \/ pc'[w] = "check" /\ ~futexes'[w]
    BY <1>0, <1>4 DEF WaitBegin, LoopInv, LoopTyped, CallTyped
  <2> QED
    BY <1>2, <2>1
<1>5. CASE Interrupted(w) \/ NapEnd(w) \/ NoFutexWaitv(w)
  <2>1. /\ idx'[w] = 1
        /\ \/ pc'[w] = "raise"
           \/ pc'[w] = "check" /\ ~futexes'[w]
    BY <1>0, <1>5 DEF Interrupted, NapEnd, NoFutexWaitv, LoopTop, callVars, LoopInv, LoopTyped,
                      CallTyped
  <2> QED
    BY <1>2, <2>1
<1>6. CASE RaiseFlag(w)
  <2>1. Current(w) \in Streams
    BY <1>0, CurrentIsStream
  <2>2. /\ flag'[Current(w)] = 1 /\ taken'[w] = taken[w] \ {Current(w)}
        /\ \A s \in Streams : flag[s] = 1 => flag'[s] = 1
    BY <1>0, <1>6, <2>1 DEF RaiseFlag, PubTyped, CallTyped
  <2>3. pc'[w] # "asleep"
    BY <1>0, <1>6 DEF RaiseFlag, Advance, LoopTyped
  <2>4. Raised(w)' \subseteq Raised(w) \cup {Current(w)}
    BY <1>6, RaiseAddsCurrent
  <2> QED
    BY <1>1, <2>2, <2>3, <2>4 DEF Flagged
<1>7. CASE CheckUpdate(w)
  <2>1. CASE HasUpdate(w, Current(w))
    <3>1. pc'[w] = "idle"
      BY <1>0, <1>7, <2>1 DEF CheckUpdate, Return, LoopTyped
    <3> QED
      BY <1>2, <3>1
  <2>2. CASE ~HasUpdate(w, Current(w))
    <3>1. pc[w] = "check" /\ pc'[w] \in {"check", "decide"} /\ UNCHANGED <<flag, futexes, taken>>
      BY <1>0, <1>7, <2>2 DEF CheckUpdate, Advance, callVars, pubVars, LoopTyped
    <3>2. Raised(w)' = Raised(w)
      BY <3>1 DEF Raised, List
    <3> QED
      BY <1>1, <3>1, <3>2 DEF Flagged
  <2> QED
    BY <2>1, <2>2
<1>8. CASE FutexWait(w)
  <2>1. Raised(w) = List(w) /\ UNCHANGED <<flag, taken>>
    BY <1>8 DEF FutexWait, Raised, pubVars, callVars
  <2>2. CASE pc'[w] = "asleep"
    <3>1. Raised(w)' = {}
      BY <2>2, NothingRaisedPrime
    <3>2. List(w)' = List(w)
      BY DEF List
    <3> QED
      BY <1>1, <2>1, <3>1, <3>2 DEF Flagged
  <2>3. CASE pc'[w] # "asleep"
    <3>1. pc'[w] = "raise" /\ idx'[w] = 1
      BY <1>0, <1>8, <2>3 DEF FutexWait, LoopInv, LoopTyped
    <3> QED
      BY <1>2, <3>1
  <2> QED
    BY <2>2, <2>3
<1>9. CASE DeadlinePasses(w)
  <2>1. UNCHANGED <<pc, idx, futexes, flag, ppc, taken>>
    BY <1>9 DEF DeadlinePasses, pubVars
  <2>2. Raised(w)' = Raised(w) /\ List(w)' = List(w)
    BY <2>1 DEF Raised, List
  <2> QED
    BY <1>1, <2>1, <2>2 DEF Flagged
<1> QED
  BY <1>3, <1>4, <1>5, <1>6, <1>7, <1>8, <1>9

LEMMA StepFlag == TypeOK /\ LoopInv /\ FlagInv /\ [Next]_vars => FlagInv'
<1> SUFFICES ASSUME TypeOK, LoopInv, FlagInv, [Next]_vars PROVE FlagInv'
  OBVIOUS
<1>1. ASSUME NEW w \in Waiters,
             \/ \E k \in 1..Len(WaitList[w]) : LoadNotify(w, k)
             \/ HandOut(w) \/ FallBack(w)
             \/ \E t \in BOOLEAN : WaitBegin(w, t)
             \/ RaiseFlag(w) \/ CheckUpdate(w) \/ TimeOut(w) \/ FutexWait(w)
             \/ NoFutexWaitv(w) \/ Interrupted(w) \/ Nap(w) \/ NapEnd(w)
             \/ DeadlinePasses(w)
      PROVE  FlagInv'
  <2> SUFFICES ASSUME NEW x \in Waiters PROVE Flagged(x)'
    BY FlagPartsPrime
  <2>1. Flagged(w)'
    BY <1>1, FlagsUnderItself
  <2>2. ppc' = ppc
    BY <1>1, WaitersOnlyRead
  <2>3. CASE x # w
    <3>1. Flagged(x) /\ Raised(x) \subseteq Streams
      BY TypeParts, FlagParts, RaisedAreStreams
    <3>2. /\ pc'[x] = pc[x] /\ idx'[x] = idx[x] /\ futexes'[x] = futexes[x] /\ taken'[x] = taken[x]
          /\ \A s \in Streams : flag[s] = 1 => flag'[s] = 1
      BY <1>1, <2>3, OthersStay
    <3> QED
      BY <2>2, <3>1, <3>2, FlaggedByOthers
  <2> QED
    BY <2>1, <2>3
<1>2. CASE UNCHANGED vars
  <2>1. \A x \in Waiters : Raised(x)' = Raised(x) /\ List(x)' = List(x)
    BY <1>2 DEF vars, callVars, Raised, List
  <2> QED
    BY <1>2, <2>1 DEF vars, pubVars, callVars, FlagInv
<1> QED
  BY <1>1, <1>2, FlagsUnderPublisher, NextCases

-----------------------------------------------------------------------------
(* The theorems                                                             *)

\* Frames, notify words, flags and what the waiters have seen of them, together.
THEOREM Invariance == Spec => []IInv
<1>1. Init => IInv
  BY InitTyped, InitInv DEF IInv
<1>2. IInv /\ [Next]_vars => IInv'
  BY StepTyped, StepCount, StepSeen, StepLoop, StepFlag DEF IInv
<1> QED
  BY <1>1, <1>2, PTL DEF Spec

\* Every variable stays in its type, and no notify word is ahead of its frames.
THEOREM TypeCorrectness == Spec => []TypeOK
<1>1. IInv => TypeOK
  BY DEF IInv
<1> QED
  BY <1>1, Invariance, PTL

LEMMA OverlookedFromInv == IInv => NoFrameOverlooked
<1> SUFFICES ASSUME IInv, NEW w \in Waiters, NEW s \in List(w),
                    ppc[s] = "idle", frame[s] > 0, ~HasUpdate(w, s)
             PROVE  seenFrame[w][s] = frame[s]
  BY DEF NoFrameOverlooked
<1>1. TypeOK /\ CountInv /\ SeenInv /\ s \in Streams
  BY ListsAreStreams DEF IInv
<1>2. frame[s] \in Nat /\ notify[s] \in Nat /\ seenFrame[w][s] \in Nat /\ seenNotify[w][s] \in Nat
  BY <1>1 DEF TypeOK
<1>3. CASE s \notin hasNotify
  BY <1>2, <1>3 DEF HasUpdate
<1>4. CASE s \in hasNotify
  <2>1. notify[s] = frame[s] /\ notify[s] = seenNotify[w][s]
    BY <1>1, <1>4 DEF HasUpdate, CountInv
  <2>2. seenNotify[w][s] =< seenFrame[w][s] /\ seenFrame[w][s] =< frame[s]
    BY <1>1 DEF SeenInv
  <2> QED
    BY <1>2, <2>1, <2>2
<1> QED
  BY <1>3, <1>4

\* No frame slips between a read and a wait: when has_update() sees nothing and no
\* publish is under way, the newest frame has been handed out.
THEOREM NoFramesOverlooked == Spec => []NoFrameOverlooked
  BY Invariance, OverlookedFromInv, PTL

LEMMA AnnouncedFromInv == IInv => SleeperAnnounced
  BY DEF IInv, FlagInv, SleeperAnnounced

\* A sleeper is announced by the flag or about to be woken, but for the flags
\* taken back between its raising them and its falling asleep.
THEOREM SleepersAnnounced == Spec => []SleeperAnnounced
  BY Invariance, AnnouncedFromInv, PTL
=============================================================================
