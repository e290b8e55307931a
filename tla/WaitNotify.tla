----------------------------- MODULE WaitNotify -----------------------------
(***************************************************************************)
(* Waiting for a frame: the notify and waiters words of the metadata slot, *)
(* bumped and taken by publish() (src/src/metadata_channel.cpp), and       *)
(* latest_view() and wait_any() of the subscribers that read and sleep on  *)
(* them (src/src/subscriber.cpp).  Every shared access is a step of its    *)
(* own; the seqlock copy inside is one step, as module Seqlock proves it   *)
(* may be taken to be.                                                     *)
(*                                                                         *)
(* A waiter is a thread that owns one TensorSubscriber for each stream of  *)
(* its list and passes the list to wait_any(); a list of one stream is     *)
(* wait_for_update().  A frame is the number of its publish, which is also *)
(* the seqno the publisher gives it.                                       *)
(***************************************************************************)
EXTENDS Naturals, Sequences

CONSTANTS Streams,        \* one publisher and one metadata slot each
          SlotKinds,      \* sets of streams whose slots may be those with notify words
          Waiters,        \* subscriber threads
          WaitList,       \* WaitList[w]: the streams w waits on, in argument order
          Kernels,        \* subset of {"waitv", "old"}: with and without futex_waitv
          MaxPublish      \* MaxPublish[s]: bound on the publishes of stream s

ASSUME MaxPublishIsNat == MaxPublish \in [Streams -> Nat]
ASSUME SlotKindsOK == SlotKinds \subseteq SUBSET Streams
ASSUME WaitListsAreLists == WaitList \in [Waiters -> Seq(Streams)]
ASSUME WaitListsNonEmpty == \A w \in Waiters : Len(WaitList[w]) > 0

VARIABLES
  frame,      \* the newest frame in the slot; 0 before the first publish
  notify,     \* MetadataSlot::notify
  flag,       \* MetadataSlot::waiters
  ppc,        \* where the stream's publish() is
  kernel,     \* the kernel the waiters run on; never changes
  hasNotify,  \* the streams whose publisher has the notify words; never changes
  pc,         \* where the waiter is
  idx,        \* the loop variable i, an index of WaitList[w]
  notifyNow,  \* latest_view()'s local notify_now
  seenNotify, \* Impl::seen_notify of each of the waiter's subscribers
  seenFrame,  \* Impl::seen_seqno of each of the waiter's subscribers
  futexes,    \* wait_any()'s local `futexes`
  timed,      \* timeout_ms >= 0
  expired,    \* the deadline has passed
  result,     \* index the last wait_any() returned; 0 for none
  taken       \* history: streams whose flag a publisher took back after this
              \* waiter had raised it and before the waiter was asleep

platform == <<kernel, hasNotify>>
pubVars == <<frame, notify, flag, ppc>>
viewVars == <<notifyNow, seenNotify, seenFrame>>
callVars == <<futexes, timed, expired, result, taken>>
vars == <<pubVars, platform, pc, idx, viewVars, callVars>>

List(w) == {WaitList[w][k] : k \in 1..Len(WaitList[w])}
Current(w) == WaitList[w][idx[w]]
InWait(w) == pc[w] \notin {"idle", "view"}

TypeOK ==
  /\ frame \in [Streams -> Nat]
  /\ notify \in [Streams -> Nat]
  /\ \A s \in Streams : notify[s] =< frame[s] /\ frame[s] =< MaxPublish[s]
  /\ flag \in [Streams -> {0, 1}]
  /\ ppc \in [Streams -> {"idle", "stored", "bumped", "waking"}]
  /\ kernel \in Kernels /\ hasNotify \in SlotKinds
  /\ pc \in [Waiters -> {"idle", "view", "raise", "check", "decide", "asleep", "nap"}]
  /\ idx \in [Waiters -> Nat]
  /\ \A w \in Waiters : idx[w] \in 1..Len(WaitList[w])
  /\ notifyNow \in [Waiters -> Nat]
  /\ seenNotify \in [Waiters -> [Streams -> Nat]]
  /\ seenFrame \in [Waiters -> [Streams -> Nat]]
  /\ futexes \in [Waiters -> BOOLEAN]
  /\ timed \in [Waiters -> BOOLEAN]
  /\ expired \in [Waiters -> BOOLEAN]
  /\ result \in [Waiters -> Nat]
  /\ taken \in [Waiters -> SUBSET Streams]

Init ==
  /\ frame = [s \in Streams |-> 0]
  /\ notify = [s \in Streams |-> 0]
  /\ flag = [s \in Streams |-> 0]
  /\ ppc = [s \in Streams |-> "idle"]
  /\ kernel \in Kernels /\ hasNotify \in SlotKinds
  /\ pc = [w \in Waiters |-> "idle"]
  /\ idx = [w \in Waiters |-> 1]
  /\ notifyNow = [w \in Waiters |-> 0]
  /\ seenNotify = [w \in Waiters |-> [s \in Streams |-> 0]]
  /\ seenFrame = [w \in Waiters |-> [s \in Streams |-> 0]]
  /\ futexes = [w \in Waiters |-> FALSE]
  /\ timed = [w \in Waiters |-> FALSE]
  /\ expired = [w \in Waiters |-> FALSE]
  /\ result = [w \in Waiters |-> 0]
  /\ taken = [w \in Waiters |-> {}]

-----------------------------------------------------------------------------
(* publish()                                                               *)

\* The seqlock store.  A publisher without the notify words stops here.
StoreFrame(s) ==
  /\ ppc[s] = "idle" /\ frame[s] < MaxPublish[s]
  /\ frame' = [frame EXCEPT ![s] = @ + 1]
  /\ ppc' = [ppc EXCEPT ![s] = IF s \in hasNotify THEN "stored" ELSE "idle"]
  /\ UNCHANGED <<notify, flag, platform, pc, idx, viewVars, callVars>>

\* notify.fetch_add(1)
BumpNotify(s) ==
  /\ ppc[s] = "stored"
  /\ notify' = [notify EXCEPT ![s] = @ + 1]
  /\ ppc' = [ppc EXCEPT ![s] = "bumped"]
  /\ UNCHANGED <<frame, flag, platform, pc, idx, viewVars, callVars>>

\* The streams whose flag the waiter has raised in this turn of its loop.
Raised(w) == CASE pc[w] = "raise" -> {WaitList[w][k] : k \in 1..(idx[w] - 1)}
               [] pc[w] \in {"check", "decide"} /\ futexes[w] -> List(w)
               [] OTHER -> {}

\* Mutant of TakeFlag: nobody is ever woken.
TakeFlagSilently(s) ==
  /\ ppc[s] = "bumped"
  /\ flag' = [flag EXCEPT ![s] = 0]
  /\ ppc' = [ppc EXCEPT ![s] = "idle"]
  /\ taken' = [w \in Waiters |-> IF s \in Raised(w) THEN taken[w] \cup {s} ELSE taken[w]]
  /\ UNCHANGED <<frame, notify, platform, pc, idx, viewVars, futexes, timed, expired, result>>

\* waiters.exchange(0)
TakeFlag(s) ==
  /\ ppc[s] = "bumped"
  /\ flag' = [flag EXCEPT ![s] = 0]
  /\ ppc' = [ppc EXCEPT ![s] = IF flag[s] # 0 THEN "waking" ELSE "idle"]
  /\ taken' = [w \in Waiters |-> IF s \in Raised(w) THEN taken[w] \cup {s} ELSE taken[w]]
  /\ UNCHANGED <<frame, notify, platform, pc, idx, viewVars, futexes, timed, expired, result>>

\* Mutant of LoopTop: a woken waiter does not raise its flags again.
LoopTopUnraised(w) == "check"

\* Back to the top of wait_any()'s loop.
LoopTop(w) == IF futexes[w] THEN "raise" ELSE "check"

\* Mutant of WakeAll: FUTEX_WAKE of one sleeper.
WakeOne(s) ==
  /\ ppc[s] = "waking"
  /\ ppc' = [ppc EXCEPT ![s] = "idle"]
  /\ \/ \E w \in Waiters : /\ pc[w] = "asleep" /\ s \in List(w)
                           /\ pc' = [pc EXCEPT ![w] = LoopTop(w)]
     \/ /\ \A w \in Waiters : pc[w] # "asleep"
        /\ pc' = pc
  /\ UNCHANGED <<frame, notify, flag, platform, idx, viewVars, callVars>>

\* FUTEX_WAKE of everyone asleep on the notify word.
WakeAll(s) ==
  /\ ppc[s] = "waking"
  /\ ppc' = [ppc EXCEPT ![s] = "idle"]
  /\ pc' = [w \in Waiters |->
              IF pc[w] = "asleep" /\ s \in List(w) THEN LoopTop(w) ELSE pc[w]]
  /\ UNCHANGED <<frame, notify, flag, platform, idx, viewVars, callVars>>

-----------------------------------------------------------------------------
(* latest_view()                                                           *)

\* notify_now = notify->load(), before the descriptor is read.
LoadNotify(w, k) ==
  /\ pc[w] = "idle" /\ k \in 1..Len(WaitList[w])
  /\ pc' = [pc EXCEPT ![w] = "view"]
  /\ idx' = [idx EXCEPT ![w] = k]
  /\ notifyNow' = [notifyNow EXCEPT ![w] = notify[WaitList[w][k]]]
  /\ result' = [result EXCEPT ![w] = 0]
  /\ UNCHANGED <<pubVars, platform, seenNotify, seenFrame, futexes, timed, expired, taken>>

\* Mutant of HandOut: notify is loaded after the descriptor has been read.
HandOutLateNotify(w) ==
  /\ pc[w] = "view"
  /\ \E f \in 1..frame[Current(w)] :
       seenFrame' = [seenFrame EXCEPT ![w][Current(w)] = f]
  /\ pc' = [pc EXCEPT ![w] = "idle"]
  /\ idx' = [idx EXCEPT ![w] = 1]
  /\ notifyNow' = [notifyNow EXCEPT ![w] = 0]
  /\ seenNotify' = [seenNotify EXCEPT ![w][Current(w)] = notify[Current(w)]]
  /\ UNCHANGED <<pubVars, platform, callVars>>

\* A fresh frame is handed out: commit seen_notify and seen_seqno.
HandOut(w) ==
  /\ pc[w] = "view" /\ frame[Current(w)] > 0
  /\ pc' = [pc EXCEPT ![w] = "idle"]
  /\ idx' = [idx EXCEPT ![w] = 1]
  /\ notifyNow' = [notifyNow EXCEPT ![w] = 0]
  /\ seenNotify' = [seenNotify EXCEPT ![w][Current(w)] = notifyNow[w]]
  /\ seenFrame' = [seenFrame EXCEPT ![w][Current(w)] = frame[Current(w)]]
  /\ UNCHANGED <<pubVars, platform, callVars>>

\* The fallback path: nothing published, retries used up, fence not drained or
\* generation mismatch.  Nothing is committed.
FallBack(w) ==
  /\ pc[w] = "view"
  /\ pc' = [pc EXCEPT ![w] = "idle"]
  /\ idx' = [idx EXCEPT ![w] = 1]
  /\ notifyNow' = [notifyNow EXCEPT ![w] = 0]
  /\ UNCHANGED <<pubVars, platform, seenNotify, seenFrame, callVars>>

-----------------------------------------------------------------------------
(* wait_any()                                                              *)

WaitBegin(w, t) ==
  /\ pc[w] = "idle"
  /\ futexes' = [futexes EXCEPT ![w] = List(w) \subseteq hasNotify]
  /\ pc' = [pc EXCEPT ![w] = IF List(w) \subseteq hasNotify THEN "raise" ELSE "check"]
  /\ timed' = [timed EXCEPT ![w] = t]
  /\ expired' = [expired EXCEPT ![w] = FALSE]
  /\ result' = [result EXCEPT ![w] = 0]
  /\ UNCHANGED <<pubVars, platform, idx, viewVars, taken>>

\* One turn of a `for (i = 0; i < n; ++i)` loop that falls through to `next`.
Advance(w, next) ==
  IF idx[w] < Len(WaitList[w])
  THEN idx' = [idx EXCEPT ![w] = @ + 1] /\ pc' = pc
  ELSE idx' = [idx EXCEPT ![w] = 1] /\ pc' = [pc EXCEPT ![w] = next]

\* waiters_word()->store(1)
RaiseFlag(w) ==
  /\ pc[w] = "raise"
  /\ flag' = [flag EXCEPT ![Current(w)] = 1]
  /\ taken' = [taken EXCEPT ![w] = @ \ {Current(w)}]
  /\ Advance(w, "check")
  /\ UNCHANGED <<frame, notify, ppc, platform, viewVars, futexes, timed, expired, result>>

\* Mutant of HasUpdate: a slot without the word is never seen to change.
HasUpdateWordOnly(w, s) == notify[s] # seenNotify[w][s]

\* has_update(): the notify word has moved, or, without one, the slot holds
\* another frame.
HasUpdate(w, s) == IF s \in hasNotify
                   THEN notify[s] # seenNotify[w][s]
                   ELSE frame[s] > 0 /\ frame[s] # seenFrame[w][s]

Return(w, i) ==
  /\ pc' = [pc EXCEPT ![w] = "idle"]
  /\ idx' = [idx EXCEPT ![w] = 1]
  /\ result' = [result EXCEPT ![w] = i]
  /\ futexes' = [futexes EXCEPT ![w] = FALSE]
  /\ timed' = [timed EXCEPT ![w] = FALSE]
  /\ expired' = [expired EXCEPT ![w] = FALSE]
  /\ taken' = [taken EXCEPT ![w] = {}]

CheckUpdate(w) ==
  /\ pc[w] = "check"
  /\ IF HasUpdate(w, Current(w))
     THEN Return(w, idx[w])
     ELSE Advance(w, "decide") /\ UNCHANGED callVars
  /\ UNCHANGED <<pubVars, platform, viewVars>>

\* if (timeout_ms >= 0 && past(deadline)) break
TimeOut(w) ==
  /\ pc[w] = "decide" /\ timed[w] /\ expired[w]
  /\ Return(w, 0)
  /\ UNCHANGED <<pubVars, platform, viewVars>>

\* futex_waitv: sleeps if every word still has its expected value, else EAGAIN.
FutexWait(w) ==
  /\ pc[w] = "decide" /\ ~(timed[w] /\ expired[w])
  /\ futexes[w] /\ kernel = "waitv"
  /\ pc' = [pc EXCEPT ![w] = IF \A s \in List(w) : notify[s] = seenNotify[w][s]
                             THEN "asleep" ELSE "raise"]
  /\ UNCHANGED <<pubVars, platform, idx, viewVars, callVars>>

\* ENOSYS: this kernel has no futex_waitv; poll from now on.
NoFutexWaitv(w) ==
  /\ pc[w] = "decide" /\ ~(timed[w] /\ expired[w])
  /\ futexes[w] /\ kernel = "old"
  /\ futexes' = [futexes EXCEPT ![w] = FALSE]
  /\ pc' = [pc EXCEPT ![w] = "check"]
  /\ UNCHANGED <<pubVars, platform, idx, viewVars, timed, expired, result, taken>>

\* The call returns without a wake: EINTR at any time, ETIMEDOUT at the deadline.
Interrupted(w) ==
  /\ pc[w] = "asleep"
  /\ pc' = [pc EXCEPT ![w] = LoopTop(w)]
  /\ UNCHANGED <<pubVars, platform, idx, viewVars, callVars>>

\* Mutant of FutexTimeout: the deadline is passed to the kernel only for -1.
FutexTimeoutInverted(w) == expired[w] /\ ~timed[w] /\ Interrupted(w)

FutexTimeout(w) == expired[w] /\ Interrupted(w)

\* The 100 us poll step.
Nap(w) ==
  /\ pc[w] = "decide" /\ ~(timed[w] /\ expired[w]) /\ ~futexes[w]
  /\ pc' = [pc EXCEPT ![w] = "nap"]
  /\ UNCHANGED <<pubVars, platform, idx, viewVars, callVars>>

NapEnd(w) ==
  /\ pc[w] = "nap"
  /\ pc' = [pc EXCEPT ![w] = LoopTop(w)]
  /\ UNCHANGED <<pubVars, platform, idx, viewVars, callVars>>

\* CLOCK_MONOTONIC passes the deadline.
DeadlinePasses(w) ==
  /\ InWait(w) /\ timed[w] /\ ~expired[w]
  /\ expired' = [expired EXCEPT ![w] = TRUE]
  /\ UNCHANGED <<pubVars, platform, pc, idx, viewVars, futexes, timed, result, taken>>

-----------------------------------------------------------------------------
FinishPublish(s) == BumpNotify(s) \/ TakeFlag(s) \/ WakeAll(s)

RunWait(w) == \/ RaiseFlag(w) \/ CheckUpdate(w) \/ TimeOut(w) \/ FutexWait(w)
              \/ NoFutexWaitv(w) \/ FutexTimeout(w) \/ Nap(w) \/ NapEnd(w)

Next ==
  \/ \E s \in Streams : StoreFrame(s) \/ FinishPublish(s)
  \/ \E w \in Waiters :
       \/ \E k \in 1..Len(WaitList[w]) : LoadNotify(w, k)
       \/ HandOut(w) \/ FallBack(w)
       \/ \E t \in BOOLEAN : WaitBegin(w, t)
       \/ RunWait(w) \/ Interrupted(w) \/ DeadlinePasses(w)

Spec == Init /\ [][Next]_vars

\* A publish() that has begun goes on, a thread in wait_any() is scheduled
\* unless it is asleep, and time passes.  Nobody owes another publish, another
\* call or a signal.
FairSpec == /\ Spec
            /\ \A s \in Streams : WF_vars(FinishPublish(s))
            /\ \A w \in Waiters : WF_vars(RunWait(w)) /\ WF_vars(DeadlinePasses(w))

-----------------------------------------------------------------------------
(* Properties                                                              *)

\* latest_view() loads notify before it reads the descriptor, so that no frame
\* slips between a read and a wait: when has_update() says there is nothing
\* new and no publish is under way, the subscriber has been handed the newest
\* frame.
NoFrameOverlooked ==
  \A w \in Waiters : \A s \in List(w) :
    ppc[s] = "idle" /\ frame[s] > 0 /\ ~HasUpdate(w, s) => seenFrame[w][s] = frame[s]

\* The flag protocol of publish() and wait_any(): a waiter asleep on a stream
\* is announced by the flag, or is about to be woken, unless a publisher took
\* the flag between the waiter's raising it and its falling asleep.
SleeperAnnounced ==
  \A w \in Waiters : \A s \in List(w) \ taken[w] :
    pc[w] = "asleep" => flag[s] = 1 \/ ppc[s] = "waking"

\* A timed wait returns, whatever the publishers do and whatever wake-ups it
\* misses.
TimedWaitReturns == \A w \in Waiters : InWait(w) /\ timed[w] ~> ~InWait(w)

\* A sleeper whose flag was not taken early wakes once its stream is bumped.
AnnouncedSleeperWakes ==
  \A w \in Waiters : \A s \in Streams :
    (pc[w] = "asleep" /\ s \in List(w) \ taken[w] /\ HasUpdate(w, s))
      ~> pc[w] # "asleep"

\* The polling path (old kernel, or a slot without the notify words) loses
\* nothing: a frame newer than the last one handed out ends the wait.
PollingWaitReturns ==
  \A w \in Waiters : \A s \in Streams :
    (InWait(w) /\ ~futexes[w] /\ s \in List(w) /\ frame[s] > seenFrame[w][s])
      ~> ~InWait(w)

\* "one of the two always sees the other, so a wakeup is never lost"
\* (metadata_channel.cpp, publish()): a wait on a stream with a frame newer than
\* the last one read returns.
WakeupNeverLost ==
  \A w \in Waiters : \A s \in Streams :
    (InWait(w) /\ s \in List(w) /\ frame[s] > seenFrame[w][s]) ~> ~InWait(w)

\* wait_for_update() returns 1 when "a frame newer than the one this subscriber
\* last read with latest_view() is published" (subscriber.h).
ReturnMeansNewFrame ==
  \A w \in Waiters : result[w] > 0 =>
    frame[WaitList[w][result[w]]] > seenFrame[w][WaitList[w][result[w]]]
=============================================================================
