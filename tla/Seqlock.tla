------------------------------ MODULE Seqlock -------------------------------
(***************************************************************************)
(* The seqlock backend of the metadata plane (SeqlockMetadataChannel in    *)
(* src/src/metadata_channel.cpp): one TensorDescriptor in shared memory,   *)
(* written by one publisher process and read by any number of subscriber   *)
(* processes, with no lock.                                                *)
(*                                                                         *)
(* The descriptor is a set of words, each holding the number of the        *)
(* publish that stored it.  `slot_->desc = desc` and `tmp = slot_->desc`   *)
(* race on purpose, so the words are stored and copied one at a time, in   *)
(* any order; the fences order all of them against the guard.  Nothing     *)
(* orders the two stores after the second fence of publish() (the even     *)
(* guard and `ready`), and `ready` is a plain field: on a CPU that         *)
(* reorders loads (the Jetson's AArch64) the load of `ready` at the top of *)
(* read_latest() may take effect after the loads of guard and descriptor.  *)
(* LoadOrders lists the CPUs considered.                                   *)
(*                                                                         *)
(* The wake-up half of publish() is in module WaitNotify.                  *)
(***************************************************************************)
EXTENDS Naturals

CONSTANTS Readers,     \* subscribers, each with one read_latest() call at a time
          Words,       \* the words of a TensorDescriptor
          MaxPublish,  \* bound on the number of publishes
          RetryLimits, \* values of max_retry the callers pass
          LoadOrders   \* a subset of {"in_order", "late"}

ASSUME MaxPublishIsNat == MaxPublish \in Nat
ASSUME RetryLimitsAreNat == RetryLimits \subseteq Nat
ASSUME WordsNonEmpty == Words # {}
ASSUME LoadOrdersOK == LoadOrders \subseteq {"in_order", "late"}

VARIABLES
  guard,     \* MetadataSlot::guard, odd while a write is in progress
  ready,     \* MetadataSlot::ready
  desc,      \* MetadataSlot::desc, word by word
  pubs,      \* publishes begun; the content of the descriptor being published
  wpc,       \* where publish() is
  todo,      \* words of the descriptor publish() has still to store
  alive,     \* the publisher process has not crashed
  loadOrder, \* the CPU's ordering of plain loads; never changes
  rpc,       \* where read_latest() is, or how its last call ended
  limit,     \* max_retry of the call
  attempt,   \* the loop variable `retry`
  before,    \* the local `before`
  left,      \* words read_latest() has still to copy
  tmp,       \* the local `tmp`, returned through *out on a hit
  atRest     \* history: guard when the call began if the slot was at rest, else 0

writerVars == <<guard, ready, desc, pubs, wpc, todo, alive>>
readerVars == <<rpc, limit, attempt, before, left, tmp, atRest>>
vars == <<writerVars, loadOrder, readerVars>>

Frames == 0..MaxPublish
Odd(g) == g % 2 = 1

Returned == {"idle", "hit", "miss"}
ReaderPCs == Returned \cup {"ready", "before", "copy", "after", "lateReady"}
WriterPCs == {"idle", "storing", "sealing", "guardStored", "readyStored"}

TypeOK ==
  /\ guard \in 0..(2 * MaxPublish)
  /\ ready \in {0, 1}
  /\ desc \in [Words -> Frames]
  /\ pubs \in Frames
  /\ wpc \in WriterPCs
  /\ todo \subseteq Words
  /\ alive \in BOOLEAN
  /\ loadOrder \in LoadOrders
  /\ rpc \in [Readers -> ReaderPCs]
  /\ limit \in [Readers -> RetryLimits \cup {0}]
  /\ attempt \in [Readers -> Nat]
  /\ \A r \in Readers : attempt[r] =< limit[r]
  /\ before \in [Readers -> 0..(2 * MaxPublish)]
  /\ left \in [Readers -> SUBSET Words]
  /\ tmp \in [Readers -> [Words -> Frames]]
  /\ atRest \in [Readers -> 0..(2 * MaxPublish)]

-----------------------------------------------------------------------------
(* create_publisher(): a zeroed slot.  The subscribers map it later.       *)

Init ==
  /\ guard = 0 /\ ready = 0 /\ desc = [w \in Words |-> 0]
  /\ pubs = 0 /\ wpc = "idle" /\ todo = {} /\ alive = TRUE
  /\ loadOrder \in LoadOrders
  /\ rpc = [r \in Readers |-> "idle"]
  /\ limit = [r \in Readers |-> 0]
  /\ attempt = [r \in Readers |-> 0]
  /\ before = [r \in Readers |-> 0]
  /\ left = [r \in Readers |-> {}]
  /\ tmp = [r \in Readers |-> [w \in Words |-> 0]]
  /\ atRest = [r \in Readers |-> 0]

-----------------------------------------------------------------------------
(* publish()                                                               *)

\* guard.store(g + 1), ordered before every store below by the first fence.
BeginPublish ==
  /\ alive /\ wpc = "idle" /\ pubs < MaxPublish
  /\ guard' = guard + 1
  /\ pubs' = pubs + 1
  /\ wpc' = "storing" /\ todo' = Words
  /\ UNCHANGED <<ready, desc, alive, loadOrder, readerVars>>

\* Mutant of StoreWord: without the second fence the even guard may overtake words.
StoreWordUnfenced(w) ==
  /\ alive /\ wpc = "storing" /\ w \in todo
  /\ desc' = [desc EXCEPT ![w] = pubs]
  /\ todo' = {} /\ wpc' = "sealing"
  /\ UNCHANGED <<guard, ready, pubs, alive, loadOrder, readerVars>>

\* slot_->desc = desc, one word of it.
StoreWord(w) ==
  /\ alive /\ wpc = "storing" /\ w \in todo
  /\ desc' = [desc EXCEPT ![w] = pubs]
  /\ todo' = todo \ {w}
  /\ wpc' = IF todo = {w} THEN "sealing" ELSE "storing"
  /\ UNCHANGED <<guard, ready, pubs, alive, loadOrder, readerVars>>

\* guard.store(g + 2): the frame can be read from here on.
StoreEvenGuard ==
  /\ alive /\ wpc \in {"sealing", "readyStored"}
  /\ guard' = guard + 1
  /\ wpc' = IF wpc = "sealing" THEN "guardStored" ELSE "idle"
  /\ UNCHANGED <<ready, desc, pubs, todo, alive, loadOrder, readerVars>>

\* Mutant of StoreReady: the flag is forgotten.
StoreReadyForgotten ==
  /\ alive /\ wpc \in {"sealing", "guardStored"}
  /\ wpc' = IF wpc = "sealing" THEN "readyStored" ELSE "idle"
  /\ UNCHANGED <<guard, ready, desc, pubs, todo, alive, loadOrder, readerVars>>

\* slot_->ready = 1, ordered after the words but not after the even guard.
StoreReady ==
  /\ alive /\ wpc \in {"sealing", "guardStored"}
  /\ ready' = 1
  /\ wpc' = IF wpc = "sealing" THEN "readyStored" ELSE "idle"
  /\ UNCHANGED <<guard, desc, pubs, todo, alive, loadOrder, readerVars>>

\* The publisher process dies between any two of its stores; the slot stays.
Crash ==
  /\ alive
  /\ alive' = FALSE
  /\ UNCHANGED <<guard, ready, desc, pubs, wpc, todo, loadOrder, readerVars>>

-----------------------------------------------------------------------------
(* read_latest()                                                           *)

Goto(r, pc) == rpc' = [rpc EXCEPT ![r] = pc]

Call(r, maxRetry) ==
  /\ rpc[r] \in Returned
  /\ Goto(r, "ready")
  /\ limit' = [limit EXCEPT ![r] = maxRetry]
  /\ attempt' = [attempt EXCEPT ![r] = 0]
  /\ atRest' = [atRest EXCEPT ![r] = IF wpc = "idle" THEN guard ELSE 0]
  /\ UNCHANGED <<writerVars, loadOrder, before, left, tmp>>

\* Mutant of LoadReady: the test of ready is dropped.
LoadReadyUntested(r) ==
  /\ rpc[r] = "ready"
  /\ loadOrder = "in_order"
  /\ Goto(r, "before")
  /\ UNCHANGED <<writerVars, loadOrder, limit, attempt, before, left, tmp, atRest>>

\* if (slot_->ready == 0) return false
LoadReady(r) ==
  /\ rpc[r] = "ready"
  /\ loadOrder = "in_order"
  /\ Goto(r, IF ready = 0 THEN "miss" ELSE "before")
  /\ UNCHANGED <<writerVars, loadOrder, limit, attempt, before, left, tmp, atRest>>

\* The branch is predicted and the load of ready satisfied after the others.
PredictReady(r) ==
  /\ rpc[r] = "ready"
  /\ loadOrder = "late"
  /\ Goto(r, "before")
  /\ UNCHANGED <<writerVars, loadOrder, limit, attempt, before, left, tmp, atRest>>

\* Mutant of NextTry: a loop that does not count.
NextTryForever(r) == attempt' = attempt /\ Goto(r, "before")

\* The end of one turn of the loop that did not return.
NextTry(r) ==
  IF attempt[r] < limit[r]
  THEN /\ attempt' = [attempt EXCEPT ![r] = attempt[r] + 1]
       /\ Goto(r, "before")
  ELSE /\ attempt' = attempt
       /\ Goto(r, "miss")

\* before = guard.load(); if (before & 1u) continue
LoadBeforeOdd(r) ==
  /\ rpc[r] = "before"
  /\ Odd(guard)
  /\ NextTry(r)
  /\ UNCHANGED <<writerVars, loadOrder, limit, before, left, tmp, atRest>>

LoadBeforeEven(r) ==
  /\ rpc[r] = "before"
  /\ ~Odd(guard)
  /\ before' = [before EXCEPT ![r] = guard]
  /\ left' = [left EXCEPT ![r] = Words]
  /\ Goto(r, "copy")
  /\ UNCHANGED <<writerVars, loadOrder, limit, attempt, tmp, atRest>>

\* tmp = slot_->desc, one word of it.
CopyWord(r, w) ==
  /\ rpc[r] = "copy" /\ w \in left[r]
  /\ tmp' = [tmp EXCEPT ![r][w] = desc[w]]
  /\ left' = [left EXCEPT ![r] = left[r] \ {w}]
  /\ Goto(r, IF left[r] = {w} THEN "after" ELSE "copy")
  /\ UNCHANGED <<writerVars, loadOrder, limit, attempt, before, atRest>>

\* Mutant of LoadAfter: the guard is not compared.
LoadAfterUnchecked(r) ==
  /\ rpc[r] = "after"
  /\ attempt' = attempt
  /\ Goto(r, IF loadOrder = "late" THEN "lateReady" ELSE "hit")
  /\ UNCHANGED <<writerVars, loadOrder, limit, before, left, tmp, atRest>>

\* after = guard.load(); if (before == after) return true
LoadAfter(r) ==
  /\ rpc[r] = "after"
  /\ IF guard = before[r]
     THEN /\ attempt' = attempt
          /\ Goto(r, IF loadOrder = "late" THEN "lateReady" ELSE "hit")
     ELSE NextTry(r)
  /\ UNCHANGED <<writerVars, loadOrder, limit, before, left, tmp, atRest>>

\* The predicted load of ready is satisfied at last.
LoadReadyLate(r) ==
  /\ rpc[r] = "lateReady"
  /\ Goto(r, IF ready = 0 THEN "miss" ELSE "hit")
  /\ UNCHANGED <<writerVars, loadOrder, limit, attempt, before, left, tmp, atRest>>

-----------------------------------------------------------------------------
PublisherStep == \/ BeginPublish \/ StoreEvenGuard \/ StoreReady \/ Crash
                 \/ \E w \in Words : StoreWord(w)

ReaderStep(r) == \/ LoadReady(r) \/ PredictReady(r)
                 \/ LoadBeforeOdd(r) \/ LoadBeforeEven(r)
                 \/ \E w \in Words : CopyWord(r, w)
                 \/ LoadAfter(r) \/ LoadReadyLate(r)

Next == \/ PublisherStep
        \/ \E r \in Readers : \/ \E m \in RetryLimits : Call(r, m)
                              \/ ReaderStep(r)

Spec == Init /\ [][Next]_vars

\* A thread inside read_latest() keeps running; the publisher owes nothing.
FairSpec == Spec /\ \A r \in Readers : WF_vars(ReaderStep(r))

-----------------------------------------------------------------------------
(* Properties                                                              *)

\* A read that returns true returns the words of a single publish, never a
\* mixture of two (the point of the guard in publish() and read_latest()).
NoTornRead == \A r \in Readers : rpc[r] = "hit" =>
                \A w1, w2 \in Words : tmp[r][w1] = tmp[r][w2]

\* On a CPU that performs loads in order, read_latest() returns true only for
\* a descriptor some publish() stored: the zeroed slot of create_publisher()
\* never passes for a frame.
HitIsPublished == loadOrder = "in_order" =>
                    \A r \in Readers : rpc[r] = "hit" =>
                      \A w \in Words : tmp[r][w] > 0

\* "Returns false on no-data or persistent writer interleaving"
\* (metadata_channel.h): false is no-data when nothing has been published.
\* The unconditional form of HitIsPublished.
NoDataIsFalse == \A r \in Readers : rpc[r] = "hit" =>
                   \A w \in Words : tmp[r][w] > 0

\* read_latest() returns false only for a reason: a call that found the slot
\* at rest after some publish fails only if a publish has begun meanwhile.
MissNeedsWriter == \A r \in Readers :
                     rpc[r] = "miss" /\ atRest[r] > 0 => guard # atRest[r]

\* read_latest() is bounded: every call returns, whether the publisher keeps
\* publishing, stops between two stores or dies with the guard odd.
ReadsReturn == \A r \in Readers : rpc[r] \notin Returned ~> rpc[r] \in Returned

\* The detailed slot implements the atomic register: what a hit returns was
\* the newest complete frame at one instant of the call.
SomeWord == CHOOSE w \in Words : TRUE
PhaseOf(pc) == IF pc \in Returned THEN pc
               ELSE IF pc \in {"ready", "before"} THEN "called" ELSE "sampled"
latestFrame == IF guard = 2 * pubs THEN pubs ELSE pubs - 1
phaseOfRead == [r \in Readers |-> PhaseOf(rpc[r])]
sampleOfRead == [r \in Readers |-> before[r] \div 2]
frameOfRead == [r \in Readers |-> IF rpc[r] = "hit" THEN tmp[r][SomeWord] ELSE 0]
Register == INSTANCE LatestRegister WITH
  latest <- latestFrame, phase <- phaseOfRead,
  sample <- sampleOfRead, frame <- frameOfRead
IsLatestRegister == Register!Spec
=============================================================================
