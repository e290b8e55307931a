--------------------------- MODULE SeqlockProofs ----------------------------
(* Proofs about module Seqlock, for every set of readers and words, every   *)
(* number of publishes and retries and every load order.                    *)
EXTENDS Seqlock, TLAPS

-----------------------------------------------------------------------------
(* The inductive invariant.                                                 *)

\* The descriptor is whole, and is the one the guard counts, except while its
\* words are being stored; then the guard is odd.
WriterInv ==
  /\ wpc \in {"idle", "guardStored"} => guard = 2 * pubs
  /\ wpc \in {"storing", "sealing", "readyStored"} => guard = 2 * pubs - 1
  /\ wpc # "idle" => pubs > 0
  /\ wpc # "storing" => \A w \in Words : desc[w] = pubs
  /\ wpc = "storing" => \A w \in Words \ todo : desc[w] = pubs
  /\ wpc = "idle" /\ pubs > 0 => ready = 1
  /\ wpc = "readyStored" => ready = 1
  /\ ready = 1 => pubs > 0

\* As long as the guard still has the value the reader loaded, what it has
\* copied is the one descriptor which that value counts.
CopyInv(r) ==
  /\ ~Odd(before[r]) /\ before[r] =< guard
  /\ rpc[r] \in {"copy", "after"} /\ guard = before[r] =>
       \A w \in Words \ left[r] : 2 * tmp[r][w] = before[r]
  /\ rpc[r] = "after" => left[r] = {}
  /\ rpc[r] \in {"lateReady", "hit"} =>
       \A w \in Words : 2 * tmp[r][w] = before[r]

\* With loads in order a reader past the test of ready has seen a publish.
ReadyInv(r) ==
  loadOrder = "in_order" =>
    /\ rpc[r] # "lateReady"
    /\ rpc[r] \in {"before", "copy", "after"} => ready = 1
    /\ rpc[r] \in {"copy", "after", "hit"} => before[r] > 0

\* A call that began with the slot at rest meets nothing else until the guard
\* moves.
RestInv(r) ==
  atRest[r] > 0 =>
    /\ ready = 1 /\ ~Odd(atRest[r]) /\ atRest[r] =< guard
    /\ rpc[r] \in {"copy", "after", "lateReady"} => atRest[r] =< before[r]
    /\ rpc[r] = "miss" => guard # atRest[r]

ReaderInv(r) == CopyInv(r) /\ ReadyInv(r) /\ RestInv(r)

IInv == TypeOK /\ WriterInv /\ \A r \in Readers : ReaderInv(r)

-----------------------------------------------------------------------------
(* Arithmetic of the guard.                                                 *)

\* Twice a number is even and the number before it is odd: what `before & 1`
\* tells read_latest().
LEMMA Parity ==
  ASSUME NEW n \in Nat
  PROVE  ~Odd(2 * n) /\ (n > 0 => Odd(2 * n - 1))
BY DEF Odd

\* The guard is even exactly when it counts every publish begun.
LEMMA GuardParity ==
  ASSUME TypeOK, WriterInv
  PROVE  /\ Odd(guard) <=> wpc \in {"storing", "sealing", "readyStored"}
         /\ ~Odd(guard) => guard = 2 * pubs
<1>1. pubs \in Nat /\ wpc \in WriterPCs
  BY MaxPublishIsNat DEF TypeOK, Frames
<1>2. ~Odd(2 * pubs) /\ (pubs > 0 => Odd(2 * pubs - 1))
  BY <1>1, Parity
<1>3. QED
  BY <1>1, <1>2 DEF WriterInv, WriterPCs

-----------------------------------------------------------------------------
(* Type correctness.                                                        *)

LEMMA TypeInit ==
  ASSUME Init
  PROVE  TypeOK
BY MaxPublishIsNat DEF Init, TypeOK, Frames, ReaderPCs, WriterPCs, Returned

\* The step of the loop counter at the end of a failed try.
LEMMA NextTryType ==
  ASSUME TypeOK, NEW r \in Readers, NextTry(r)
  PROVE  /\ rpc' \in [Readers -> ReaderPCs]
         /\ attempt' \in [Readers -> Nat]
         /\ \A q \in Readers : attempt'[q] =< limit[q]
<1>1. CASE attempt[r] < limit[r]
  <2>1. limit[r] \in Nat /\ attempt[r] \in Nat
    <3>1. limit[r] \in RetryLimits \cup {0} /\ attempt[r] \in Nat
      BY DEF TypeOK
    <3>2. \A m \in RetryLimits : m \in Nat
      BY RetryLimitsAreNat
    <3>3. QED
      BY <3>1, <3>2
  <2>2. attempt[r] + 1 \in Nat /\ attempt[r] + 1 =< limit[r]
    BY <1>1, <2>1
  <2>3. /\ attempt' = [attempt EXCEPT ![r] = attempt[r] + 1]
        /\ rpc' = [rpc EXCEPT ![r] = "before"]
    BY <1>1 DEF NextTry, Goto
  <2>4. QED
    BY <2>2, <2>3 DEF TypeOK, ReaderPCs
<1>2. CASE ~(attempt[r] < limit[r])
  BY <1>2 DEF NextTry, Goto, TypeOK, ReaderPCs, Returned
<1>3. QED
  BY <1>1, <1>2

LEMMA TypeStep ==
  ASSUME TypeOK, WriterInv, [Next]_vars
  PROVE  TypeOK'
<1> USE MaxPublishIsNat DEF Frames, WriterPCs
<1>1. CASE BeginPublish
  BY <1>1 DEF BeginPublish, TypeOK, WriterInv, readerVars
<1>2. ASSUME NEW w \in Words, StoreWord(w)
      PROVE  TypeOK'
  BY <1>2 DEF StoreWord, TypeOK, readerVars
<1>3. CASE StoreEvenGuard
  BY <1>3 DEF StoreEvenGuard, TypeOK, WriterInv, readerVars
<1>4. CASE StoreReady
  BY <1>4 DEF StoreReady, TypeOK, readerVars
<1>5. CASE Crash
  BY <1>5 DEF Crash, TypeOK, readerVars
<1>6. ASSUME NEW r \in Readers, NEW m \in RetryLimits, Call(r, m)
      PROVE  TypeOK'
  <2>1. m \in Nat
    BY RetryLimitsAreNat
  <2>2. \A q \in Readers : attempt'[q] =< limit'[q]
    BY <1>6, <2>1 DEF Call, TypeOK
  <2>3. QED
    BY <1>6, <2>1, <2>2 DEF Call, Goto, TypeOK, writerVars, ReaderPCs, Returned
<1>7. ASSUME NEW r \in Readers, LoadReady(r) \/ PredictReady(r) \/ LoadReadyLate(r)
      PROVE  TypeOK'
  BY <1>7 DEF LoadReady, PredictReady, LoadReadyLate, Goto, TypeOK, writerVars,
              ReaderPCs, Returned
<1>8. ASSUME NEW r \in Readers, LoadBeforeOdd(r)
      PROVE  TypeOK'
  BY <1>8, NextTryType DEF LoadBeforeOdd, TypeOK, writerVars
<1>9. ASSUME NEW r \in Readers, LoadBeforeEven(r)
      PROVE  TypeOK'
  BY <1>9 DEF LoadBeforeEven, Goto, TypeOK, writerVars, ReaderPCs
<1>10. ASSUME NEW r \in Readers, NEW w \in Words, CopyWord(r, w)
       PROVE  TypeOK'
  BY <1>10 DEF CopyWord, Goto, TypeOK, writerVars, ReaderPCs
<1>11. ASSUME NEW r \in Readers, LoadAfter(r)
       PROVE  TypeOK'
  <2>1. /\ rpc' \in [Readers -> ReaderPCs]
        /\ attempt' \in [Readers -> Nat]
        /\ \A q \in Readers : attempt'[q] =< limit[q]
    <3>1. CASE guard = before[r]
      BY <1>11, <3>1 DEF LoadAfter, Goto, TypeOK, ReaderPCs, Returned
    <3>2. CASE guard # before[r]
      BY <1>11, <3>2, NextTryType DEF LoadAfter
    <3>3. QED
      BY <3>1, <3>2
  <2>2. QED
    BY <1>11, <2>1 DEF LoadAfter, TypeOK, writerVars
<1>12. CASE UNCHANGED vars
  BY <1>12 DEF vars, TypeOK, writerVars, readerVars
<1>13. QED
  BY <1>1, <1>2, <1>3, <1>4, <1>5, <1>6, <1>7, <1>8, <1>9, <1>10, <1>11, <1>12
  DEF Next, PublisherStep, ReaderStep

-----------------------------------------------------------------------------
(* The publisher's half of the invariant.                                   *)

\* Every step of a reader leaves the slot alone, as does a stutter.
LEMMA OnlyPublisherWrites ==
  ASSUME [Next]_vars
  PROVE  PublisherStep \/ UNCHANGED writerVars
BY DEF Next, vars, ReaderStep, Call, LoadReady, PredictReady, LoadReadyLate,
       LoadBeforeOdd, LoadBeforeEven, CopyWord, LoadAfter

LEMMA WriterStep ==
  ASSUME TypeOK, WriterInv, [Next]_vars
  PROVE  WriterInv'
<1> USE DEF WriterInv, Frames, WriterPCs
<1>0. pubs \in Nat
  BY MaxPublishIsNat DEF TypeOK
<1>1. CASE BeginPublish
  BY <1>0, <1>1 DEF BeginPublish, TypeOK
<1>2. ASSUME NEW w \in Words, StoreWord(w)
      PROVE  WriterInv'
  <2>1. wpc = "storing" /\ desc' = [desc EXCEPT ![w] = pubs]
        /\ todo' = todo \ {w} /\ wpc' = (IF todo = {w} THEN "sealing" ELSE "storing")
        /\ UNCHANGED <<guard, ready, pubs>>
    BY <1>2 DEF StoreWord
  <2>2. \A v \in Words \ todo' : desc'[v] = pubs
    BY <2>1 DEF TypeOK
  <2>3. wpc' = "sealing" => todo' = {}
    BY <2>1
  <2>4. QED
    BY <1>0, <2>1, <2>2, <2>3
<1>3. CASE StoreEvenGuard
  BY <1>0, <1>3 DEF StoreEvenGuard, TypeOK
<1>4. CASE StoreReady
  BY <1>0, <1>4 DEF StoreReady, TypeOK
<1>5. CASE Crash
  BY <1>5 DEF Crash
<1>6. CASE UNCHANGED writerVars
  BY <1>6 DEF writerVars
<1>7. QED
  BY <1>1, <1>2, <1>3, <1>4, <1>5, <1>6, OnlyPublisherWrites DEF PublisherStep

-----------------------------------------------------------------------------
(* The readers' half: each reader against the publisher's steps, then        *)
(* against its own.                                                          *)

\* No step of the publisher moves the guard back, and while the guard keeps an
\* even value the descriptor keeps its words.
LEMMA PublisherMoves ==
  ASSUME TypeOK, WriterInv, PublisherStep \/ UNCHANGED writerVars
  PROVE  /\ guard =< guard'
         /\ ready = 1 => ready' = 1
<1> USE DEF TypeOK
<1>1. CASE BeginPublish
  BY <1>1 DEF BeginPublish
<1>2. ASSUME NEW w \in Words, StoreWord(w)
      PROVE  guard =< guard' /\ (ready = 1 => ready' = 1)
  BY <1>2 DEF StoreWord
<1>3. CASE StoreEvenGuard
  BY <1>3 DEF StoreEvenGuard
<1>4. CASE StoreReady
  BY <1>4 DEF StoreReady
<1>5. CASE Crash
  BY <1>5 DEF Crash
<1>6. CASE UNCHANGED writerVars
  BY <1>6 DEF writerVars
<1>7. QED
  BY <1>1, <1>2, <1>3, <1>4, <1>5, <1>6 DEF PublisherStep

LEMMA ReaderUnderPublisher ==
  ASSUME TypeOK, TypeOK', WriterInv, NEW r \in Readers, ReaderInv(r),
         PublisherStep, UNCHANGED <<loadOrder, readerVars>>
  PROVE  ReaderInv(r)'
<1>1. guard =< guard' /\ (ready = 1 => ready' = 1)
  BY PublisherMoves
<1>2. before[r] \in Nat /\ guard \in Nat /\ guard' \in Nat /\ atRest[r] \in Nat
  BY MaxPublishIsNat DEF TypeOK
<1>3. CopyInv(r)'
  BY <1>1, <1>2 DEF ReaderInv, CopyInv, readerVars
<1>4. ReadyInv(r)'
  BY <1>1 DEF ReaderInv, ReadyInv, readerVars
<1>5. RestInv(r)'
  BY <1>1, <1>2 DEF ReaderInv, RestInv, readerVars
<1>6. QED
  BY <1>3, <1>4, <1>5 DEF ReaderInv

\* What a failed try does to the reader that makes it.
LEMMA NextTryInv ==
  ASSUME TypeOK, NEW r \in Readers, NextTry(r),
         UNCHANGED <<writerVars, loadOrder, before, left, tmp, atRest>>,
         ReaderInv(r),
         loadOrder = "in_order" => ready = 1,
         atRest[r] > 0 => guard # atRest[r]
  PROVE  ReaderInv(r)'
<1>1. rpc'[r] \in {"before", "miss"}
  BY DEF NextTry, Goto, TypeOK
<1>2. CopyInv(r)'
  BY <1>1 DEF ReaderInv, CopyInv, writerVars
<1>3. ReadyInv(r)'
  BY <1>1 DEF ReaderInv, ReadyInv, writerVars
<1>4. RestInv(r)'
  BY <1>1 DEF ReaderInv, RestInv, writerVars
<1>5. QED
  BY <1>2, <1>3, <1>4 DEF ReaderInv

\* One step of reader r, by action.
LEMMA ReaderUnderItself ==
  ASSUME TypeOK, TypeOK', WriterInv, NEW r \in Readers, ReaderInv(r),
         (\E m \in RetryLimits : Call(r, m)) \/ ReaderStep(r)
  PROVE  ReaderInv(r)'
<1> USE DEF ReaderInv
<1>0. /\ guard \in Nat /\ before[r] \in Nat /\ pubs \in Nat /\ atRest[r] \in Nat
      /\ ~Odd(guard) => guard = 2 * pubs
      /\ wpc = "idle" => ~Odd(guard)
  BY MaxPublishIsNat, GuardParity DEF TypeOK, Frames
<1>1. ASSUME NEW m \in RetryLimits, Call(r, m)
      PROVE  ReaderInv(r)'
  <2>1. /\ rpc'[r] = "ready" /\ atRest'[r] = (IF wpc = "idle" THEN guard ELSE 0)
        /\ UNCHANGED <<writerVars, loadOrder, before, left, tmp>>
    BY <1>1 DEF Call, Goto, TypeOK
  <2>2. wpc = "idle" /\ guard > 0 => ready = 1
    BY <1>0 DEF WriterInv
  <2>3. CopyInv(r)'
    BY <2>1 DEF CopyInv, writerVars
  <2>4. ReadyInv(r)'
    BY <2>1 DEF ReadyInv
  <2>5. atRest'[r] > 0 => atRest'[r] = guard /\ wpc = "idle"
    BY <2>1
  <2>6. rpc'[r] = "ready" /\ guard' = guard /\ ready' = ready
    BY <2>1 DEF writerVars
  <2>7. RestInv(r)'
    BY <1>0, <2>2, <2>5, <2>6 DEF RestInv
  <2>8. QED
    BY <2>3, <2>4, <2>7
<1>2. CASE LoadReady(r)
  <2>1. /\ rpc'[r] = (IF ready = 0 THEN "miss" ELSE "before")
        /\ UNCHANGED <<writerVars, loadOrder, before, left, tmp, atRest>>
        /\ ready \in {0, 1} /\ loadOrder = "in_order"
    BY <1>2 DEF LoadReady, Goto, TypeOK
  <2>2. QED
    BY <1>0, <2>1 DEF CopyInv, ReadyInv, RestInv, writerVars
<1>3. CASE PredictReady(r)
  <2>1. /\ rpc'[r] = "before" /\ loadOrder # "in_order"
        /\ UNCHANGED <<writerVars, loadOrder, before, left, tmp, atRest>>
    BY <1>3 DEF PredictReady, Goto, TypeOK
  <2>2. QED
    BY <1>0, <2>1 DEF CopyInv, ReadyInv, RestInv, writerVars
<1>4. CASE LoadBeforeOdd(r)
  BY <1>0, <1>4, NextTryInv DEF LoadBeforeOdd, ReadyInv, RestInv
<1>5. CASE LoadBeforeEven(r)
  <2>1. /\ rpc[r] = "before" /\ rpc'[r] = "copy" /\ before'[r] = guard
        /\ left'[r] = Words /\ ~Odd(guard)
        /\ UNCHANGED <<writerVars, loadOrder, tmp, atRest>>
    BY <1>5 DEF LoadBeforeEven, Goto, TypeOK
  <2>2. CopyInv(r)'
    BY <1>0, <2>1 DEF CopyInv, writerVars
  <2>3. ReadyInv(r)'
    BY <1>0, <2>1 DEF ReadyInv, WriterInv, writerVars
  <2>4. RestInv(r)'
    BY <1>0, <2>1 DEF RestInv, writerVars
  <2>5. QED
    BY <2>2, <2>3, <2>4
<1>6. ASSUME NEW w \in Words, CopyWord(r, w)
      PROVE  ReaderInv(r)'
  <2>1. /\ rpc[r] = "copy" /\ w \in left[r]
        /\ rpc'[r] = (IF left[r] = {w} THEN "after" ELSE "copy")
        /\ left'[r] = left[r] \ {w}
        /\ tmp'[r] = [tmp[r] EXCEPT ![w] = desc[w]]
        /\ UNCHANGED <<writerVars, loadOrder, before, atRest>>
    BY <1>6 DEF CopyWord, Goto, TypeOK
  <2>2. ASSUME guard = before[r]
        PROVE  \A v \in Words \ left'[r] : 2 * tmp'[r][v] = before[r]
    <3>1. ~Odd(guard) /\ guard = 2 * pubs /\ wpc # "storing"
      BY <1>0, <2>2, GuardParity DEF CopyInv
    <3>2. 2 * desc[w] = before[r]
      BY <2>2, <3>1 DEF WriterInv
    <3>3. \A v \in Words \ left[r] : 2 * tmp[r][v] = before[r]
      BY <2>1, <2>2 DEF CopyInv
    <3>4. tmp[r] \in [Words -> Frames]
      BY DEF TypeOK
    <3>5. QED
      BY <2>1, <3>2, <3>3, <3>4
  <2>3. CopyInv(r)'
    BY <2>1, <2>2 DEF CopyInv, writerVars
  <2>4. ReadyInv(r)'
    BY <2>1 DEF ReadyInv, writerVars
  <2>5. /\ rpc'[r] \in {"copy", "after"}
        /\ guard' = guard /\ ready' = ready /\ before' = before /\ atRest' = atRest
    BY <2>1 DEF writerVars
  <2>6. RestInv(r)'
    BY <2>1, <2>5 DEF RestInv
  <2>7. QED
    BY <2>3, <2>4, <2>6
<1>7. CASE LoadAfter(r)
  <2>1. CASE guard = before[r]
    <3>1. /\ rpc[r] = "after"
          /\ rpc'[r] = (IF loadOrder = "late" THEN "lateReady" ELSE "hit")
          /\ UNCHANGED <<writerVars, loadOrder, before, left, tmp, atRest>>
      BY <1>7, <2>1 DEF LoadAfter, Goto, TypeOK
    <3>2. \A w \in Words : 2 * tmp[r][w] = before[r]
      BY <2>1, <3>1 DEF CopyInv
    <3>3. CopyInv(r)'
      BY <3>1, <3>2 DEF CopyInv, writerVars
    <3>4. ReadyInv(r)'
      BY <3>1, LoadOrdersOK DEF ReadyInv, TypeOK
    <3>5. RestInv(r)'
      BY <3>1 DEF RestInv, writerVars
    <3>6. QED
      BY <3>3, <3>4, <3>5
  <2>2. CASE guard # before[r]
    <3>1. atRest[r] > 0 => guard # atRest[r]
      BY <1>0, <1>7, <2>2 DEF LoadAfter, CopyInv, RestInv
    <3>2. loadOrder = "in_order" => ready = 1
      BY <1>7 DEF LoadAfter, ReadyInv
    <3>3. QED
      BY <1>7, <2>2, <3>1, <3>2, NextTryInv DEF LoadAfter
  <2>3. QED
    BY <2>1, <2>2
<1>8. CASE LoadReadyLate(r)
  <2>1. /\ rpc[r] = "lateReady" /\ rpc'[r] = (IF ready = 0 THEN "miss" ELSE "hit")
        /\ UNCHANGED <<writerVars, loadOrder, before, left, tmp, atRest>>
    BY <1>8 DEF LoadReadyLate, Goto, TypeOK
  <2>2. QED
    BY <2>1 DEF CopyInv, ReadyInv, RestInv, writerVars
<1>9. QED
  BY <1>1, <1>2, <1>3, <1>4, <1>5, <1>6, <1>7, <1>8 DEF ReaderStep

\* A reader's step changes nothing of another reader.
LEMMA ReaderUnderOther ==
  ASSUME TypeOK, NEW r \in Readers, NEW q \in Readers, q # r, ReaderInv(q),
         (\E m \in RetryLimits : Call(r, m)) \/ ReaderStep(r)
  PROVE  ReaderInv(q)'
<1>1. /\ rpc'[q] = rpc[q] /\ before'[q] = before[q] /\ left'[q] = left[q]
      /\ tmp'[q] = tmp[q] /\ atRest'[q] = atRest[q]
      /\ UNCHANGED <<writerVars, loadOrder>>
  BY DEF TypeOK, ReaderStep, Call, LoadReady, PredictReady, LoadReadyLate,
         LoadBeforeOdd, LoadBeforeEven, CopyWord, LoadAfter, NextTry, Goto
<1>2. QED
  BY <1>1 DEF ReaderInv, CopyInv, ReadyInv, RestInv, writerVars

-----------------------------------------------------------------------------
(* The invariant and what follows from it.                                  *)

LEMMA IInvInit ==
  ASSUME Init
  PROVE  IInv
<1>1. TypeOK
  BY TypeInit
<1>2. WriterInv
  BY DEF Init, WriterInv
<1>3. ASSUME NEW r \in Readers
      PROVE  ReaderInv(r)
  BY Parity DEF Init, ReaderInv, CopyInv, ReadyInv, RestInv, Odd
<1>4. QED
  BY <1>1, <1>2, <1>3 DEF IInv

LEMMA IInvStep ==
  ASSUME IInv, [Next]_vars
  PROVE  IInv'
<1> USE DEF IInv
<1>1. TypeOK' /\ WriterInv'
  BY TypeStep, WriterStep
<1>2. ASSUME NEW q \in Readers
      PROVE  ReaderInv(q)'
  <2>1. CASE PublisherStep
    <3>1. UNCHANGED <<loadOrder, readerVars>>
      BY <2>1 DEF PublisherStep, BeginPublish, StoreWord, StoreEvenGuard, StoreReady, Crash
    <3>2. QED
      BY <1>1, <2>1, <3>1, ReaderUnderPublisher
  <2>2. ASSUME NEW r \in Readers, (\E m \in RetryLimits : Call(r, m)) \/ ReaderStep(r)
        PROVE  ReaderInv(q)'
    BY <1>1, <2>2, ReaderUnderItself, ReaderUnderOther
  <2>3. CASE UNCHANGED vars
    BY <2>3 DEF vars, writerVars, readerVars, ReaderInv, CopyInv, ReadyInv, RestInv
  <2>4. QED
    BY <2>1, <2>2, <2>3 DEF Next
<1>3. QED
  BY <1>1, <1>2

\* The invariant holds throughout: the descriptor is whole whenever the guard
\* is even, and every copy made under an unchanged guard is one descriptor.
THEOREM Invariance == Spec => []IInv
<1>1. Init => IInv
  BY IInvInit
<1>2. IInv /\ [Next]_vars => IInv'
  BY IInvStep
<1>3. QED
  BY <1>1, <1>2, PTL DEF Spec

\* Every variable of the slot and of the readers keeps its type; the guard
\* never passes twice the number of publishes.
THEOREM TypeCorrectness == Spec => []TypeOK
<1>1. IInv => TypeOK
  BY DEF IInv
<1>2. QED
  BY <1>1, Invariance, PTL

\* No reader ever returns a mixture of two descriptors, whatever the order in
\* which words are stored and copied, and wherever the publisher stops.
THEOREM NoTornReads == Spec => []NoTornRead
<1>1. IInv => NoTornRead
  <2>1. ASSUME IInv, NEW r \in Readers, rpc[r] = "hit", NEW v \in Words, NEW w \in Words
        PROVE  tmp[r][v] = tmp[r][w]
    <3>1. 2 * tmp[r][v] = before[r] /\ 2 * tmp[r][w] = before[r]
      BY <2>1 DEF IInv, ReaderInv, CopyInv
    <3>2. tmp[r][v] \in Nat /\ tmp[r][w] \in Nat
      BY <2>1, MaxPublishIsNat DEF IInv, TypeOK, Frames
    <3>3. QED
      BY <3>1, <3>2
  <2>2. QED
    BY <2>1 DEF NoTornRead
<1>2. QED
  BY <1>1, Invariance, PTL

\* On a CPU that performs loads in order a hit is a descriptor some publish
\* stored, never the zeroed slot.
THEOREM HitsArePublished == Spec => []HitIsPublished
<1>1. IInv => HitIsPublished
  <2>1. ASSUME IInv, loadOrder = "in_order", NEW r \in Readers, rpc[r] = "hit",
               NEW w \in Words
        PROVE  tmp[r][w] > 0
    <3>1. before[r] > 0 /\ 2 * tmp[r][w] = before[r]
      BY <2>1 DEF IInv, ReaderInv, CopyInv, ReadyInv
    <3>2. tmp[r][w] \in Nat
      BY <2>1, MaxPublishIsNat DEF IInv, TypeOK, Frames
    <3>3. QED
      BY <3>1, <3>2
  <2>2. QED
    BY <2>1 DEF HitIsPublished
<1>2. QED
  BY <1>1, Invariance, PTL

\* A read of a slot at rest fails only if a publish begins during the read.
THEOREM MissesNeedWriter == Spec => []MissNeedsWriter
<1>1. IInv => MissNeedsWriter
  BY DEF IInv, ReaderInv, RestInv, MissNeedsWriter
<1>2. QED
  BY <1>1, Invariance, PTL

-----------------------------------------------------------------------------
(* The slot implements the atomic register of module LatestRegister.         *)

\* Half of an even guard is the number of the publish it counts.
LEMMA Halves ==
  ASSUME NEW n \in Nat
  PROVE  (2 * n) \div 2 = n
OBVIOUS

LEMMA WordExists == SomeWord \in Words
BY WordsNonEmpty DEF SomeWord

LEMMA RegisterInit ==
  ASSUME Init
  PROVE  Register!Init
<1>1. latestFrame = 0
  BY DEF Init, latestFrame
<1>2. phaseOfRead = [r \in Readers |-> "idle"]
  BY DEF Init, phaseOfRead, PhaseOf, Returned
<1>3. sampleOfRead = [r \in Readers |-> 0]
  BY Halves DEF Init, sampleOfRead
<1>4. frameOfRead = [r \in Readers |-> 0]
  BY DEF Init, frameOfRead
<1>5. QED
  BY <1>1, <1>2, <1>3, <1>4 DEF Register!Init

\* The even guard is the register's Publish; no other store shows.
LEMMA RegisterUnderPublisher ==
  ASSUME IInv, IInv', PublisherStep
  PROVE  Register!Publish \/ UNCHANGED Register!vars
<1>1. UNCHANGED <<phaseOfRead, sampleOfRead, frameOfRead>>
  BY DEF PublisherStep, BeginPublish, StoreWord, StoreEvenGuard, StoreReady, Crash,
         readerVars, phaseOfRead, sampleOfRead, frameOfRead
<1>2. /\ pubs \in Nat /\ guard \in Nat /\ pubs =< MaxPublish
      /\ WriterInv
  BY MaxPublishIsNat DEF IInv, TypeOK, Frames
<1>3. CASE StoreEvenGuard
  <2>1. guard = 2 * pubs - 1 /\ guard' = 2 * pubs' /\ pubs' = pubs
    BY <1>2, <1>3 DEF StoreEvenGuard, WriterInv
  <2>2. latestFrame = pubs - 1 /\ latestFrame' = pubs
    BY <1>2, <2>1 DEF latestFrame
  <2>3. QED
    BY <1>1, <1>2, <2>2, MaxPublishIsNat DEF Register!Publish
<1>4. CASE BeginPublish
  <2>1. guard = 2 * pubs /\ guard' = guard + 1 /\ pubs' = pubs + 1
    BY <1>2, <1>4 DEF BeginPublish, WriterInv
  <2>2. latestFrame' = latestFrame
    BY <1>2, <2>1 DEF latestFrame
  <2>3. QED
    BY <1>1, <2>2 DEF Register!vars
<1>5. CASE StoreReady \/ Crash \/ \E w \in Words : StoreWord(w)
  <2>1. guard' = guard /\ pubs' = pubs
    BY <1>5 DEF StoreReady, Crash, StoreWord
  <2>2. QED
    BY <1>1, <2>1 DEF Register!vars, latestFrame
<1>6. QED
  BY <1>3, <1>4, <1>5 DEF PublisherStep

\* A reader's step changes the register's view of that reader alone.
LEMMA RegisterView ==
  ASSUME IInv, IInv', NEW r \in Readers,
         (\E m \in RetryLimits : Call(r, m)) \/ ReaderStep(r)
  PROVE  /\ latestFrame' = latestFrame
         /\ phaseOfRead' = [phaseOfRead EXCEPT ![r] = PhaseOf(rpc'[r])]
         /\ sampleOfRead' = [sampleOfRead EXCEPT ![r] = before'[r] \div 2]
         /\ frameOfRead' = [frameOfRead EXCEPT
              ![r] = IF rpc'[r] = "hit" THEN tmp'[r][SomeWord] ELSE 0]
<1>1. /\ UNCHANGED writerVars
      /\ \A q \in Readers \ {r} : /\ rpc'[q] = rpc[q] /\ before'[q] = before[q]
                                  /\ tmp'[q] = tmp[q]
  BY DEF IInv, TypeOK, ReaderStep, Call, LoadReady, PredictReady, LoadReadyLate,
         LoadBeforeOdd, LoadBeforeEven, CopyWord, LoadAfter, NextTry, Goto
<1>2. latestFrame' = latestFrame
  BY <1>1 DEF writerVars, latestFrame
<1>3. phaseOfRead' = [phaseOfRead EXCEPT ![r] = PhaseOf(rpc'[r])]
  BY <1>1 DEF phaseOfRead
<1>4. sampleOfRead' = [sampleOfRead EXCEPT ![r] = before'[r] \div 2]
  BY <1>1 DEF sampleOfRead
<1>5. frameOfRead' = [frameOfRead EXCEPT
              ![r] = IF rpc'[r] = "hit" THEN tmp'[r][SomeWord] ELSE 0]
  BY <1>1 DEF frameOfRead
<1>6. QED
  BY <1>2, <1>3, <1>4, <1>5

\* Loading an even guard is the instant the read takes effect, if the guard is
\* still the same when the copy is done.
LEMMA RegisterUnderReader ==
  ASSUME IInv, IInv', NEW r \in Readers,
         (\E m \in RetryLimits : Call(r, m)) \/ ReaderStep(r)
  PROVE  (\E q \in Readers : \/ Register!Call(q) \/ Register!Sample(q)
                             \/ Register!Discard(q) \/ Register!Hit(q)
                             \/ Register!Miss(q))
         \/ UNCHANGED Register!vars
<1> DEFINE Done == (\E q \in Readers : \/ Register!Call(q) \/ Register!Sample(q)
                                       \/ Register!Discard(q) \/ Register!Hit(q)
                                       \/ Register!Miss(q))
                   \/ UNCHANGED Register!vars
<1>1. /\ latestFrame' = latestFrame
      /\ phaseOfRead' = [phaseOfRead EXCEPT ![r] = PhaseOf(rpc'[r])]
      /\ sampleOfRead' = [sampleOfRead EXCEPT ![r] = before'[r] \div 2]
      /\ frameOfRead' = [frameOfRead EXCEPT
           ![r] = IF rpc'[r] = "hit" THEN tmp'[r][SomeWord] ELSE 0]
  BY RegisterView
<1>2. /\ phaseOfRead[r] = PhaseOf(rpc[r])
      /\ sampleOfRead[r] = before[r] \div 2
      /\ frameOfRead[r] = IF rpc[r] = "hit" THEN tmp[r][SomeWord] ELSE 0
  BY DEF phaseOfRead, sampleOfRead, frameOfRead
<1>3. /\ phaseOfRead = [phaseOfRead EXCEPT ![r] = phaseOfRead[r]]
      /\ sampleOfRead = [sampleOfRead EXCEPT ![r] = sampleOfRead[r]]
      /\ frameOfRead = [frameOfRead EXCEPT ![r] = frameOfRead[r]]
  BY DEF phaseOfRead, sampleOfRead, frameOfRead
<1>4. /\ PhaseOf("idle") = "idle" /\ PhaseOf("hit") = "hit" /\ PhaseOf("miss") = "miss"
      /\ PhaseOf("ready") = "called" /\ PhaseOf("before") = "called"
      /\ PhaseOf("copy") = "sampled" /\ PhaseOf("after") = "sampled"
      /\ PhaseOf("lateReady") = "sampled"
  BY DEF PhaseOf, Returned
\* A step that keeps the phase, and takes no sample, is a stutter.
<1>5. ASSUME PhaseOf(rpc'[r]) = PhaseOf(rpc[r]), before'[r] = before[r],
             rpc[r] # "hit", rpc'[r] # "hit"
      PROVE  Done
  BY <1>1, <1>2, <1>3, <1>5 DEF Register!vars
\* A step that ends the call or the try.
<1>6. ASSUME PhaseOf(rpc[r]) \in {"called", "sampled"}, rpc'[r] = "miss",
             before'[r] = before[r]
      PROVE  Done
  <2>1. phaseOfRead' = [phaseOfRead EXCEPT ![r] = "miss"]
        /\ UNCHANGED <<latestFrame, sampleOfRead, frameOfRead>>
    BY <1>1, <1>2, <1>3, <1>4, <1>6
  <2>2. Register!Miss(r)
    BY <1>2, <1>6, <2>1 DEF Register!Miss
  <2>3. QED
    BY <2>2
<1>7. ASSUME rpc[r] = "after", rpc'[r] = "before", before'[r] = before[r]
      PROVE  Done
  <2>1. phaseOfRead' = [phaseOfRead EXCEPT ![r] = "called"]
        /\ UNCHANGED <<latestFrame, sampleOfRead, frameOfRead>>
    BY <1>1, <1>2, <1>3, <1>4, <1>7
  <2>2. Register!Discard(r)
    BY <1>2, <1>4, <1>7, <2>1 DEF Register!Discard
  <2>3. QED
    BY <2>2
<1>8. ASSUME rpc[r] \in {"after", "lateReady"}, rpc'[r] = "hit",
             before'[r] = before[r]
      PROVE  Done
  <2>1. before'[r] \div 2 = tmp'[r][SomeWord]
    <3>1. 2 * tmp'[r][SomeWord] = before'[r]
      BY <1>8, WordExists DEF IInv, ReaderInv, CopyInv
    <3>2. tmp'[r][SomeWord] \in Nat
      BY WordExists, MaxPublishIsNat DEF IInv, TypeOK, Frames
    <3>3. QED
      BY <3>1, <3>2, Halves
  <2>2. phaseOfRead' = [phaseOfRead EXCEPT ![r] = "hit"]
        /\ frameOfRead' = [frameOfRead EXCEPT ![r] = sampleOfRead[r]]
        /\ UNCHANGED <<latestFrame, sampleOfRead>>
    BY <1>1, <1>2, <1>3, <1>4, <1>8, <2>1
  <2>3. Register!Hit(r)
    BY <1>2, <1>4, <1>8, <2>2 DEF Register!Hit
  <2>4. QED
    BY <2>3
<1>9. CASE \E m \in RetryLimits : Call(r, m)
  <2>1. rpc[r] \in Returned /\ rpc'[r] = "ready" /\ before' = before
    BY <1>9 DEF Call, Goto, IInv, TypeOK
  <2>2. phaseOfRead' = [phaseOfRead EXCEPT ![r] = "called"]
        /\ frameOfRead' = [frameOfRead EXCEPT ![r] = 0]
        /\ UNCHANGED <<latestFrame, sampleOfRead>>
    BY <1>1, <1>2, <1>3, <1>4, <2>1
  <2>3. phaseOfRead[r] \in Register!Returned
    BY <1>2, <2>1 DEF PhaseOf, Returned, Register!Returned
  <2>4. Register!Call(r)
    BY <2>2, <2>3 DEF Register!Call
  <2>5. QED
    BY <2>4
<1>10. CASE LoadReady(r) \/ PredictReady(r) \/ LoadReadyLate(r)
  <2>1. /\ before' = before
        /\ \/ rpc[r] = "ready" /\ rpc'[r] \in {"miss", "before"}
           \/ rpc[r] = "lateReady" /\ rpc'[r] \in {"miss", "hit"}
    BY <1>10 DEF LoadReady, PredictReady, LoadReadyLate, Goto, IInv, TypeOK
  <2>2. QED
    BY <1>4, <1>5, <1>6, <1>8, <2>1
<1>11. CASE LoadBeforeOdd(r)
  <2>1. before' = before /\ rpc[r] = "before" /\ rpc'[r] \in {"miss", "before"}
    BY <1>11 DEF LoadBeforeOdd, NextTry, Goto, IInv, TypeOK
  <2>2. QED
    BY <1>4, <1>5, <1>6, <2>1
<1>12. CASE LoadBeforeEven(r)
  <2>1. /\ rpc[r] = "before" /\ rpc'[r] = "copy" /\ before'[r] = guard /\ ~Odd(guard)
    BY <1>12 DEF LoadBeforeEven, Goto, IInv, TypeOK
  <2>2. guard = 2 * pubs /\ pubs \in Nat
    BY <2>1, GuardParity, MaxPublishIsNat DEF IInv, TypeOK, Frames
  <2>3. latestFrame = pubs /\ before'[r] \div 2 = pubs
    BY <2>1, <2>2, Halves DEF latestFrame
  <2>4. phaseOfRead' = [phaseOfRead EXCEPT ![r] = "sampled"]
        /\ sampleOfRead' = [sampleOfRead EXCEPT ![r] = latestFrame]
        /\ UNCHANGED <<latestFrame, frameOfRead>>
    BY <1>1, <1>2, <1>3, <1>4, <2>1, <2>3
  <2>5. Register!Sample(r)
    BY <1>2, <1>4, <2>1, <2>4 DEF Register!Sample
  <2>6. QED
    BY <2>5
<1>13. CASE \E w \in Words : CopyWord(r, w)
  <2>1. before' = before /\ rpc[r] = "copy" /\ rpc'[r] \in {"copy", "after"}
    BY <1>13 DEF CopyWord, Goto, IInv, TypeOK
  <2>2. QED
    BY <1>4, <1>5, <2>1
<1>14. CASE LoadAfter(r)
  <2>1. /\ before' = before /\ rpc[r] = "after"
        /\ rpc'[r] \in {"lateReady", "hit", "before", "miss"}
    BY <1>14 DEF LoadAfter, NextTry, Goto, IInv, TypeOK
  <2>2. QED
    BY <1>4, <1>5, <1>6, <1>7, <1>8, <2>1
<1>15. QED
  BY <1>9, <1>10, <1>11, <1>12, <1>13, <1>14 DEF ReaderStep

\* Every behaviour of the slot and its readers is a behaviour of the register
\* that the metadata plane promises: a hit returns the frame that was newest
\* when its last even guard was loaded.
THEOREM ImplementsRegister == Spec => IsLatestRegister
<1>1. Init => Register!Init
  BY RegisterInit
<1>2. ASSUME IInv, IInv', [Next]_vars
      PROVE  [Register!Next]_(Register!vars)
  <2>1. CASE PublisherStep
    BY <1>2, <2>1, RegisterUnderPublisher DEF Register!Next
  <2>2. ASSUME NEW r \in Readers, (\E m \in RetryLimits : Call(r, m)) \/ ReaderStep(r)
        PROVE  [Register!Next]_(Register!vars)
    BY <1>2, <2>2, RegisterUnderReader DEF Register!Next
  <2>3. CASE UNCHANGED vars
    BY <2>3 DEF vars, writerVars, readerVars, Register!vars, latestFrame,
                phaseOfRead, sampleOfRead, frameOfRead
  <2>4. QED
    BY <1>2, <2>1, <2>2, <2>3 DEF Next
<1>3. QED
  BY <1>1, <1>2, Invariance, PTL DEF Spec, IsLatestRegister, Register!Spec
=============================================================================
