--------------------------- MODULE TensorPoolProofs ---------------------------
(* Proofs about pools.  First module TensorPool, for every set of backends, *)
(* every number of buffers, generations and holders; then OffloadStream,    *)
(* the applications that read a pool beside a channel of their own, for     *)
(* every ring, frame size, queue and number of producers.                   *)
EXTENDS TensorPool, OffloadStream, WellFoundedInduction, TLAPS

-----------------------------------------------------------------------------
(* The inductive invariants.                                                *)

\* What each phase of the pool's life has made.  Flags and shared descriptors
\* are there only while the pool is ready, and then for all buffers or for none.
PhaseInv ==
  /\ pc \in {"none", "device"} => bufs = 0 /\ ~v4l2
  /\ pc = "none" => gen = 1
  /\ pc = "device" => backend \in {"UDMABUF", "V4L2"}
  /\ cudaView \subseteq 0..(bufs - 1)
  /\ inUse \subseteq 0..(bufs - 1)
  /\ IF pc = "ready" THEN bufs \in {0, NBuffers} /\ shared = 0..(bufs - 1)
                     ELSE shared = {} /\ inUse = {}

\* Two leases of one buffer, after a stale release only.
InHandOnce ==
  \A c, d \in Holders :
    c # d /\ lease[c] = lease[d] /\ lease[c] # NoLease => lease[c] \in stale

\* A lease is of a generation that was ready.  One of the present generation has
\* its flag set, unless a release() of an older generation has cleared it.
LeaseInv ==
  /\ \A c \in Holders : lease[c] # NoLease =>
       /\ lease[c][1] =< gen
       /\ lease[c][1] = gen => /\ pc = "ready"
                               /\ lease[c][2] \in inUse \/ lease[c] \in stale
  /\ InHandOnce

\* A raised flag is that of a lease of the present generation.
FlagInv == \A i \in inUse : \E c \in Holders : lease[c] = <<gen, i>>

\* Buffers that the search of acquire_next() looks at before buffer i.
Ahead(i) == IF i >= head THEN i - head ELSE i - head + NBuffers
\* Each buffer handed out past a free one brings the search nearer to it.
RoundInv ==
  \A i \in shared : IF i \in inUse THEN passed[i] = 0 ELSE passed[i] + Ahead(i) < NBuffers

\* The subscriber imports buffers of the handshake.
ImportInv == \A x \in imported : x[2] \in Indexes

IInv == PoolTypeOK /\ PhaseInv /\ LeaseInv /\ FlagInv /\ RoundInv /\ ImportInv
        /\ OwnerHoldsItsPool /\ SubscriberHoldsItsViews

-----------------------------------------------------------------------------
(* Numbers                                                                  *)

LEMMA Constants ==
  /\ NBuffers \in Nat /\ NBuffers >= 1 /\ MaxGen \in Nat /\ MaxGen >= 1
  /\ 0 \in Indexes /\ 1 \in Gens /\ Gens \subseteq Nat /\ Indexes \subseteq Nat
  BY PoolBoundsArePositive DEF Gens, Indexes

LEMMA LessThanWellFounded == IsWellFoundedOn({ss \in Nat \X Nat : ss[1] < ss[2]}, Nat)
  BY NatLessThanWellFounded DEF OpToRel

LEMMA MinOfNaturals ==
  ASSUME NEW T \in SUBSET Nat, T # {}
  PROVE  Min(T) \in T /\ \A y \in T : Min(T) =< y
<1> DEFINE R == {ss \in Nat \X Nat : ss[1] < ss[2]}
<1>1. IsWellFoundedOn(R, Nat)
  BY LessThanWellFounded
<1>2. PICK x \in T : \A y \in T : ~(<<y, x>> \in R)
  <2> HIDE DEF R
  <2> QED
    BY <1>1, WFMin
<1>3. ASSUME NEW y \in T PROVE x =< y
  <2>1. <<y, x>> \in Nat \X Nat /\ <<y, x>>[1] = y /\ <<y, x>>[2] = x
    OBVIOUS
  <2>2. ~(y < x)
    BY <1>2, <2>1
  <2> QED
    BY <2>2
<1> QED
  BY <1>3 DEF Min

\* One step of at most n round a ring of n places.
LEMMA RoundTheRing ==
  ASSUME NEW n \in Nat, NEW h \in 0..(n - 1), NEW k \in 0..n
  PROVE  (h + k) % n = IF h + k < n THEN h + k ELSE h + k - n
<1>1. CASE h + k < n
  BY <1>1
<1>2. CASE h + k >= n
  <2> DEFINE r == h + k - n
  <2>1. r \in 0..(n - 1) /\ h + k = r + n
    BY <1>2
  <2>2. (r + n) % n = r
    BY <2>1
  <2> QED
    BY <1>2, <2>1, <2>2
<1> QED
  BY <1>1, <1>2

\* Where the search of acquire_next() looks after k others is the place of which
\* k others are ahead.
LEMMA AheadIsDistance ==
  ASSUME NEW n \in Nat, NEW h \in 0..(n - 1), NEW i \in 0..(n - 1),
         NEW a, a = IF i >= h THEN i - h ELSE i - h + n
  PROVE  a \in 0..(n - 1) /\ (h + a) % n = i
<1>1. a \in 0..(n - 1) /\ h + a = IF i >= h THEN i ELSE i + n
  OBVIOUS
<1> QED
  BY <1>1, RoundTheRing

-----------------------------------------------------------------------------
(* The calls of the backends                                                *)

BackendNames == {"Custom", "UDMABUF", "V4L2", "Accelerator", "NvBufSurface"}

\* Each error path gives back what the calls before the failing one have made.
LEMMA ErrorPathsUndo ==
  ASSUME NEW b \in BackendNames, NEW k \in 1..Len(Calls[b])
  PROVE  Before(Calls[b], k) = Undone(Calls[b][k])
<1>1. CASE b = "Custom"
  <2>1. Calls[b] = <<"memfd", "seal">> /\ k \in {1, 2}
    BY <1>1 DEF Calls
  <2>2. CASE k = 1
    BY <2>1, <2>2 DEF Before, Undone, Idle
  <2>3. CASE k = 2
    BY <2>1, <2>3 DEF Before, Undone, Idle
  <2> QED
    BY <2>1, <2>2, <2>3
<1>2. CASE b = "UDMABUF"
  <2>1. Calls[b] = <<"memfd", "seal", "dmabuf">> /\ k \in {1, 2, 3}
    BY <1>2 DEF Calls
  <2>2. CASE k = 1
    BY <2>1, <2>2 DEF Before, Undone, Idle
  <2>3. CASE k = 2
    BY <2>1, <2>3 DEF Before, Undone, Idle
  <2>4. CASE k = 3
    BY <2>1, <2>4 DEF Before, Undone, Idle
  <2> QED
    BY <2>1, <2>2, <2>3, <2>4
<1>3. CASE b = "V4L2"
  <2>1. Calls[b] = <<"expbuf">> /\ k = 1
    BY <1>3 DEF Calls
  <2> QED
    BY <2>1 DEF Before, Undone, Idle
<1>4. CASE b = "Accelerator"
  <2>1. Calls[b] = <<"handle", "range", "map", "access", "export">> /\ k \in {1, 2, 3, 4, 5}
    BY <1>4 DEF Calls
  <2>2. CASE k = 1
    BY <2>1, <2>2 DEF Before, Undone, Idle
  <2>3. CASE k = 2
    BY <2>1, <2>3 DEF Before, Undone, Idle
  <2>4. CASE k = 3
    BY <2>1, <2>4 DEF Before, Undone, Idle
  <2>5. CASE k = 4
    BY <2>1, <2>5 DEF Before, Undone, Idle
  <2>6. CASE k = 5
    BY <2>1, <2>6 DEF Before, Undone, Idle
  <2> QED
    BY <2>1, <2>2, <2>3, <2>4, <2>5, <2>6
<1>5. CASE b = "NvBufSurface"
  <2>1. Calls[b] = <<"surface">> /\ k = 1
    BY <1>5 DEF Calls
  <2> QED
    BY <2>1 DEF Before, Undone, Idle
<1> QED
  BY <1>1, <1>2, <1>3, <1>4, <1>5 DEF BackendNames

LEMMA ImportPathsUndo ==
  /\ \A k \in 1..Len(AccelImport) : Before(AccelImport, k) = Undone(AccelImport[k])
  /\ \A k \in 1..Len(CudaCalls) : Before(CudaCalls, k) = Undone(CudaCalls[k])
<1>1. ASSUME NEW k \in 1..Len(AccelImport)
      PROVE  Before(AccelImport, k) = Undone(AccelImport[k])
  <2>1. k \in {1, 2, 3, 4}
    BY DEF AccelImport
  <2>2. CASE k = 1
    BY <2>2 DEF AccelImport, Before, Undone, Idle
  <2>3. CASE k = 2
    BY <2>3 DEF AccelImport, Before, Undone, Idle
  <2>4. CASE k = 3
    BY <2>4 DEF AccelImport, Before, Undone, Idle
  <2>5. CASE k = 4
    BY <2>5 DEF AccelImport, Before, Undone, Idle
  <2> QED
    BY <2>1, <2>2, <2>3, <2>4, <2>5
<1>2. ASSUME NEW k \in 1..Len(CudaCalls)
      PROVE  Before(CudaCalls, k) = Undone(CudaCalls[k])
  <2>1. k \in {1, 2, 3}
    BY DEF CudaCalls
  <2>2. CASE k = 1
    BY <2>2 DEF CudaCalls, Before, Undone, Idle
  <2>3. CASE k = 2
    BY <2>3 DEF CudaCalls, Before, Undone, Idle
  <2>4. CASE k = 3
    BY <2>4 DEF CudaCalls, Before, Undone, Idle
  <2> QED
    BY <2>1, <2>2, <2>3, <2>4
<1> QED
  BY <1>1, <1>2

LEMMA FinishedCalls ==
  /\ AllOf(AccelImport) = {"handle", "range", "map"}
  /\ AllOf(NvBufImport) = {"dup", "surface"}
  /\ Before(NvBufImport, 1) = {} /\ Before(NvBufImport, 2) = {"dup"}
  /\ AllOf(CudaCalls) = {"egl", "register"}
  /\ AllOf(Calls["NvBufSurface"]) = {"surface"}
  /\ AllOf(Calls["UDMABUF"]) = {"memfd", "dmabuf"}
  BY DEF AllOf, Before, Idle, AccelImport, NvBufImport, CudaCalls, Calls

-----------------------------------------------------------------------------
(* Types and phases                                                         *)

OwnTyped == /\ backend \in Backends /\ gen \in Gens
            /\ pc \in {"none", "device", "buffer", "params", "ready"}
            /\ bufs \in 0..NBuffers /\ v4l2 \in BOOLEAN
            /\ cudaView \subseteq Indexes /\ cudaFail \subseteq Indexes
            /\ shared \subseteq Indexes /\ misclosed \in BOOLEAN
RingTyped == /\ inUse \subseteq Indexes /\ head \in Indexes
             /\ lease \in [Holders -> {NoLease} \cup (Gens \X Indexes)]
             /\ passed \in [Indexes -> Nat]
ImportTyped == /\ attached \in [gen : 0..MaxGen, backend : Backends \cup {"none"}]
               /\ nextView \in 0..NBuffers /\ misfreed \in BOOLEAN

LEMMA TypeParts == PoolTypeOK <=> OwnTyped /\ RingTyped /\ ImportTyped
  BY DEF PoolTypeOK, OwnTyped, RingTyped, ImportTyped

LEMMA TypePartsPrime == PoolTypeOK' <=> OwnTyped' /\ RingTyped' /\ ImportTyped'
  BY DEF PoolTypeOK, OwnTyped, RingTyped, ImportTyped

\* The buffer acquire_next() returns is free, and no free one is nearer to head.
LEMMA Found ==
  ASSUME OwnTyped, RingTyped, PhaseInv, pc = "ready", bufs > 0, FreeAhead # {}
  PROVE  /\ bufs = NBuffers /\ shared = Indexes
         /\ NextFree \in Indexes \ inUse
         /\ \E k \in FreeAhead : NextFree = (head + k) % NBuffers /\ \A j \in FreeAhead : k =< j
         /\ (NextFree + 1) % bufs = (IF NextFree + 1 < NBuffers THEN NextFree + 1 ELSE 0)
         /\ (NextFree + 1) % bufs \in Indexes
<1>1. bufs = NBuffers /\ shared = Indexes
  BY Constants DEF PhaseInv, OwnTyped, Indexes
<1>2. FreeAhead \in SUBSET Nat /\ FreeAhead \subseteq Indexes
  BY <1>1, Constants DEF FreeAhead, Indexes
<1> PICK k : k = Min(FreeAhead)
  OBVIOUS
<1>3. k \in FreeAhead /\ \A j \in FreeAhead : k =< j
  BY <1>2, MinOfNaturals
<1> PICK n : n = NextFree
  OBVIOUS
<1>4. n = (head + k) % NBuffers
  BY <1>1 DEF NextFree
<1>5. head \in 0..(NBuffers - 1) /\ k \in 0..(NBuffers - 1)
  BY <1>2, <1>3 DEF RingTyped, Indexes
<1>6. n \in Indexes
  <2>1. k \in 0..NBuffers
    BY <1>5, Constants
  <2>2. n = IF head + k < NBuffers THEN head + k ELSE head + k - NBuffers
    BY <1>4, <1>5, <2>1, RoundTheRing, Constants
  <2>3. n \in 0..(NBuffers - 1)
    BY <1>5, <2>2, Constants
  <2> QED
    BY <2>3 DEF Indexes
<1>7. n \notin inUse
  BY <1>1, <1>3, <1>4 DEF FreeAhead
<1>8. (n + 1) % NBuffers = (IF n + 1 < NBuffers THEN n + 1 ELSE 0)
  <2>1. n \in 0..(NBuffers - 1) /\ 1 \in 0..NBuffers
    BY <1>6, Constants DEF Indexes
  <2>2. (n + 1) % NBuffers = IF n + 1 < NBuffers THEN n + 1 ELSE n + 1 - NBuffers
    BY <2>1, RoundTheRing, Constants
  <2> QED
    BY <2>1, <2>2, Constants
<1>9. (n + 1) % NBuffers \in Indexes
  BY <1>6, <1>8, Constants DEF Indexes
<1> QED
  BY <1>1, <1>3, <1>4, <1>6, <1>7, <1>8, <1>9

LEMMA InitTyped == PoolInit => PoolTypeOK
<1> SUFFICES ASSUME PoolInit PROVE OwnTyped /\ RingTyped /\ ImportTyped
  BY TypeParts
<1>0. 0 \in 0..NBuffers /\ 0 \in 0..MaxGen
  BY Constants
<1>1. OwnTyped
  BY <1>0, Constants DEF PoolInit, OwnTyped
<1>2. RingTyped
  BY Constants DEF PoolInit, RingTyped
<1>3. ImportTyped
  BY <1>0 DEF PoolInit, ImportTyped, Nowhere
<1> QED
  BY <1>1, <1>2, <1>3

\* A step of free_all() leaves nothing behind.
LEMMA EmptiedTyped == Emptied => /\ bufs' \in 0..NBuffers /\ v4l2' \in BOOLEAN
                                 /\ cudaView' \subseteq Indexes /\ cudaFail' \subseteq Indexes
                                 /\ shared' \subseteq Indexes /\ inUse' \subseteq Indexes
<1>1. 0 \in 0..NBuffers
  BY Constants
<1> QED
  BY <1>1 DEF Emptied

\* The four imports as one step of the attachment.
ImportStep == ImportHost \/ ImportAccel \/ ImportNvBuf
LEMMA ImportSteps ==
  ASSUME ImportStep
  PROVE  \E kinds, calls : Import(kinds, calls)
  BY DEF ImportStep, ImportHost, ImportAccel, ImportNvBuf

LEMMA StepTyped == PoolTypeOK /\ PhaseInv /\ ImportInv /\ [PoolNext]_poolVars => PoolTypeOK'
<1> SUFFICES ASSUME PoolTypeOK, PhaseInv, ImportInv, [PoolNext]_poolVars
             PROVE  OwnTyped' /\ RingTyped' /\ ImportTyped'
  BY TypePartsPrime
<1>0. OwnTyped /\ RingTyped /\ ImportTyped
  BY TypeParts
<1>o. UNCHANGED ownVars => OwnTyped'
  BY <1>0 DEF ownVars, OwnTyped
<1>r. UNCHANGED <<inUse, head, lease, passed>> => RingTyped'
  BY <1>0 DEF RingTyped
<1>i. UNCHANGED importVars => ImportTyped'
  BY <1>0 DEF importVars, ImportTyped
<1>g. misclosed' \in BOOLEAN /\ UNCHANGED <<backend, gen>> /\ Emptied
      /\ pc' \in {"none", "ready"} => OwnTyped'
  BY <1>0, EmptiedTyped DEF OwnTyped
<1>1. ASSUME NEW b \in Backends, Create(b) PROVE OwnTyped' /\ RingTyped' /\ ImportTyped'
  <2>1. OwnTyped'
    BY <1>0, <1>1, Constants DEF Create, FirstStep, OwnTyped
  <2> QED
    BY <1>1, <1>r, <1>i, <2>1 DEF Create, ringVars
<1>2. ASSUME NEW u, FailAllocation(u) PROVE OwnTyped' /\ RingTyped' /\ ImportTyped'
  <2>1. OwnTyped'
    BY <1>g, <1>2 DEF FailAllocation, GiveBack
  <2>2. RingTyped'
    BY <1>0, <1>2, EmptiedTyped DEF FailAllocation, RingTyped
  <2> QED
    BY <1>2, <1>i, <2>1, <2>2 DEF FailAllocation
<1>3. CASE OpenDevice
  <2>1. CASE FailAllocation({})
    BY <1>2, <2>1
  <2>2. CASE ~FailAllocation({})
    <3>1. OwnTyped'
      BY <1>0, <1>3, <2>2 DEF OpenDevice, OwnTyped
    <3> QED
      BY <1>3, <1>r, <1>i, <2>2, <3>1 DEF OpenDevice, ringVars
  <2> QED
    BY <2>1, <2>2
<1>4. CASE DeviceRefuses \/ FailImportParams
  BY <1>2, <1>4 DEF DeviceRefuses, FailImportParams
<1>5. CASE MakeBuffer
  <2>1. bufs + 1 \in 0..NBuffers
    BY <1>0, <1>5, Constants DEF MakeBuffer, OwnTyped
  <2>2. OwnTyped'
    BY <1>0, <1>5, <2>1 DEF MakeBuffer, OwnTyped
  <2> QED
    BY <1>5, <1>r, <1>i, <2>2 DEF MakeBuffer, ringVars
<1>6. CASE FailBuffer
  <2>1. misclosed' \in BOOLEAN
    BY <1>6 DEF FailBuffer
  <2>2. OwnTyped'
    BY <1>g, <1>6, <2>1 DEF FailBuffer
  <2>3. RingTyped'
    BY <1>0, <1>6, EmptiedTyped DEF FailBuffer, RingTyped
  <2> QED
    BY <1>6, <1>i, <2>2, <2>3 DEF FailBuffer
<1>7. CASE EndAllocation
  <2>1. misclosed' \in BOOLEAN /\ shared' \subseteq Indexes
    BY <1>7 DEF EndAllocation, GiveBack, Indexes
  <2>2. OwnTyped'
    BY <1>0, <1>7, <2>1 DEF EndAllocation, OwnTyped
  <2>3. RingTyped'
    BY <1>0, <1>7, Constants DEF EndAllocation, RingTyped
  <2> QED
    BY <1>7, <1>i, <2>2, <2>3 DEF EndAllocation
<1>8. CASE Retire
  <2>1. gen + 1 \in Gens
    BY <1>0, <1>8, Constants DEF Retire, OwnTyped, Gens
  <2>2. misclosed' \in BOOLEAN
    BY <1>8 DEF Retire, GiveBack
  <2>3. OwnTyped'
    BY <1>0, <1>8, <2>1, <2>2, EmptiedTyped DEF Retire, FirstStep, OwnTyped
  <2>4. RingTyped'
    BY <1>0, <1>8, EmptiedTyped DEF Retire, RingTyped
  <2> QED
    BY <1>8, <1>i, <2>3, <2>4 DEF Retire
<1>9. CASE Destroy
  <2>1. misclosed' \in BOOLEAN
    BY <1>9 DEF Destroy, GiveBack
  <2>2. OwnTyped'
    BY <1>0, <1>9, <2>1, EmptiedTyped, Constants DEF Destroy, OwnTyped
  <2>3. RingTyped'
    BY <1>0, <1>9, EmptiedTyped DEF Destroy, RingTyped
  <2> QED
    BY <1>9, <1>i, <2>2, <2>3 DEF Destroy
<1>10. ASSUME NEW i \in Indexes, MapCudaView(i) PROVE OwnTyped' /\ RingTyped' /\ ImportTyped'
  <2>1. OwnTyped'
    BY <1>0, <1>10 DEF MapCudaView, OwnTyped
  <2> QED
    BY <1>10, <1>r, <1>i, <2>1 DEF MapCudaView, ringVars
<1>11. ASSUME NEW c \in Holders, AcquireNext(c) PROVE OwnTyped' /\ RingTyped' /\ ImportTyped'
  <2>1. NextFree \in Indexes /\ (NextFree + 1) % bufs \in Indexes /\ <<gen, NextFree>> \in Gens \X Indexes
    BY <1>0, <1>11, Found DEF AcquireNext, OwnTyped
  <2>2. \A i \in Indexes : passed[i] + 1 \in Nat
    BY <1>0 DEF RingTyped
  <2>3. RingTyped'
    <3>1. inUse' \subseteq Indexes /\ head' \in Indexes
      BY <1>0, <1>11, <2>1 DEF AcquireNext, RingTyped
    <3>2. lease' \in [Holders -> {NoLease} \cup (Gens \X Indexes)]
      BY <1>0, <1>11, <2>1 DEF AcquireNext, RingTyped
    <3>3. passed' \in [Indexes -> Nat]
      BY <1>11, <2>2 DEF AcquireNext
    <3> QED
      BY <3>1, <3>2, <3>3 DEF RingTyped
  <2> QED
    BY <1>11, <1>o, <1>i, <2>3 DEF AcquireNext
<1>12. ASSUME NEW c \in Holders, Release(c) PROVE OwnTyped' /\ RingTyped' /\ ImportTyped'
  <2>1. RingTyped'
    BY <1>0, <1>12 DEF Release, RingTyped
  <2> QED
    BY <1>12, <1>o, <1>i, <2>1 DEF Release
<1>13. CASE Attach
  <2>1. ImportTyped'
    BY <1>0, <1>13, Constants DEF Attach, ImportTyped, OwnTyped, Gens
  <2> QED
    BY <1>13, <1>o, <1>r, <2>1 DEF Attach, ringVars
<1>14. CASE ImportHost \/ ImportAccel \/ ImportNvBuf
  <2>1. PICK kinds, calls : Import(kinds, calls)
    BY <1>14, ImportSteps DEF ImportStep
  <2>2. <<"fd", nextView>>[2] = nextView /\ nextView \in Indexes
    BY <2>1 DEF Import, ImportInv
  <2>3. nextView + 1 \in 0..NBuffers
    BY <2>2, Constants DEF Indexes
  <2>4. ImportTyped'
    BY <1>0, <2>1, <2>3 DEF Import, ImportTyped
  <2> QED
    BY <1>o, <1>r, <2>1, <2>4 DEF Import, ringVars
<1>15. CASE Detach
  <2>1. ImportTyped'
    BY <1>0, <1>15, Constants DEF Detach, Drop, ImportTyped, Nowhere
  <2> QED
    BY <1>15, <1>o, <1>r, <2>1 DEF Detach, ringVars
<1>16. CASE UNCHANGED poolVars
  BY <1>16, <1>o, <1>r, <1>i DEF poolVars, ringVars
<1> QED
  BY <1>1, <1>3, <1>4, <1>5, <1>6, <1>7, <1>8, <1>9, <1>10, <1>11, <1>12, <1>13, <1>14, <1>15, <1>16
     DEF PoolNext

LEMMA NoBuffers == 0..(0 - 1) = {}
  OBVIOUS

LEMMA InitPhase == PoolInit => PhaseInv /\ ImportInv
  BY NoBuffers DEF PoolInit, PhaseInv, ImportInv

\* After free_all(), in either phase that a failure or a destruction leads to.
LEMMA EmptiedPhase ==
  ASSUME Emptied, \/ pc' = "none" /\ gen' = 1
                  \/ pc' = "ready"
                  \/ pc' = "device" /\ backend' \in {"UDMABUF", "V4L2"}
                  \/ pc' = "buffer"
  PROVE  PhaseInv'
<1>1. bufs' = 0 /\ ~v4l2' /\ cudaView' = {} /\ inUse' = {} /\ shared' = {} /\ 0..(bufs' - 1) = {}
  BY NoBuffers DEF Emptied
<1> QED
  BY <1>1 DEF PhaseInv

LEMMA StepPhase == PoolTypeOK /\ PhaseInv /\ [PoolNext]_poolVars => PhaseInv'
<1> SUFFICES ASSUME PoolTypeOK, PhaseInv, [PoolNext]_poolVars PROVE PhaseInv'
  OBVIOUS
<1>0. OwnTyped /\ RingTyped
  BY TypeParts
<1>k. pc = "none" => gen = 1
  BY DEF PhaseInv
<1>s. UNCHANGED <<ownVars, inUse>> => PhaseInv'
  BY DEF ownVars, PhaseInv
<1>1. ASSUME NEW b \in Backends, Create(b) PROVE PhaseInv'
  <2>1. bufs' = 0 /\ v4l2' = FALSE /\ cudaView' = cudaView /\ inUse' = inUse /\ shared' = {}
        /\ inUse' = {} /\ cudaView \subseteq 0..(bufs - 1) /\ bufs = 0
        /\ pc' = FirstStep(b) /\ backend' = b
    BY <1>1 DEF Create, PhaseInv, ringVars
  <2>2. cudaView' = {}
    BY <2>1, NoBuffers
  <2> QED
    BY <2>1, <2>2 DEF FirstStep, PhaseInv
<1>2. ASSUME NEW u, FailAllocation(u) PROVE PhaseInv'
  BY <1>2, EmptiedPhase DEF FailAllocation
<1>3. CASE OpenDevice
  <2>1. CASE FailAllocation({})
    BY <1>2, <2>1
  <2>2. CASE ~FailAllocation({})
    BY <1>3, <2>2 DEF OpenDevice, PhaseInv, ringVars
  <2> QED
    BY <2>1, <2>2
<1>4. CASE DeviceRefuses \/ FailImportParams
  BY <1>2, <1>4 DEF DeviceRefuses, FailImportParams
<1>5. CASE MakeBuffer
  <2>1. bufs \in Nat /\ bufs' = bufs + 1
    BY <1>0, <1>5, Constants DEF MakeBuffer, OwnTyped
  <2>2. 0..(bufs - 1) \subseteq 0..((bufs + 1) - 1)
    BY <2>1
  <2>3. cudaView' \subseteq 0..(bufs' - 1) /\ inUse' \subseteq 0..(bufs' - 1)
    BY <1>5, <2>1, <2>2 DEF MakeBuffer, PhaseInv, ringVars
  <2> QED
    BY <1>5, <2>3 DEF MakeBuffer, PhaseInv, ringVars
<1>6. CASE FailBuffer
  BY <1>6, EmptiedPhase DEF FailBuffer
<1>7. CASE EndAllocation
  BY <1>7 DEF EndAllocation, PhaseInv
<1>8. CASE Retire
  BY <1>8, EmptiedPhase DEF Retire, FirstStep
<1>9. CASE Destroy
  BY <1>9, EmptiedPhase DEF Destroy
<1>10. ASSUME NEW i \in Indexes, MapCudaView(i) PROVE PhaseInv'
  <2>1. i \in 0..(bufs - 1)
    BY <1>0, <1>10 DEF MapCudaView, OwnTyped, Indexes
  <2> QED
    BY <1>10, <2>1 DEF MapCudaView, PhaseInv, ringVars
<1>11. ASSUME NEW c \in Holders, AcquireNext(c) PROVE PhaseInv'
  <2>1. NextFree \in 0..(bufs - 1)
    BY <1>0, <1>11, Found DEF AcquireNext, Indexes
  <2> QED
    BY <1>11, <2>1 DEF AcquireNext, PhaseInv, ownVars
<1>12. ASSUME NEW c \in Holders, Release(c) PROVE PhaseInv'
  BY <1>12 DEF Release, PhaseInv, ownVars
<1>13. CASE Attach \/ ImportStep \/ Detach \/ UNCHANGED poolVars
  BY <1>13, <1>s DEF Attach, ImportStep, ImportHost, ImportAccel, ImportNvBuf, Import, Detach,
                     poolVars, ringVars
<1> QED
  BY <1>1, <1>3, <1>4, <1>5, <1>6, <1>7, <1>8, <1>9, <1>10, <1>11, <1>12, <1>13
     DEF PoolNext, ImportStep

LEMMA StepImport == PoolTypeOK /\ ImportInv /\ [PoolNext]_poolVars => ImportInv'
<1> SUFFICES ASSUME PoolTypeOK, ImportInv, [PoolNext]_poolVars PROVE ImportInv'
  OBVIOUS
<1>1. CASE Attach
  <2>1. imported' = {"fd"} \X shared /\ shared \subseteq Indexes
    BY <1>1 DEF Attach, PoolTypeOK
  <2> QED
    BY <2>1 DEF ImportInv
<1>2. CASE ImportStep
  <2>1. PICK kinds, calls : Import(kinds, calls)
    BY <1>2, ImportSteps
  <2>2. <<"fd", nextView>>[2] = nextView /\ nextView \in Indexes
    BY <2>1 DEF Import, ImportInv
  <2>3. \A x \in kinds \X {nextView} : x[2] = nextView
    OBVIOUS
  <2> QED
    BY <2>1, <2>2, <2>3 DEF Import, ImportInv
<1>3. CASE Detach
  BY <1>3 DEF Detach, ImportInv
<1>4. CASE UNCHANGED importVars
  BY <1>4 DEF importVars, ImportInv
<1>5. CASE ~Attach /\ ~ImportStep /\ ~Detach
  BY <1>4, <1>5 DEF PoolNext, ImportStep, Create, OpenDevice, FailAllocation, DeviceRefuses, MakeBuffer,
     FailBuffer, EndAllocation, FailImportParams, Retire, Destroy, MapCudaView, AcquireNext, Release,
     poolVars
<1> QED
  BY <1>1, <1>2, <1>3, <1>5

-----------------------------------------------------------------------------
(* Leases                                                                   *)

LEMMA LeaseOf ==
  ASSUME OwnTyped, RingTyped, NEW c \in Holders, lease[c] # NoLease
  PROVE  /\ lease[c][1] \in Nat /\ lease[c][1] >= 1 /\ lease[c][2] \in Indexes /\ gen \in Nat
         /\ lease[c] = <<lease[c][1], lease[c][2]>>
  BY Constants DEF OwnTyped, RingTyped, Gens

\* Flags are cleared by leaving the ready phase, and the leases are of older
\* generations from then on.
LEMMA LeasesAge ==
  ASSUME OwnTyped, RingTyped, LeaseInv, UNCHANGED <<lease, stale>>,
         \/ gen' = gen /\ pc # "ready"
         \/ gen' = gen + 1
         \/ \A c \in Holders : lease[c] = NoLease
  PROVE  LeaseInv'
<1>1. InHandOnce'
  BY DEF LeaseInv, InHandOnce
<1>2. ASSUME NEW c \in Holders, lease[c] # NoLease PROVE lease[c][1] =< gen' /\ lease[c][1] # gen'
  <2>1. lease[c][1] \in Nat /\ gen \in Nat /\ lease[c][1] =< gen
    BY <1>2, LeaseOf DEF LeaseInv
  <2>2. CASE gen' = gen /\ pc # "ready"
    BY <1>2, <2>1, <2>2 DEF LeaseInv
  <2>3. CASE gen' = gen + 1
    BY <2>1, <2>3
  <2> QED
    BY <1>2, <2>2, <2>3
<1> QED
  BY <1>1, <1>2 DEF LeaseInv

LEMMA StepLease == PoolTypeOK /\ PhaseInv /\ LeaseInv /\ [PoolNext]_poolVars => LeaseInv'
<1> SUFFICES ASSUME PoolTypeOK, PhaseInv, LeaseInv, [PoolNext]_poolVars PROVE LeaseInv'
  OBVIOUS
<1>0. OwnTyped /\ RingTyped
  BY TypeParts
<1>n. pc = "none" => \A c \in Holders : lease[c] = NoLease
  <2>1. ASSUME pc = "none", NEW c \in Holders, lease[c] # NoLease PROVE FALSE
    <3>1. gen = 1 /\ lease[c][1] \in Nat /\ lease[c][1] >= 1
      BY <1>0, <2>1, LeaseOf DEF PhaseInv
    <3>2. lease[c][1] = gen
      BY <2>1, <3>1 DEF LeaseInv
    <3> QED
      BY <2>1, <3>2 DEF LeaseInv
  <2> QED
    BY <2>1
<1>s. UNCHANGED <<gen, pc, ringVars>> => LeaseInv'
  BY DEF ringVars, LeaseInv, InHandOnce
<1>1. ASSUME NEW b \in Backends, Create(b) PROVE LeaseInv'
  BY <1>0, <1>1, <1>n, LeasesAge DEF Create, ringVars
<1>2. ASSUME NEW u, FailAllocation(u), pc # "ready" PROVE LeaseInv'
  BY <1>0, <1>2, LeasesAge DEF FailAllocation
<1>3. CASE OpenDevice \/ DeviceRefuses \/ FailImportParams
  <2>1. pc # "ready"
    BY <1>3 DEF OpenDevice, DeviceRefuses, FailImportParams
  <2>2. CASE FailAllocation({})
    BY <1>2, <2>1, <2>2
  <2>3. CASE ~FailAllocation({})
    BY <1>0, <1>3, <2>1, <2>3, LeasesAge DEF OpenDevice, DeviceRefuses, FailImportParams, ringVars
  <2> QED
    BY <2>2, <2>3
<1>4. CASE MakeBuffer \/ FailBuffer \/ EndAllocation
  BY <1>0, <1>4, LeasesAge DEF MakeBuffer, FailBuffer, EndAllocation, ringVars
<1>5. CASE Retire
  BY <1>0, <1>5, LeasesAge DEF Retire
<1>6. CASE Destroy
  <2>1. \A c \in Holders : lease'[c] = NoLease
    BY <1>6 DEF Destroy
  <2> QED
    BY <2>1 DEF LeaseInv, InHandOnce
<1>7. ASSUME NEW c \in Holders, AcquireNext(c) PROVE LeaseInv'
  <2> PICK n : n = NextFree
    OBVIOUS
  <2>1. n \in Indexes \ inUse /\ pc' = "ready" /\ gen' = gen /\ gen \in Nat /\ stale' = stale
        /\ inUse' = inUse \cup {n} /\ lease' = [lease EXCEPT ![c] = <<gen, n>>]
    BY <1>0, <1>7, Found, Constants DEF AcquireNext, OwnTyped, ownVars
  <2>2. lease'[c] = <<gen, n>> /\ \A d \in Holders \ {c} : lease'[d] = lease[d]
    BY <1>0, <2>1 DEF RingTyped
  <2>3. ASSUME NEW d \in Holders, lease'[d] # NoLease
        PROVE  /\ lease'[d][1] =< gen
               /\ lease'[d][1] = gen => lease'[d][2] \in inUse' \/ lease'[d] \in stale
    BY <2>1, <2>2, <2>3 DEF LeaseInv
  <2>4. ASSUME NEW d \in Holders \ {c}, lease[d] = <<gen, n>> PROVE lease[d] \in stale
    <3>1. lease[d] # NoLease /\ lease[d][1] = gen /\ lease[d][2] = n
      <4>1. gen # 0
        BY <1>0, Constants DEF OwnTyped, Gens
      <4> QED
        BY <2>4, <4>1 DEF NoLease
    <3> QED
      BY <2>1, <3>1 DEF LeaseInv
  <2>5. InHandOnce'
    <3> SUFFICES ASSUME NEW d \in Holders, NEW e \in Holders, d # e, lease'[d] = lease'[e],
                        lease'[d] # NoLease
                 PROVE  lease'[d] \in stale
      BY <2>1 DEF InHandOnce
    <3>1. CASE d # c /\ e # c
      BY <2>2, <3>1 DEF LeaseInv, InHandOnce
    <3>2. CASE d = c \/ e = c
      BY <2>2, <2>4, <3>2
    <3> QED
      BY <3>1, <3>2
  <2> QED
    BY <2>1, <2>3, <2>5 DEF LeaseInv
<1>8. ASSUME NEW c \in Holders, Release(c) PROVE LeaseInv'
  <2>1. /\ pc' = "ready" /\ gen' = gen /\ stale \subseteq stale' /\ inUse \ {lease[c][2]} \subseteq inUse'
        /\ lease[c][1] # gen => <<gen, lease[c][2]>> \in stale'
        /\ lease[c] # NoLease
    BY <1>8 DEF Release, ownVars
  <2>2. lease'[c] = NoLease /\ \A d \in Holders \ {c} : lease'[d] = lease[d]
    BY <1>0, <1>8 DEF Release, RingTyped
  <2>3. ASSUME NEW d \in Holders, lease'[d] # NoLease, lease'[d][1] = gen
        PROVE  lease'[d][2] \in inUse' \/ lease'[d] \in stale'
    <3>1. d # c /\ lease'[d] = lease[d] /\ lease[d] # NoLease /\ lease[d][1] = gen
      BY <2>2, <2>3
    <3>2. CASE lease[d] \in stale
      BY <2>1, <3>1, <3>2
    <3>3. CASE lease[d] \notin stale /\ lease[d][2] # lease[c][2]
      BY <2>1, <3>1, <3>3 DEF LeaseInv
    <3>4. CASE lease[d] \notin stale /\ lease[d][2] = lease[c][2]
      <4>1. lease[d] = <<gen, lease[c][2]>>
        BY <1>0, <3>1, <3>4, LeaseOf
      <4>2. lease[c][1] # gen
        <5>1. lease[c][1] = gen => lease[c] = lease[d]
          BY <1>0, <2>1, <4>1, LeaseOf
        <5> QED
          BY <2>1, <3>1, <3>4, <5>1 DEF LeaseInv, InHandOnce
      <4> QED
        BY <2>1, <3>1, <4>1, <4>2
    <3> QED
      BY <3>2, <3>3, <3>4
  <2>4. InHandOnce'
    BY <2>1, <2>2 DEF LeaseInv, InHandOnce
  <2>5. \A d \in Holders : lease'[d] # NoLease => lease'[d][1] =< gen'
    BY <2>1, <2>2 DEF LeaseInv
  <2> QED
    BY <2>1, <2>3, <2>4, <2>5 DEF LeaseInv
<1>9. CASE (\E i \in Indexes : MapCudaView(i)) \/ Attach \/ ImportStep \/ Detach \/ UNCHANGED poolVars
  BY <1>9, <1>s DEF MapCudaView, Attach, ImportStep, ImportHost, ImportAccel, ImportNvBuf, Import, Detach,
                    poolVars, ownVars
<1> QED
  BY <1>1, <1>3, <1>4, <1>5, <1>6, <1>7, <1>8, <1>9 DEF PoolNext, ImportStep

\* Flags are raised with a lease and lowered with it; what empties the pool lowers all.
LEMMA StepFlag == PoolTypeOK /\ PhaseInv /\ FlagInv /\ [PoolNext]_poolVars => FlagInv'
<1> SUFFICES ASSUME PoolTypeOK, PhaseInv, FlagInv, [PoolNext]_poolVars PROVE FlagInv'
  OBVIOUS
<1>0. OwnTyped /\ RingTyped
  BY TypeParts
<1>e. inUse' = {} => FlagInv'
  BY DEF FlagInv
<1>s. UNCHANGED <<gen, inUse, lease>> => FlagInv'
  BY DEF FlagInv
<1>1. ASSUME NEW b \in Backends, Create(b) PROVE FlagInv'
  BY <1>1, <1>e DEF Create, PhaseInv, ringVars
<1>2. ASSUME NEW u, FailAllocation(u) PROVE FlagInv'
  BY <1>2, <1>e DEF FailAllocation, Emptied
<1>3. CASE OpenDevice \/ DeviceRefuses \/ FailImportParams
  BY <1>2, <1>3, <1>s DEF OpenDevice, DeviceRefuses, FailImportParams, ringVars
<1>4. CASE MakeBuffer \/ FailBuffer \/ EndAllocation \/ Retire \/ Destroy
  BY <1>4, <1>e, <1>s DEF MakeBuffer, FailBuffer, EndAllocation, Retire, Destroy, Emptied, ringVars
<1>5. ASSUME NEW c \in Holders, AcquireNext(c) PROVE FlagInv'
  <2> PICK n : n = NextFree
    OBVIOUS
  <2>1. gen' = gen /\ inUse' = inUse \cup {n} /\ lease' = [lease EXCEPT ![c] = <<gen, n>>]
        /\ lease[c] = NoLease /\ gen # 0
    BY <1>0, <1>5, Constants DEF AcquireNext, ownVars, OwnTyped, Gens
  <2>2. lease'[c] = <<gen, n>> /\ \A d \in Holders \ {c} : lease'[d] = lease[d]
    BY <1>0, <2>1 DEF RingTyped
  <2>3. ASSUME NEW i \in inUse PROVE \E d \in Holders : lease'[d] = <<gen, i>>
    <3>1. PICK d \in Holders : lease[d] = <<gen, i>>
      BY DEF FlagInv
    <3>2. d # c
      BY <2>1, <3>1 DEF NoLease
    <3> QED
      BY <2>2, <3>1, <3>2
  <2> QED
    BY <2>1, <2>2, <2>3 DEF FlagInv
<1>6. ASSUME NEW c \in Holders, Release(c) PROVE FlagInv'
  <2>1. gen' = gen /\ lease' = [lease EXCEPT ![c] = NoLease] /\ inUse' \subseteq inUse
        /\ (lease[c][2] < bufs => lease[c][2] \notin inUse')
    BY <1>6 DEF Release, ownVars
  <2>2. \A d \in Holders \ {c} : lease'[d] = lease[d]
    BY <1>0, <2>1 DEF RingTyped
  <2>3. ASSUME NEW i \in inUse' PROVE \E d \in Holders : lease'[d] = <<gen, i>>
    <3>1. PICK d \in Holders : lease[d] = <<gen, i>>
      BY <2>1 DEF FlagInv
    <3>2. i < bufs
      BY <1>0, <2>1 DEF PhaseInv, OwnTyped
    <3>3. d # c
      BY <2>1, <3>1, <3>2
    <3> QED
      BY <2>2, <3>1, <3>3
  <2> QED
    BY <2>1, <2>3 DEF FlagInv
<1>7. CASE (\E i \in Indexes : MapCudaView(i)) \/ Attach \/ ImportStep \/ Detach \/ UNCHANGED poolVars
  BY <1>7, <1>s DEF MapCudaView, Attach, ImportStep, ImportHost, ImportAccel, ImportNvBuf, Import, Detach,
                    poolVars, ownVars, ringVars
<1> QED
  BY <1>1, <1>3, <1>4, <1>5, <1>6, <1>7 DEF PoolNext, ImportStep

-----------------------------------------------------------------------------
(* The search                                                               *)

LEMMA StepRound == PoolTypeOK /\ PhaseInv /\ RoundInv /\ [PoolNext]_poolVars => RoundInv'
<1> SUFFICES ASSUME PoolTypeOK, PhaseInv, RoundInv, [PoolNext]_poolVars PROVE RoundInv'
  OBVIOUS
<1>0. OwnTyped /\ RingTyped
  BY TypeParts
<1>s. UNCHANGED <<shared, ringVars>> => RoundInv'
  BY DEF ringVars, RoundInv, Ahead
<1>e. shared' = {} => RoundInv'
  BY DEF RoundInv
<1>f. ASSUME NEW u, FailAllocation(u) PROVE RoundInv'
  BY <1>e, <1>f DEF FailAllocation, Emptied
<1>1. CASE OpenDevice \/ DeviceRefuses \/ FailImportParams
  BY <1>1, <1>f, <1>s DEF OpenDevice, DeviceRefuses, FailImportParams
<1>2. CASE FailBuffer \/ Retire \/ Destroy
  BY <1>2, <1>e DEF FailBuffer, Retire, Destroy, Emptied
<1>3. CASE EndAllocation
  <2>1. shared' \subseteq Indexes /\ inUse' = {} /\ head' = 0 /\ passed' = [i \in Indexes |-> 0]
    BY <1>3 DEF EndAllocation, Indexes
  <2>2. ASSUME NEW i \in shared' PROVE i \notin inUse' /\ passed'[i] + Ahead(i)' < NBuffers
    <3>1. i \in Indexes /\ passed'[i] = 0
      BY <2>1, <2>2
    <3>2. Ahead(i)' = i
      BY <2>1, <3>1, Constants DEF Ahead, Indexes
    <3> QED
      BY <2>1, <3>1, <3>2, Constants DEF Indexes
  <2> QED
    BY <2>2 DEF RoundInv
<1>4. ASSUME NEW c \in Holders, AcquireNext(c) PROVE RoundInv'
  <2> PICK n : n = NextFree
    OBVIOUS
  <2> PICK h : h = head
    OBVIOUS
  <2>1. /\ bufs = NBuffers /\ shared = Indexes /\ n \in Indexes \ inUse /\ h \in Indexes
        /\ head' = IF n + 1 < NBuffers THEN n + 1 ELSE 0
        /\ shared' = shared /\ inUse' = inUse \cup {n}
        /\ passed' = [i \in Indexes |-> IF i \in inUse \cup {n} THEN 0 ELSE passed[i] + 1]
    BY <1>0, <1>4, Found DEF AcquireNext, ownVars, RingTyped
  <2>2. PICK k \in FreeAhead : n = (h + k) % NBuffers /\ \A j \in FreeAhead : k =< j
    BY <1>0, <1>4, Found DEF AcquireNext
  <2>3. k \in 0..(NBuffers - 1) /\ FreeAhead = {j \in 0..(NBuffers - 1) : (h + j) % NBuffers \notin inUse}
    BY <2>1 DEF FreeAhead
  <2>4. n = IF h + k < NBuffers THEN h + k ELSE h + k - NBuffers
    <3>1. k \in 0..NBuffers /\ h \in 0..(NBuffers - 1)
      BY <2>1, <2>3, Constants DEF Indexes
    <3> QED
      BY <2>2, <3>1, RoundTheRing, Constants
  <2>5. ASSUME NEW i \in Indexes, i \notin inUse, i # n
        PROVE  passed'[i] + Ahead(i)' < NBuffers
    <3> PICK a : a = Ahead(i)
      OBVIOUS
    <3> PICK b : b = Ahead(i)'
      OBVIOUS
    <3> PICK m : m = passed[i]
      OBVIOUS
    <3>1. m \in Nat /\ m + a < NBuffers /\ passed'[i] = m + 1
      BY <1>0, <2>1, <2>5 DEF RoundInv, RingTyped
    <3>2. a = IF i >= h THEN i - h ELSE i - h + NBuffers
      BY DEF Ahead
    <3>3. a \in 0..(NBuffers - 1) /\ (h + a) % NBuffers = i
      <4>1. h \in 0..(NBuffers - 1) /\ i \in 0..(NBuffers - 1)
        BY <2>1 DEF Indexes
      <4>2. NBuffers \in Nat
        BY Constants
      <4> QED
        BY ONLY <3>2, <4>1, <4>2, AheadIsDistance
    <3>4. k =< a
      BY <2>2, <2>3, <2>5, <3>3
    <3>5. b = IF i >= (IF n + 1 < NBuffers THEN n + 1 ELSE 0) THEN i - (IF n + 1 < NBuffers THEN n + 1 ELSE 0)
              ELSE i - (IF n + 1 < NBuffers THEN n + 1 ELSE 0) + NBuffers
      BY <2>1 DEF Ahead
    <3>6. b < a
      BY <2>1, <2>3, <2>4, <2>5, <3>2, <3>3, <3>4, <3>5, Constants DEF Indexes
    <3>7. b \in Int /\ a \in Int
      <4>1. NBuffers \in Int /\ i \in Int /\ n \in Int
        BY <2>1, Constants DEF Indexes
      <4>2. (IF n + 1 < NBuffers THEN n + 1 ELSE 0) \in Int
        BY <4>1
      <4> QED
        BY <3>3, <3>5, <4>1, <4>2
    <3>8. m + 1 + b < NBuffers
      BY <3>1, <3>6, <3>7, Constants
    <3> QED
      BY <3>1, <3>8
  <2>6. ASSUME NEW i \in Indexes PROVE IF i \in inUse' THEN passed'[i] = 0 ELSE passed'[i] + Ahead(i)' < NBuffers
    BY <2>1, <2>5
  <2> QED
    BY <2>1, <2>6 DEF RoundInv
<1>5. ASSUME NEW c \in Holders, Release(c) PROVE RoundInv'
  <2>1. shared' = shared /\ passed' = passed /\ head' = head /\ inUse' \subseteq inUse
    BY <1>5 DEF Release, ownVars
  <2>2. ASSUME NEW i \in shared PROVE IF i \in inUse' THEN passed[i] = 0 ELSE passed[i] + Ahead(i) < NBuffers
    <3>1. CASE i \in inUse
      <4>1. i \in 0..(NBuffers - 1) /\ head \in 0..(NBuffers - 1) /\ passed[i] = 0
        BY <1>0, <3>1 DEF RoundInv, OwnTyped, RingTyped, Indexes
      <4>2. Ahead(i) \in 0..(NBuffers - 1)
        BY <4>1, Constants DEF Ahead
      <4> QED
        BY <4>1, <4>2, Constants
    <3>2. CASE i \notin inUse
      BY <2>1, <3>2 DEF RoundInv
    <3> QED
      BY <3>1, <3>2
  <2>3. \A i \in shared : Ahead(i)' = Ahead(i)
    BY <2>1 DEF Ahead
  <2> QED
    BY <2>1, <2>2, <2>3 DEF RoundInv
<1>6. CASE (\E b \in Backends : Create(b)) \/ MakeBuffer \/ (\E i \in Indexes : MapCudaView(i))
           \/ Attach \/ ImportStep \/ Detach \/ UNCHANGED poolVars
  BY <1>6, <1>s DEF Create, MakeBuffer, MapCudaView, Attach, ImportStep, ImportHost, ImportAccel,
                    ImportNvBuf, Import, Detach, poolVars, ownVars
<1> QED
  BY <1>1, <1>2, <1>3, <1>4, <1>5, <1>6 DEF PoolNext, ImportStep

-----------------------------------------------------------------------------
(* What the owner holds                                                     *)

\* What free_all() gives back of one buffer.
PieceOf(i) ==
  IF backend = "NvBufSurface"
  THEN Of({"surface"} \cup (IF i \in cudaView THEN {"register", "egl"} ELSE {}), i)
  ELSE BufferOf(i)

DeviceHeld == IF v4l2 THEN Of({"v4l2"}, 0) ELSE {}

LEMMA FreedParts ==
  ASSUME NEW x
  PROVE  x \in Freed <=> (\E i \in 0..(bufs - 1) : x \in PieceOf(i)) \/ x \in DeviceHeld
  BY DEF Freed, PieceOf, DeviceHeld

LEMMA FreedPartsNext ==
  ASSUME NEW x
  PROVE  x \in Freed' <=> (\E i \in 0..(bufs' - 1) : x \in PieceOf(i)') \/ x \in DeviceHeld'
  BY DEF Freed, PieceOf, DeviceHeld

LEMMA NothingFreed ==
  /\ bufs = 0 /\ ~v4l2 => Freed = {}
  /\ bufs' = 0 /\ ~v4l2' => Freed' = {}
<1>1. ASSUME bufs = 0, ~v4l2, NEW x \in Freed PROVE FALSE
  BY <1>1, FreedParts, NoBuffers DEF DeviceHeld
<1>2. ASSUME bufs' = 0, ~v4l2', NEW x \in Freed' PROVE FALSE
  BY <1>2, FreedPartsNext, NoBuffers DEF DeviceHeld
<1> QED
  BY <1>1, <1>2

\* The buffers of UDMABUF do not contain the device they are made with.
LEMMA DeviceIsApart == Udmabuf \cap Freed = {}
<1>1. CASE backend = "UDMABUF"
  <2>1. \A i \in 0..(bufs - 1) : PieceOf(i) = {<<"memfd", i, gen>>, <<"dmabuf", i, gen>>}
    BY <1>1, FinishedCalls DEF PieceOf, BufferOf, Of
  <2>2. Udmabuf = {<<"udmabuf", 0, gen>>} /\ Of({"v4l2"}, 0) = {<<"v4l2", 0, gen>>}
    BY <1>1 DEF Udmabuf, Of
  <2>3. ASSUME NEW x \in Freed PROVE x # <<"udmabuf", 0, gen>>
    <3>1. CASE x \in DeviceHeld
      BY <2>2, <3>1 DEF DeviceHeld
    <3>2. CASE x \notin DeviceHeld
      <4>1. PICK i \in 0..(bufs - 1) : x \in PieceOf(i)
        BY <2>3, <3>2, FreedParts
      <4>2. x[1] # "udmabuf"
        BY <2>1, <4>1
      <4> QED
        BY <4>2
    <3> QED
      BY <3>1, <3>2
  <2> QED
    BY <2>2, <2>3
<1>2. CASE backend # "UDMABUF"
  BY <1>2 DEF Udmabuf
<1> QED
  BY <1>1, <1>2

\* All of it is given back.
LEMMA FreeAll ==
  ASSUME OwnerHoldsItsPool, pc = "buffer" => Udmabuf = {}, GiveBack(Freed), Emptied,
         pc' = "buffer" => Udmabuf' = {}
  PROVE  OwnerHoldsItsPool'
<1>1. open = Freed /\ ~misclosed
  BY DEF OwnerHoldsItsPool
<1>2. open' = {} /\ misclosed' = FALSE
  BY <1>1 DEF GiveBack
<1>3. Freed' = {}
  BY NothingFreed DEF Emptied
<1> QED
  BY <1>2, <1>3 DEF OwnerHoldsItsPool

LEMMA BackendKnown ==
  ASSUME OwnTyped
  PROVE  backend \in BackendNames
  BY BackendsKnown DEF OwnTyped, BackendNames

LEMMA StepOwner == PoolTypeOK /\ PhaseInv /\ OwnerHoldsItsPool /\ [PoolNext]_poolVars => OwnerHoldsItsPool'
<1> SUFFICES ASSUME PoolTypeOK, PhaseInv, OwnerHoldsItsPool, [PoolNext]_poolVars PROVE OwnerHoldsItsPool'
  OBVIOUS
<1>0. OwnTyped /\ bufs \in Nat /\ backend \in BackendNames
  BY TypeParts, BackendKnown, Constants DEF OwnTyped
<1>h. open = Freed \cup (IF pc = "buffer" THEN Udmabuf ELSE {}) /\ misclosed = FALSE
  BY <1>0 DEF OwnerHoldsItsPool, OwnTyped
<1>s. UNCHANGED <<backend, gen, pc, bufs, v4l2, cudaView, open, misclosed>> => OwnerHoldsItsPool'
  BY DEF OwnerHoldsItsPool, Freed, Udmabuf, BufferOf, Of
<1>d. pc \in {"none", "device"} => open = {}
  BY <1>h, NothingFreed DEF PhaseInv
<1>1. ASSUME NEW b \in Backends, Create(b) PROVE OwnerHoldsItsPool'
  <2>1. open' = {} /\ misclosed' = FALSE /\ bufs' = 0 /\ ~v4l2'
    BY <1>1, <1>d, <1>h DEF Create, PhaseInv
  <2>2. pc' = "buffer" => Udmabuf' = {}
    BY <1>1 DEF Create, FirstStep, Udmabuf
  <2> QED
    BY <2>1, <2>2, NothingFreed DEF OwnerHoldsItsPool
<1>2. ASSUME FailAllocation({}), pc = "buffer" => Udmabuf = {} PROVE OwnerHoldsItsPool'
  <2>1. GiveBack(Freed) /\ Emptied /\ pc' # "buffer"
    BY <1>2 DEF FailAllocation, GiveBack
  <2> QED
    BY <1>2, <2>1, FreeAll
<1>3. CASE OpenDevice
  <2>1. CASE FailAllocation({})
    BY <1>2, <1>3, <2>1 DEF OpenDevice
  <2>2. CASE ~FailAllocation({})
    <3>1. /\ pc' = "buffer" /\ v4l2' = (backend = "V4L2") /\ UNCHANGED <<backend, gen, bufs>>
          /\ open' = Of({IF backend = "V4L2" THEN "v4l2" ELSE "udmabuf"}, 0)
          /\ misclosed' = FALSE /\ bufs = 0 /\ backend \in {"UDMABUF", "V4L2"}
      BY <1>3, <1>d, <1>h, <2>2 DEF OpenDevice, PhaseInv
    <3>2. Freed' = DeviceHeld'
      <4>1. 0..(bufs' - 1) = {}
        BY <3>1, NoBuffers
      <4> QED
        BY <4>1, FreedPartsNext
    <3>3. Udmabuf' = IF backend = "UDMABUF" THEN Of({"udmabuf"}, 0) ELSE {}
      BY <3>1 DEF Udmabuf, Of
    <3>4. DeviceHeld' = IF backend = "V4L2" THEN Of({"v4l2"}, 0) ELSE {}
      BY <3>1 DEF Of, DeviceHeld
    <3> QED
      BY <3>1, <3>2, <3>3, <3>4 DEF OwnerHoldsItsPool
  <2> QED
    BY <2>1, <2>2
<1>4. CASE DeviceRefuses \/ FailImportParams
  BY <1>2, <1>4 DEF DeviceRefuses, FailImportParams, Udmabuf
<1>5. CASE MakeBuffer
  <2>1. /\ UNCHANGED <<backend, gen, pc, v4l2, cudaView, misclosed>> /\ pc = "buffer"
        /\ open' = open \cup BufferOf(bufs) /\ bufs' = bufs + 1
    BY <1>5 DEF MakeBuffer
  <2>2. bufs \notin cudaView
    BY <1>0 DEF PhaseInv
  <2>3. PieceOf(bufs) = BufferOf(bufs)
    BY <2>2, FinishedCalls DEF PieceOf, BufferOf
  <2>4. \A i : PieceOf(i)' = PieceOf(i)
    BY <2>1 DEF PieceOf, BufferOf, Of
  <2>5. 0..(bufs' - 1) = 0..(bufs - 1) \cup {bufs}
    BY <1>0, <2>1
  <2>6. DeviceHeld' = DeviceHeld /\ Udmabuf' = Udmabuf
    BY <2>1 DEF Of, Udmabuf, DeviceHeld
  <2>7. Freed' = Freed \cup PieceOf(bufs)
    BY <2>1, <2>4, <2>5, <2>6, FreedParts, FreedPartsNext
  <2> QED
    BY <1>h, <2>1, <2>3, <2>6, <2>7 DEF OwnerHoldsItsPool
<1>6. CASE FailBuffer
  <2>1. PICK k \in 1..Len(Calls[backend]) :
          LET made == Of(Before(Calls[backend], k), bufs)
              undone == Of(Undone(Calls[backend][k]), bufs)
              closed == Freed \cup undone \cup Udmabuf
          IN /\ open' = (open \cup made) \ closed
             /\ misclosed' = (misclosed \/ ~(closed \subseteq open \cup made))
    BY <1>6 DEF FailBuffer
  <2>2. Of(Before(Calls[backend], k), bufs) = Of(Undone(Calls[backend][k]), bufs)
    BY <1>0, ErrorPathsUndo
  <2>3. open = Freed \cup Udmabuf
    BY <1>6, <1>h DEF FailBuffer
  <2>4. open' = {} /\ misclosed' = FALSE
    BY <1>h, <2>1, <2>2, <2>3
  <2>5. Freed' = {} /\ pc' # "buffer"
    BY <1>6, NothingFreed DEF FailBuffer, Emptied
  <2> QED
    BY <2>4, <2>5 DEF OwnerHoldsItsPool
<1>7. CASE EndAllocation
  <2>1. UNCHANGED <<backend, gen, bufs, v4l2, cudaView>> /\ pc' = "ready" /\ pc = "buffer" /\ GiveBack(Udmabuf)
    BY <1>7 DEF EndAllocation
  <2>2. Freed' = Freed
    BY <2>1 DEF Freed, BufferOf, Of
  <2>3. Udmabuf \cap Freed = {}
    BY DeviceIsApart
  <2>4. open' = Freed /\ misclosed' = FALSE
    BY <1>h, <2>1, <2>3 DEF GiveBack
  <2> QED
    BY <2>1, <2>2, <2>4 DEF OwnerHoldsItsPool
<1>8. CASE Retire
  <2>1. pc' = "buffer" => Udmabuf' = {}
    BY <1>8 DEF Retire, FirstStep, Udmabuf
  <2> QED
    BY <1>8, <2>1, FreeAll DEF Retire
<1>9. CASE Destroy
  BY <1>9, FreeAll DEF Destroy
<1>10. ASSUME NEW i \in Indexes, MapCudaView(i) PROVE OwnerHoldsItsPool'
  <2>1. /\ backend = "NvBufSurface" /\ pc = "ready" /\ i \notin cudaView /\ i \in 0..(bufs - 1)
        /\ UNCHANGED <<backend, gen, pc, bufs, v4l2, misclosed>>
    BY <1>0, <1>10 DEF MapCudaView, Indexes
  <2>2. CASE cudaView' = cudaView
    <3>1. open' = open
      BY <1>10, <2>1, <2>2, ImportPathsUndo DEF MapCudaView, Of
    <3> QED
      BY <1>s, <2>1, <2>2, <3>1
  <2>3. CASE cudaView' # cudaView
    <3>1. cudaView' = cudaView \cup {i} /\ open' = open \cup Of({"egl", "register"}, i)
      BY <1>10, <2>3, FinishedCalls DEF MapCudaView
    <3>2. PieceOf(i)' = PieceOf(i) \cup Of({"egl", "register"}, i)
      BY <2>1, <3>1 DEF PieceOf, Of
    <3>3. \A j \in 0..(bufs - 1) \ {i} : PieceOf(j)' = PieceOf(j)
      BY <2>1, <3>1 DEF PieceOf, Of
    <3>4. DeviceHeld' = DeviceHeld
      BY <2>1 DEF Of, DeviceHeld
    <3>5. Freed' = Freed \cup Of({"egl", "register"}, i)
      BY <2>1, <3>2, <3>3, <3>4, FreedParts, FreedPartsNext
    <3> QED
      BY <1>h, <2>1, <3>1, <3>5 DEF OwnerHoldsItsPool
  <2> QED
    BY <2>2, <2>3
<1>11. CASE (\E c \in Holders : AcquireNext(c) \/ Release(c)) \/ Attach \/ ImportStep \/ Detach
            \/ UNCHANGED poolVars
  BY <1>11, <1>s DEF AcquireNext, Release, Attach, ImportStep, ImportHost, ImportAccel, ImportNvBuf,
                     Import, Detach, poolVars, ownVars
<1> QED
  BY <1>1, <1>3, <1>4, <1>5, <1>6, <1>7, <1>8, <1>9, <1>10, <1>11 DEF PoolNext, ImportStep

-----------------------------------------------------------------------------
(* What the subscriber holds                                                *)

\* What detach() gives back for one import of buffer i.
DropOf(kind, i) ==
  CASE kind = "accel"  -> Mine({"map", "range", "handle"}, i)
    [] kind = "nvbuf"  -> Mine({"dup", "surface"}, i)
    [] kind = "nvcuda" -> Mine({"register", "egl"}, i)
    [] OTHER           -> Mine({kind}, i)

LEMMA DetachParts ==
  ASSUME NEW y
  PROVE  y \in FreedByDetach <=> \E x \in imported : y \in DropOf(x[1], x[2])
  BY DEF FreedByDetach, DropOf

LEMMA DetachPartsNext ==
  ASSUME NEW y
  PROVE  y \in FreedByDetach' <=> \E x \in imported' : y \in DropOf(x[1], x[2])'
  BY DEF FreedByDetach, DropOf

\* An import whose views are those that its calls have made.
LEMMA ImportHolds ==
  ASSUME SubscriberHoldsItsViews, NEW kinds, NEW calls, Import(kinds, calls),
         \A y : y \in Mine(calls, nextView) <=> \E k \in kinds : y \in DropOf(k, nextView)
  PROVE  SubscriberHoldsItsViews'
<1>1. held = FreedByDetach /\ ~misfreed /\ misfreed' = misfreed /\ attached' = attached
      /\ imported' = imported \cup (kinds \X {nextView}) /\ held' = held \cup Mine(calls, nextView)
  BY DEF SubscriberHoldsItsViews, Import
<1>2. \A k, i : DropOf(k, i)' = DropOf(k, i)
  BY <1>1 DEF DropOf, Mine
<1>3. ASSUME NEW y PROVE y \in FreedByDetach' <=> y \in held'
  <2>1. y \in FreedByDetach' <=> \E x \in imported' : y \in DropOf(x[1], x[2])'
    BY DetachPartsNext
  <2>2. y \in held <=> \E x \in imported : y \in DropOf(x[1], x[2])
    BY <1>1, DetachParts
  <2>3. (\E x \in kinds \X {nextView} : y \in DropOf(x[1], x[2])) <=> y \in Mine(calls, nextView)
    <3>1. \A x \in kinds \X {nextView} : x[1] \in kinds /\ x[2] = nextView
      OBVIOUS
    <3>2. \A k \in kinds : <<k, nextView>> \in kinds \X {nextView} /\ <<k, nextView>>[1] = k /\ <<k, nextView>>[2] = nextView
      OBVIOUS
    <3> QED
      BY <3>1, <3>2
  <2> QED
    BY <1>1, <1>2, <2>1, <2>2, <2>3
<1> QED
  BY <1>1, <1>3 DEF SubscriberHoldsItsViews

LEMMA StepSubscriber == SubscriberHoldsItsViews /\ [PoolNext]_poolVars => SubscriberHoldsItsViews'
<1> SUFFICES ASSUME SubscriberHoldsItsViews, [PoolNext]_poolVars PROVE SubscriberHoldsItsViews'
  OBVIOUS
<1>0. held = FreedByDetach /\ ~misfreed
  BY DEF SubscriberHoldsItsViews
<1> DEFINE n == nextView
<1>v. \A v \in Mapped : \A y : y \in Mine(v, n) <=> \E k \in v : y \in DropOf(k, n)
  BY DEF Mapped, DropOf, Mine
<1>1. CASE ImportHost
  <2>1. PICK v \in Mapped : Import(v, v)
    BY <1>1 DEF ImportHost
  <2> QED
    BY <1>v, <2>1, ImportHolds
<1>2. CASE ImportAccel
  <2>1. CASE Import({"accel"}, AllOf(AccelImport))
    <3>1. \A y : y \in Mine(AllOf(AccelImport), n) <=> \E k \in {"accel"} : y \in DropOf(k, n)
      BY FinishedCalls DEF DropOf, Mine
    <3> QED
      BY <2>1, <3>1, ImportHolds
  <2>2. ASSUME NEW k \in 1..Len(AccelImport),
               Import({}, Before(AccelImport, k) \ Undone(AccelImport[k]))
        PROVE  SubscriberHoldsItsViews'
    <3>1. Import({}, {})
      BY <2>2, ImportPathsUndo
    <3>2. \A y : y \in Mine({}, n) <=> \E j \in {} : y \in DropOf(j, n)
      BY DEF Mine
    <3> QED
      BY <3>1, <3>2, ImportHolds
  <2> QED
    BY <1>2, <2>1, <2>2 DEF ImportAccel
<1>3. CASE ImportNvBuf
  <2> PICK v \in Mapped :
       \/ \E k \in {1, 2} :
            Import(v, v \cup (Before(NvBufImport, k) \
                              IF k = 2 THEN {"dup"} ELSE {}))
       \/ Import(v \cup {"nvbuf", "nvcuda"}, v \cup AllOf(NvBufImport) \cup AllOf(CudaCalls))
       \/ \E k \in 1..Len(CudaCalls) :
            Import(v \cup {"nvbuf"}, v \cup AllOf(NvBufImport) \cup
                                     (Before(CudaCalls, k) \ Undone(CudaCalls[k])))
    BY <1>3 DEF ImportNvBuf
  <2>1. ASSUME NEW k \in {1, 2},
               Import(v, v \cup (Before(NvBufImport, k) \ IF k = 2 THEN {"dup"} ELSE {}))
        PROVE  SubscriberHoldsItsViews'
    <3>1. Import(v, v)
      BY <2>1, FinishedCalls
    <3> QED
      BY <1>v, <3>1, ImportHolds
  <2>2. CASE Import(v \cup {"nvbuf", "nvcuda"}, v \cup AllOf(NvBufImport) \cup AllOf(CudaCalls))
    <3> DEFINE calls == v \cup AllOf(NvBufImport) \cup AllOf(CudaCalls)
    <3>1. \A y : y \in Mine(calls, n) <=>
                 y \in Mine(v, n) \/ y \in Mine({"dup", "surface"}, n) \/ y \in Mine({"register", "egl"}, n)
      BY FinishedCalls DEF Mine
    <3>2. \A y : (\E k \in v \cup {"nvbuf", "nvcuda"} : y \in DropOf(k, n)) <=>
                 (\E k \in v : y \in DropOf(k, n)) \/ y \in DropOf("nvbuf", n) \/ y \in DropOf("nvcuda", n)
      OBVIOUS
    <3>3. DropOf("nvbuf", n) = Mine({"dup", "surface"}, n) /\ DropOf("nvcuda", n) = Mine({"register", "egl"}, n)
      BY DEF DropOf
    <3>4. ASSUME NEW y
          PROVE  y \in Mine(calls, n) <=> \E k \in v \cup {"nvbuf", "nvcuda"} : y \in DropOf(k, n)
      <4>1. y \in Mine(v, n) <=> \E k \in v : y \in DropOf(k, n)
        BY <1>v
      <4>2. y \in Mine(calls, n) <=>
              y \in Mine(v, n) \/ y \in DropOf("nvbuf", n) \/ y \in DropOf("nvcuda", n)
        BY <3>1, <3>3
      <4> QED
        BY <3>2, <4>1, <4>2
    <3> QED
      BY <2>2, <3>4, ImportHolds
  <2>3. ASSUME NEW j \in 1..Len(CudaCalls),
               Import(v \cup {"nvbuf"}, v \cup AllOf(NvBufImport) \cup
                                        (Before(CudaCalls, j) \ Undone(CudaCalls[j])))
        PROVE  SubscriberHoldsItsViews'
    <3> DEFINE calls == v \cup {"dup", "surface"}
    <3>0. Import(v \cup {"nvbuf"}, calls)
      <4>1. v \cup AllOf(NvBufImport) \cup (Before(CudaCalls, j) \ Undone(CudaCalls[j])) = calls
        BY ImportPathsUndo, FinishedCalls
      <4> QED
        BY <2>3, <4>1
    <3>1. \A y : y \in Mine(calls, n) <=> y \in Mine(v, n) \/ y \in Mine({"dup", "surface"}, n)
      BY DEF Mine
    <3>2. \A y : (\E k \in v \cup {"nvbuf"} : y \in DropOf(k, n)) <=>
                 (\E k \in v : y \in DropOf(k, n)) \/ y \in DropOf("nvbuf", n)
      OBVIOUS
    <3>3. DropOf("nvbuf", n) = Mine({"dup", "surface"}, n)
      BY DEF DropOf
    <3>4. \A y : y \in Mine(calls, n) <=> \E k \in v \cup {"nvbuf"} : y \in DropOf(k, n)
      BY <1>v, <3>1, <3>2, <3>3
    <3> QED
      BY <3>0, <3>4, ImportHolds
  <2> QED
    BY <2>1, <2>2, <2>3
<1>4. CASE Attach
  <2>1. held' = {<<"fd", i, gen>> : i \in shared} /\ ~misfreed'
        /\ imported' = {"fd"} \X shared /\ attached' = [gen |-> gen, backend |-> backend]
    BY <1>0, <1>4 DEF Attach
  <2>2. \A i : DropOf("fd", i)' = {<<"fd", i, gen>>}
    BY <2>1 DEF DropOf, Mine
  <2>3. ASSUME NEW y PROVE y \in FreedByDetach' <=> y \in held'
    <3>1. y \in FreedByDetach' <=> \E x \in imported' : y \in DropOf(x[1], x[2])'
      BY DetachPartsNext
    <3>2. \A x \in imported' : x[1] = "fd" /\ x[2] \in shared
      BY <2>1
    <3>3. \A i \in shared : <<"fd", i>> \in imported' /\ <<"fd", i>>[1] = "fd" /\ <<"fd", i>>[2] = i
      BY <2>1
    <3>4. y \in held' <=> \E i \in shared : y = <<"fd", i, gen>>
      BY <2>1
    <3>5. ASSUME NEW i \in shared PROVE y \in DropOf("fd", i)' <=> y = <<"fd", i, gen>>
      BY <2>2
    <3> QED
      BY <3>1, <3>2, <3>3, <3>4, <3>5
  <2> QED
    BY <2>1, <2>3 DEF SubscriberHoldsItsViews
<1>5. CASE Detach
  <2>1. held' = {} /\ ~misfreed' /\ imported' = {}
    BY <1>0, <1>5 DEF Detach, Drop
  <2>2. FreedByDetach' = {}
    BY <2>1, DetachPartsNext
  <2> QED
    BY <2>1, <2>2 DEF SubscriberHoldsItsViews
<1>6. CASE UNCHANGED importVars
  BY <1>6 DEF importVars, SubscriberHoldsItsViews, FreedByDetach, Mine
<1>7. CASE ~Attach /\ ~ImportStep /\ ~Detach
  BY <1>6, <1>7 DEF PoolNext, ImportStep, Create, OpenDevice, FailAllocation, DeviceRefuses, MakeBuffer,
     FailBuffer, EndAllocation, FailImportParams, Retire, Destroy, MapCudaView, AcquireNext, Release,
     poolVars
<1> QED
  BY <1>1, <1>2, <1>3, <1>4, <1>5, <1>7 DEF ImportStep

-----------------------------------------------------------------------------
(* The theorems                                                             *)

LEMMA InitInv == PoolInit => IInv
<1> SUFFICES ASSUME PoolInit PROVE IInv
  OBVIOUS
<1>1. \A c \in Holders : lease[c] = NoLease
  BY DEF PoolInit
<1>2. LeaseInv /\ FlagInv /\ RoundInv
  BY <1>1 DEF PoolInit, LeaseInv, InHandOnce, FlagInv, RoundInv
<1>3. Freed = {} /\ open = {} /\ ~misclosed /\ pc # "buffer"
  BY NothingFreed DEF PoolInit
<1>4. OwnerHoldsItsPool
  BY <1>3 DEF OwnerHoldsItsPool
<1>5. FreedByDetach = {}
  BY DetachParts DEF PoolInit
<1>6. SubscriberHoldsItsViews
  BY <1>5 DEF PoolInit, SubscriberHoldsItsViews
<1> QED
  BY <1>2, <1>4, <1>6, InitTyped, InitPhase DEF IInv

LEMMA StepInv == IInv /\ [PoolNext]_poolVars => IInv'
  BY StepTyped, StepPhase, StepLease, StepFlag, StepRound, StepImport, StepOwner, StepSubscriber DEF IInv

\* The pool, its ring of flags and its attachments, together.
THEOREM Invariance == PoolSpec => []IInv
  BY InitInv, StepInv, PTL DEF PoolSpec

\* Every variable stays in its type: no index passes the end of the ring.
THEOREM TypeCorrectness == PoolSpec => []PoolTypeOK
<1>1. IInv => PoolTypeOK
  BY DEF IInv
<1> QED
  BY <1>1, Invariance, PTL

\* Whatever call of an allocation fails, the owner's process holds exactly what
\* the pool still knows of, and closes nothing twice.
THEOREM OwnersHoldTheirPool == PoolSpec => []OwnerHoldsItsPool
<1>1. IInv => OwnerHoldsItsPool
  BY DEF IInv
<1> QED
  BY <1>1, Invariance, PTL

\* Whatever import fails half-way, the subscriber's process holds exactly what
\* detach() will give back, and gives nothing back twice.
THEOREM SubscribersHoldTheirViews == PoolSpec => []SubscriberHoldsItsViews
<1>1. IInv => SubscriberHoldsItsViews
  BY DEF IInv
<1> QED
  BY <1>1, Invariance, PTL

\* A raised flag is that of a buffer in hand, and a buffer in hand has its flag and
\* is in hand once, unless an index of an older generation was released: for any
\* number of buffers in hand, across retires and reallocations that fail.
THEOREM FlagsFollowTheLeases == PoolSpec => []FlagsFollowLeases
<1>1. IInv => FlagsFollowLeases
  <2> SUFFICES ASSUME IInv PROVE FlagsFollowLeases
    OBVIOUS
  <2>1. ASSUME NEW c \in Holders, lease[c][1] = gen, lease[c] \notin stale
        PROVE  lease[c][2] \in inUse /\ \A d \in Holders \ {c} : lease[d] # lease[c]
    <3>1. lease[c] # NoLease
      <4>1. gen # 0
        BY TypeParts, Constants DEF IInv, OwnTyped, Gens
      <4> QED
        BY <2>1, <4>1 DEF NoLease
    <3> QED
      BY <2>1, <3>1 DEF IInv, LeaseInv, InHandOnce
  <2> QED
    BY <2>1 DEF IInv, FlagInv, FlagsFollowLeases
<1> QED
  BY <1>1, Invariance, PTL

LEMMA NotPassedFromInv == IInv => NoFreeBufferPassedOver
<1> SUFFICES ASSUME IInv, NEW i \in shared PROVE passed[i] < NBuffers
  BY DEF NoFreeBufferPassedOver
<1>0. OwnTyped /\ RingTyped
  BY TypeParts DEF IInv
<1>1. i \in Indexes /\ passed[i] \in Nat /\ head \in Indexes
  BY <1>0 DEF OwnTyped, RingTyped
<1>2. CASE i \in inUse
  BY <1>2, Constants DEF IInv, RoundInv
<1>3. CASE i \notin inUse
  <2>1. passed[i] + Ahead(i) < NBuffers
    BY <1>3 DEF IInv, RoundInv
  <2>2. Ahead(i) \in 0..(NBuffers - 1)
    BY <1>1, Constants DEF Ahead, Indexes
  <2> QED
    BY <1>1, <2>1, <2>2, Constants
<1> QED
  BY <1>2, <1>3

\* acquire_next() goes round: fewer than NBuffers other buffers are handed out
\* while one stays free.
THEOREM NoFreeBufferIsPassedOver == PoolSpec => []NoFreeBufferPassedOver
  BY Invariance, NotPassedFromInv, PTL

-----------------------------------------------------------------------------
(* Module OffloadStream.  What is said of the producer is about its         *)
(* application a, the instances i created so far, the one p that lives, the *)
(* counters c and the pools b, since publish() may change them twice.       *)

Instances == 1..MaxInstances
Frames == 0..MaxFrame
Places == 0..(RingSize - 1)
Buffers == [head : Frames, tail : Frames]
Messages == [seq : Frames \ {0}, inst : Instances, size : Nat, idx : Places]

ProducerTyped(a, i, p, c, b) ==
  /\ a \in Apps /\ i \in 0..MaxInstances
  /\ p \in [inst : {0, i}, size : Nat, bytes : Nat, replaced : BOOLEAN]
  /\ c \in [begun : Frames, full : Frames, sent : Frames, back : Frames]
  /\ b \in [Instances -> [Places -> Buffers]]

\* A frame is begun after the last one is full, and announced when it is.
CountsAgree(a, p, c) ==
  /\ c.sent =< c.full /\ c.full =< c.begun /\ c.begun =< c.full + 1
  /\ a # "spike" => c.sent = c.full
  /\ p.bytes =< p.size

\* A frame goes to its own place of the ring, and its stamp before its pixels.
InPlace(x, j) == /\ x.head = 0 \/ Slot(x.head) = j
                 /\ x.tail = 0 \/ Slot(x.tail) = j
                 /\ x.tail =< x.head
PoolsAgree(i, b) == \A q \in Instances : /\ \A j \in Places : InPlace(b[q][j], j)
                                         /\ q > i => b[q] = Blank
\* What the producer that lives has written.
LiveAgrees(a, p, c, b) == p.inst # 0 =>
  /\ \A j \in Places : b[p.inst][j].head =< c.begun /\ b[p.inst][j].tail =< c.full
  /\ c.full < c.begun => b[p.inst][Slot(c.begun)].head = c.begun
  /\ a = "spike" => \A s \in 1..c.full : /\ b[p.inst][Slot(s)].head >= s
                                         /\ b[p.inst][Slot(s)].tail >= s
ProducerInv(a, i, p, c, b) == /\ ProducerTyped(a, i, p, c, b) /\ CountsAgree(a, p, c)
                              /\ PoolsAgree(i, b) /\ LiveAgrees(a, p, c, b)

\* An announced frame is in its buffer, or a later one is.
Told(m, i, p, c, b) ==
  /\ m \in Messages /\ m.inst =< i /\ m.idx = Slot(m.seq)
  /\ b[m.inst][m.idx].head >= m.seq /\ b[m.inst][m.idx].tail >= m.seq
  /\ m.inst = p.inst => m.seq =< c.sent /\ m.size =< p.size

\* The instance that lives afterwards is none, a new one, or the same further on.
Follows(i, p, c, p2, c2) ==
  \/ p2.inst = 0
  \/ p2.inst > i
  \/ p2.inst = p.inst /\ p2.size = p.size /\ c2.sent >= c.sent
Leads(i, p, c, b, i2, p2, c2, b2) ==
  /\ i =< i2 /\ Follows(i, p, c, p2, c2)
  /\ \A q \in Instances : \A j \in Places : /\ b2[q][j].head >= b[q][j].head
                                            /\ b2[q][j].tail >= b[q][j].tail

ConsumerTyped ==
  /\ link \in 0..inst /\ offer \in Nat
  /\ cpc \in {"idle", "connect", "hello", "ready", "head", "tail", "done"}
  /\ mapped \in [inst : 0..inst, size : Nat]
  /\ hand \in Messages \cup {NoMessage} /\ got \in Frames
WatchTyped ==
  /\ last \in [exact : BOOLEAN, lapped : BOOLEAN, foreign : BOOLEAN, inside : BOOLEAN]
  /\ wd \in [seen : Frames, from : 0..MaxInstances, last : Frames, lastFrom : 0..MaxInstances,
             arrived : BOOLEAN, heard : BOOLEAN, changed : BOOLEAN, ever : BOOLEAN,
             warned : BOOLEAN]

\* The consumer knows the sizes of pools as they are.
SizeInv == prod.inst # 0 => /\ link = prod.inst /\ offer # 0 => offer = prod.size
                            /\ mapped.inst = prod.inst => mapped.size = prod.size
Announced(m) == /\ Told(m, inst, prod, count, pool)
                /\ m.inst = link /\ offer # 0 => m.size =< offer
                /\ m.inst = mapped.inst => m.size =< mapped.size
QueueInv == queue \in Seq(Messages) /\ \A k \in 1..Len(queue) : Announced(queue[k])

\* When the consumer has a message in hand, and what it has read of its frame.
Working == cpc \in {"head", "tail"} \/ (app = "image" /\ cpc \in {"connect", "hello"})
HandInv == /\ Working => Announced(hand)
           /\ cpc = "hello" => link # 0
           /\ cpc \in {"ready", "head", "tail"} => mapped.inst # 0
ReadInv == cpc = "tail" /\ hand.inst = mapped.inst =>
  /\ got >= hand.seq /\ Slot(got) = hand.idx
  /\ got =< pool[hand.inst][hand.idx].head

\* Messages are in the order of instances and their frames, and ros1 sees them so.
Earlier(q, s, r, n) == q < r \/ (q = r /\ s < n)
Ordered(q) == \A k, l \in 1..Len(q) : k < l => Earlier(q[k].inst, q[k].seq, q[l].inst, q[l].seq)
After(q, p, s) == \A k \in 1..Len(q) : Earlier(p, s, q[k].inst, q[k].seq)
OrderInv == Ordered(queue) /\ (app = "ros1" => After(queue, wd.from, wd.seen))
WatchInv ==
  /\ wd.from =< inst
  /\ wd.from = prod.inst /\ prod.inst # 0 => wd.seen =< count.sent
  /\ IF wd.arrived THEN Earlier(wd.lastFrom, wd.last, wd.from, wd.seen)
                   ELSE wd.from = wd.lastFrom /\ wd.seen = wd.last

OffloadInv == /\ ProducerInv(app, inst, prod, count, pool) /\ ConsumerTyped /\ WatchTyped
              /\ SizeInv /\ QueueInv /\ HandInv /\ ReadInv /\ OrderInv /\ WatchInv
              /\ PayloadErrorsAreLaps /\ WatchdogTruthful

-----------------------------------------------------------------------------
(* The ring of buffers.                                                     *)

LEMMA RingConstants ==
  /\ RingSize \in Nat /\ RingSize >= 1 /\ MaxFrame \in Nat /\ MaxInstances \in Nat
  /\ 0 \in Frames /\ Frames \subseteq Nat /\ Instances \subseteq Nat /\ Places \subseteq Nat
  BY OffloadBounds DEF Frames, Instances, Places

LEMMA SlotPlace == ASSUME NEW s \in Nat PROVE Slot(s) \in Places
  BY RingConstants DEF Slot, Places

\* Two frames of one buffer are a whole ring apart.
LEMMA SlotLapped ==
  ASSUME NEW s \in Nat, NEW n \in Nat, s < n, Slot(s) = Slot(n)
  PROVE  n >= s + RingSize
<1>1. RingSize \in Nat \ {0}
  BY RingConstants
<1>2. /\ s = RingSize * (s \div RingSize) + (s % RingSize)
      /\ n = RingSize * (n \div RingSize) + (n % RingSize)
      /\ s \div RingSize \in Int /\ n \div RingSize \in Int
  BY <1>1, SMT
<1> DEFINE p == s \div RingSize
           q == n \div RingSize
           r == s % RingSize
<1>3. r \in Int
  BY <1>1, SMT
<1>4. p \in Int /\ q \in Int /\ s = RingSize * p + r /\ n = RingSize * q + r
  BY <1>2 DEF Slot
<1> HIDE DEF p, q, r
<1>5. q >= p + 1
  BY <1>1, <1>3, <1>4, SMT
<1> QED
  BY <1>1, <1>3, <1>4, <1>5, SMT

\* The greatest of some bounded numbers.
LEMMA GreatestIs ==
  ASSUME NEW N \in Nat, NEW T \in SUBSET (0..N), T # {}
  PROVE  Max(T) \in T /\ \A y \in T : Max(T) >= y
<1> DEFINE R == {ss \in Nat \X Nat : ss[1] < ss[2]}
           U == {N - y : y \in T}
<1>1. IsWellFoundedOn(R, Nat)
  BY NatLessThanWellFounded DEF OpToRel
<1>2. U \in SUBSET Nat /\ U # {}
  <2>1. ASSUME NEW y \in T PROVE N - y \in Nat
    <3>1. y \in 0..N
      OBVIOUS
    <3> QED
      BY <3>1
  <2>2. PICK y \in T : TRUE
    OBVIOUS
  <2>3. N - y \in U
    OBVIOUS
  <2> QED
    BY <2>1, <2>3
<1>3. PICK u \in U : \A v \in U : ~(<<v, u>> \in R)
  <2> HIDE DEF R, U
  <2> QED
    BY <1>1, <1>2, WFMin
<1>4. PICK x \in T : u = N - x
  OBVIOUS
<1>5. ASSUME NEW y \in T PROVE x >= y
  <2>1. N - y \in U /\ N - y \in Nat /\ u \in Nat
    BY <1>2
  <2>2. <<N - y, u>> \in Nat \X Nat /\ <<N - y, u>>[1] = N - y /\ <<N - y, u>>[2] = u
    BY <2>1
  <2>3. ~(N - y < u)
    BY <1>3, <2>1, <2>2
  <2> QED
    BY <1>4, <2>3
<1> QED
  BY <1>5 DEF Max

\* The pools once the first, or the second, part of a buffer is written.
Headed(b, q, j, n) == [b EXCEPT ![q][j].head = n]
Tailed(b, q, j, n) == [b EXCEPT ![q][j].tail = n]

LEMMA HeadWritten ==
  ASSUME NEW b \in [Instances -> [Places -> Buffers]], NEW q \in Instances, NEW j \in Places,
         NEW n \in Frames, NEW b2, b2 = Headed(b, q, j, n)
  PROVE  /\ b2 \in [Instances -> [Places -> Buffers]]
         /\ b2[q][j] = [head |-> n, tail |-> b[q][j].tail]
         /\ \A r \in Instances : \A k \in Places : (r = q /\ k = j) \/ b2[r][k] = b[r][k]
         /\ \A r \in Instances : r # q => b2[r] = b[r]
<1> DEFINE x == [b[q][j] EXCEPT !.head = n]
<1>1. x = [head |-> n, tail |-> b[q][j].tail] /\ x \in Buffers
  BY DEF Buffers
<1> HIDE DEF x
<1>2. b2 = [b EXCEPT ![q][j] = x]
  BY DEF Headed, x
<1> QED
  BY <1>1, <1>2

LEMMA TailWritten ==
  ASSUME NEW b \in [Instances -> [Places -> Buffers]], NEW q \in Instances, NEW j \in Places,
         NEW n \in Frames, NEW b2, b2 = Tailed(b, q, j, n)
  PROVE  /\ b2 \in [Instances -> [Places -> Buffers]]
         /\ b2[q][j] = [head |-> b[q][j].head, tail |-> n]
         /\ \A r \in Instances : \A k \in Places : (r = q /\ k = j) \/ b2[r][k] = b[r][k]
         /\ \A r \in Instances : r # q => b2[r] = b[r]
<1> DEFINE x == [b[q][j] EXCEPT !.tail = n]
<1>1. x = [head |-> b[q][j].head, tail |-> n] /\ x \in Buffers
  BY DEF Buffers
<1> HIDE DEF x
<1>2. b2 = [b EXCEPT ![q][j] = x]
  BY DEF Tailed, x
<1> QED
  BY <1>1, <1>2
LEMMA ProducerNumbers ==
  ASSUME NEW a, NEW i, NEW p, NEW c, NEW b, ProducerTyped(a, i, p, c, b)
  PROVE  /\ i \in Nat /\ i =< MaxInstances
         /\ p.inst \in Nat /\ p.inst \in {0, i} /\ p.size \in Nat /\ p.bytes \in Nat
         /\ p.inst # 0 => p.inst = i /\ i \in Instances
         /\ c.begun \in Nat /\ c.full \in Nat /\ c.sent \in Nat /\ c.back \in Nat
         /\ c.begun =< MaxFrame /\ c.full =< MaxFrame /\ c.sent =< MaxFrame
<1>1. i \in Nat /\ i =< MaxInstances
  BY RingConstants DEF ProducerTyped
<1>2. p.inst \in {0, i} /\ p.size \in Nat /\ p.bytes \in Nat
  BY DEF ProducerTyped
<1>3. c.begun \in Frames /\ c.full \in Frames /\ c.sent \in Frames /\ c.back \in Frames
  BY DEF ProducerTyped
<1>4. \A n \in Frames : n \in Nat /\ n =< MaxFrame
  BY RingConstants DEF Frames
<1>5. i # 0 => i \in Instances
  BY <1>1, RingConstants DEF Instances
<1> QED
  BY <1>1, <1>2, <1>3, <1>4, <1>5

LEMMA MessageNumbers ==
  ASSUME NEW m \in Messages
  PROVE  /\ m.inst \in Instances /\ m.inst \in Nat /\ m.inst >= 1 /\ m.idx \in Places
         /\ m.seq \in Frames /\ m.seq \in Nat /\ m.seq >= 1 /\ m.size \in Nat
<1>1. m.inst \in Instances /\ m.idx \in Places /\ m.seq \in Frames \ {0} /\ m.size \in Nat
  BY DEF Messages
<1>2. \A q \in Instances : q \in Nat /\ q >= 1
  BY RingConstants DEF Instances
<1>3. \A n \in Frames \ {0} : n \in Nat /\ n >= 1
  BY RingConstants DEF Frames
<1> QED
  BY <1>1, <1>2, <1>3

\* What the steps of a producer make of its record and its counters.
Fresh(i, n, r) == [inst |-> i + 1, size |-> n, bytes |-> n, replaced |-> r]
Given(p, n) == [p EXCEPT !.bytes = n]
OneBegun(c) == [c EXCEPT !.begun = @ + 1]
Filled(a, c) == IF a = "spike" THEN [c EXCEPT !.full = c.begun]
                ELSE [c EXCEPT !.full = c.begun, !.sent = c.begun, !.back = c.begun]
OneSent(c) == [c EXCEPT !.sent = @ + 1]
OneBack(c) == [c EXCEPT !.back = @ + 1]

\* What has been announced stays told when the producer goes on.
LEMMA TellsOn ==
  ASSUME NEW a, NEW i, NEW p, NEW c, NEW b, NEW i2, NEW p2, NEW c2, NEW b2,
         ProducerTyped(a, i, p, c, b), ProducerTyped(a, i2, p2, c2, b2),
         Leads(i, p, c, b, i2, p2, c2, b2), NEW m, Told(m, i, p, c, b)
  PROVE  Told(m, i2, p2, c2, b2)
<1>1. /\ m.inst \in Instances /\ m.idx \in Places /\ m.seq \in Nat /\ m.size \in Nat
      /\ m.inst \in Nat /\ m.inst >= 1
  BY MessageNumbers DEF Told
<1>2. /\ i \in Nat /\ i2 \in Nat /\ p.inst \in Nat /\ p2.inst \in Nat /\ c.sent \in Nat
      /\ c2.sent \in Nat
  BY ProducerNumbers
<1>3. /\ b[m.inst][m.idx] \in Buffers /\ b2[m.inst][m.idx] \in Buffers
  BY <1>1 DEF ProducerTyped
<1>4. /\ b[m.inst][m.idx].head \in Nat /\ b[m.inst][m.idx].tail \in Nat
      /\ b2[m.inst][m.idx].head \in Nat /\ b2[m.inst][m.idx].tail \in Nat
  BY <1>3, RingConstants DEF Buffers
<1>5. b2[m.inst][m.idx].head >= m.seq /\ b2[m.inst][m.idx].tail >= m.seq
  BY <1>1, <1>4 DEF Told, Leads
<1>6. m.inst =< i2
  BY <1>1, <1>2 DEF Told, Leads
<1>7. ASSUME m.inst = p2.inst PROVE m.seq =< c2.sent /\ m.size =< p2.size
  <2>1. p2.inst = p.inst /\ p2.size = p.size /\ c2.sent >= c.sent
    BY <1>1, <1>2, <1>7 DEF Told, Leads, Follows
  <2> QED
    BY <1>1, <1>2, <1>7, <2>1 DEF Told
<1> QED
  BY <1>5, <1>6, <1>7 DEF Told

\* What a pool is before its first frame.
LEMMA BlankRing ==
  /\ Blank \in [Places -> Buffers]
  /\ \A j \in Places : Blank[j] = [head |-> 0, tail |-> 0] /\ InPlace(Blank[j], j)
<1>1. [head |-> 0, tail |-> 0] \in Buffers
  BY RingConstants DEF Buffers
<1> QED
  BY <1>1 DEF Blank, Places, InPlace

LEMMA PoolNumbers ==
  ASSUME NEW b \in [Instances -> [Places -> Buffers]], NEW q \in Instances, NEW j \in Places
  PROVE  /\ b[q][j] \in Buffers /\ b[q][j].head \in Frames /\ b[q][j].tail \in Frames
         /\ b[q][j].head \in Nat /\ b[q][j].tail \in Nat
  BY RingConstants DEF Buffers

\* NewProducer() and a camera that starts.
LEMMA NewOK ==
  ASSUME NEW a, NEW i, NEW p, NEW c, NEW b, ProducerInv(a, i, p, c, b), i < MaxInstances,
         NEW size \in Sizes, NEW r \in BOOLEAN, NEW c2,
         c2 = NoCount \/ (c2 = c /\ a # "spike" /\ c.begun = c.sent),
         NEW p2, p2 = Fresh(i, size, r)
  PROVE  ProducerInv(a, i + 1, p2, c2, b) /\ Leads(i, p, c, b, i + 1, p2, c2, b)
<1>1. /\ size \in Nat /\ i \in Nat /\ i + 1 \in Instances /\ i + 1 =< MaxInstances
      /\ p2.inst = i + 1 /\ p2.size = size /\ p2.bytes = size
  BY FramesHaveBytes, RingConstants DEF ProducerInv, ProducerTyped, Instances, Fresh
<1>2. NoCount \in [begun : Frames, full : Frames, sent : Frames, back : Frames]
  BY RingConstants DEF NoCount
<1>3. ProducerTyped(a, i + 1, p2, c2, b)
  BY <1>1, <1>2 DEF ProducerInv, ProducerTyped, Instances, Fresh
<1>4. /\ c2.begun \in Nat /\ c2.full \in Nat /\ c2.sent \in Nat /\ c2.back \in Nat
  BY <1>3, RingConstants DEF ProducerTyped
<1>5. CountsAgree(a, p2, c2)
  <2>1. CASE c2 = NoCount
    BY <1>1, <2>1 DEF CountsAgree, NoCount
  <2>2. CASE c2 = c
    BY <1>1, <2>2 DEF CountsAgree, ProducerInv
  <2> QED
    BY <2>1, <2>2
<1>6. PoolsAgree(i + 1, b)
  <2>1. ASSUME NEW q \in Instances, q > i + 1 PROVE q > i
    BY <1>1, <2>1, RingConstants
  <2> QED
    BY <2>1 DEF PoolsAgree, ProducerInv
<1>7. b[p2.inst] = Blank
  <2>1. i + 1 > i
    BY <1>1
  <2> QED
    BY <1>1, <2>1 DEF PoolsAgree, ProducerInv
<1>8. c2.begun =< c2.full
  BY <1>4, <1>5 DEF NoCount, CountsAgree
<1>9. LiveAgrees(a, p2, c2, b)
  <2>1. ASSUME a = "spike" PROVE 1..c2.full = {}
    BY <2>1 DEF NoCount
  <2>2. ~(c2.full < c2.begun)
    BY <1>4, <1>8
  <2>3. \A j \in Places : b[p2.inst][j].head =< c2.begun /\ b[p2.inst][j].tail =< c2.full
    BY <1>4, <1>7, BlankRing
  <2> QED
    BY <2>1, <2>2, <2>3 DEF LiveAgrees
<1>10. Leads(i, p, c, b, i + 1, p2, c2, b)
  <2>1. i =< i + 1 /\ Follows(i, p, c, p2, c2)
    BY <1>1 DEF Follows
  <2>2. \A q \in Instances : \A j \in Places : /\ b[q][j].head >= b[q][j].head
                                               /\ b[q][j].tail >= b[q][j].tail
    BY <1>3, PoolNumbers DEF ProducerTyped
  <2> QED
    BY <2>1, <2>2 DEF Leads
<1> QED
  BY <1>3, <1>5, <1>6, <1>9, <1>10 DEF ProducerInv

\* A process that ends, or a create() that fails.
LEMMA EndOK ==
  ASSUME NEW a, NEW i, NEW p, NEW c, NEW b, ProducerInv(a, i, p, c, b), NEW c2,
         c2 = NoCount \/ c2 = c
  PROVE  ProducerInv(a, i, NoProd, c2, b) /\ Leads(i, p, c, b, i, NoProd, c2, b)
<1>1. NoProd.inst = 0 /\ NoProd.size = 0 /\ NoProd.bytes = 0
  BY DEF NoProd
<1>2. NoCount \in [begun : Frames, full : Frames, sent : Frames, back : Frames]
  BY RingConstants DEF NoCount
<1>3. ProducerTyped(a, i, NoProd, c2, b)
  BY <1>2 DEF ProducerInv, ProducerTyped, NoProd
<1>4. CountsAgree(a, NoProd, c2)
  BY <1>1 DEF CountsAgree, ProducerInv, NoCount
<1>5. Leads(i, p, c, b, i, NoProd, c2, b)
  <2>1. i =< i /\ Follows(i, p, c, NoProd, c2)
    BY <1>1, RingConstants DEF Follows, ProducerInv, ProducerTyped
  <2>2. \A q \in Instances : \A j \in Places : /\ b[q][j].head >= b[q][j].head
                                               /\ b[q][j].tail >= b[q][j].tail
    BY <1>3, PoolNumbers DEF ProducerTyped
  <2> QED
    BY <2>1, <2>2 DEF Leads
<1> QED
  BY <1>1, <1>3, <1>4, <1>5 DEF ProducerInv, LiveAgrees

\* The producer that lives takes a frame of this many bytes.
LEMMA SameOK ==
  ASSUME NEW a, NEW i, NEW p, NEW c, NEW b, ProducerInv(a, i, p, c, b),
         NEW bytes \in Nat, bytes =< p.size, NEW p2, p2 = Given(p, bytes)
  PROVE  /\ ProducerInv(a, i, p2, c, b) /\ Leads(i, p, c, b, i, p2, c, b)
         /\ p2.inst = p.inst /\ p2.size = p.size
<1>1. /\ p2 = [inst |-> p.inst, size |-> p.size, bytes |-> bytes, replaced |-> p.replaced]
  BY DEF ProducerInv, ProducerTyped, Given
<1>2. p2.inst = p.inst /\ p2.size = p.size /\ p2.bytes = bytes
  BY <1>1
<1>3. ProducerTyped(a, i, p2, c, b)
  BY <1>1 DEF ProducerInv, ProducerTyped
<1>4. CountsAgree(a, p2, c)
  BY <1>2 DEF CountsAgree, ProducerInv
<1>5. Leads(i, p, c, b, i, p2, c, b)
  <2>1. i =< i /\ Follows(i, p, c, p2, c)
    BY <1>2, ProducerNumbers DEF Follows, ProducerInv
  <2>2. \A q \in Instances : \A j \in Places : /\ b[q][j].head >= b[q][j].head
                                               /\ b[q][j].tail >= b[q][j].tail
    BY <1>3, PoolNumbers DEF ProducerTyped
  <2> QED
    BY <2>1, <2>2 DEF Leads
<1> QED
  BY <1>2, <1>3, <1>4, <1>5 DEF ProducerInv, LiveAgrees
\* Begin: the stamp of the next frame.
LEMMA BeginOK ==
  ASSUME NEW a, NEW i, NEW p, NEW c, NEW b, ProducerInv(a, i, p, c, b), p.inst # 0,
         c.begun = c.full, c.begun < MaxFrame,
         NEW c2, c2 = OneBegun(c),
         NEW b2, b2 = Headed(b, p.inst, Slot(c2.begun), c2.begun)
  PROVE  ProducerInv(a, i, p, c2, b2) /\ Leads(i, p, c, b, i, p, c2, b2)
<1>1. ProducerTyped(a, i, p, c, b)
  BY DEF ProducerInv
<1>2. /\ i \in Nat /\ p.inst \in Instances /\ p.inst = i /\ c.begun \in Nat /\ c.full \in Nat
      /\ c.sent \in Nat /\ b \in [Instances -> [Places -> Buffers]]
  BY <1>1, ProducerNumbers DEF ProducerTyped
<1>3. c.begun + 1 \in Frames /\ c.begun + 1 \in Nat
  BY <1>2, RingConstants DEF Frames
<1>4. c2 = [begun |-> c.begun + 1, full |-> c.full, sent |-> c.sent, back |-> c.back]
  BY <1>1 DEF ProducerTyped, OneBegun
<1>5. /\ c2.begun = c.begun + 1 /\ c2.full = c.full /\ c2.sent = c.sent
      /\ c2 \in [begun : Frames, full : Frames, sent : Frames, back : Frames]
  BY <1>1, <1>3, <1>4 DEF ProducerTyped
<1> DEFINE n == c.begun + 1
           j == Slot(n)
<1>6. n \in Nat /\ n \in Frames /\ j \in Places /\ n = c.begun + 1 /\ j = Slot(n)
  BY <1>3, SlotPlace
<1>7. b2 = Headed(b, p.inst, j, n)
  BY <1>5
<1> HIDE DEF n, j
<1>8. /\ b2 \in [Instances -> [Places -> Buffers]]
      /\ b2[p.inst][j] = [head |-> n, tail |-> b[p.inst][j].tail]
      /\ \A r \in Instances : \A k \in Places : (r = p.inst /\ k = j) \/ b2[r][k] = b[r][k]
      /\ \A r \in Instances : r # p.inst => b2[r] = b[r]
  BY <1>2, <1>6, <1>7, HeadWritten
<1>9. b2[p.inst][j].head = n /\ b2[p.inst][j].tail = b[p.inst][j].tail
  BY <1>8
<1>10. b[p.inst][j].head =< c.begun /\ b[p.inst][j].tail =< c.full
  BY <1>2, <1>6 DEF ProducerInv, LiveAgrees
<1>11. b[p.inst][j].head \in Nat /\ b[p.inst][j].tail \in Nat
  BY <1>2, <1>6, PoolNumbers
<1>12. ProducerTyped(a, i, p, c2, b2)
  BY <1>1, <1>5, <1>8 DEF ProducerTyped
<1>13. CountsAgree(a, p, c2)
  <2>1. CountsAgree(a, p, c)
    BY DEF ProducerInv
  <2> QED
    BY <1>2, <1>5, <2>1 DEF CountsAgree
<1>14. PoolsAgree(i, b2)
  <2>0. PoolsAgree(i, b)
    BY DEF ProducerInv
  <2>1. ASSUME NEW q \in Instances, NEW k \in Places PROVE InPlace(b2[q][k], k)
    <3>1. CASE q = p.inst /\ k = j
      <4>1. InPlace(b[q][k], k)
        BY <2>0 DEF PoolsAgree
      <4>2. b[p.inst][j].tail =< n
        BY <1>2, <1>6, <1>10, <1>11
      <4> QED
        BY <1>6, <1>9, <3>1, <4>1, <4>2 DEF InPlace
    <3>2. CASE ~(q = p.inst /\ k = j)
      BY <1>8, <2>0, <3>2 DEF PoolsAgree
    <3> QED
      BY <3>1, <3>2
  <2>2. ASSUME NEW q \in Instances, q > i PROVE b2[q] = Blank
    <3>1. q # p.inst
      BY <1>2, <2>2
    <3> QED
      BY <1>8, <2>0, <2>2, <3>1 DEF PoolsAgree
  <2> QED
    BY <2>1, <2>2 DEF PoolsAgree
<1>15. \A q \in Instances : \A k \in Places : /\ b2[q][k].head >= b[q][k].head
                                              /\ b2[q][k].tail >= b[q][k].tail
  <2> SUFFICES ASSUME NEW q \in Instances, NEW k \in Places
               PROVE  b2[q][k].head >= b[q][k].head /\ b2[q][k].tail >= b[q][k].tail
    OBVIOUS
  <2>1. CASE q = p.inst /\ k = j
    BY <1>2, <1>6, <1>9, <1>10, <1>11, <2>1
  <2>2. CASE ~(q = p.inst /\ k = j)
    <3>1. b2[q][k].head = b[q][k].head /\ b2[q][k].tail = b[q][k].tail
      BY <1>8, <2>2
    <3>2. b[q][k].head \in Nat /\ b[q][k].tail \in Nat
      BY <1>2, PoolNumbers
    <3> QED
      BY <3>1, <3>2
  <2> QED
    BY <2>1, <2>2
<1>16. LiveAgrees(a, p, c2, b2)
  <2>0. LiveAgrees(a, p, c, b)
    BY DEF ProducerInv
  <2>1. ASSUME NEW k \in Places
        PROVE  b2[p.inst][k].head =< c2.begun /\ b2[p.inst][k].tail =< c2.full
    <3>1. /\ b[p.inst][k].head =< c.begun /\ b[p.inst][k].tail =< c.full
          /\ b[p.inst][k].head \in Nat /\ b[p.inst][k].tail \in Nat
      BY <1>2, <2>0, PoolNumbers DEF LiveAgrees
    <3>2. CASE k = j
      BY <1>2, <1>5, <1>6, <1>9, <3>1, <3>2
    <3>3. CASE k # j
      <4>1. b2[p.inst][k] = b[p.inst][k]
        BY <1>2, <1>8, <3>3
      <4> QED
        BY <1>2, <1>5, <3>1, <4>1
    <3> QED
      BY <3>2, <3>3
  <2>2. b2[p.inst][Slot(c2.begun)].head = c2.begun
    BY <1>5, <1>6, <1>9
  <2>3. ASSUME a = "spike", NEW s \in 1..c2.full
        PROVE  b2[p.inst][Slot(s)].head >= s /\ b2[p.inst][Slot(s)].tail >= s
    <3>1. s \in Nat /\ Slot(s) \in Places /\ s \in 1..c.full
      BY <1>2, <1>5, SlotPlace
    <3>2. b[p.inst][Slot(s)].head >= s /\ b[p.inst][Slot(s)].tail >= s
      BY <2>0, <2>3, <3>1 DEF LiveAgrees
    <3>3. /\ b[p.inst][Slot(s)].head \in Nat /\ b[p.inst][Slot(s)].tail \in Nat
          /\ b2[p.inst][Slot(s)].head \in Nat /\ b2[p.inst][Slot(s)].tail \in Nat
      BY <1>2, <1>8, <3>1, PoolNumbers
    <3> QED
      BY <1>2, <1>15, <3>1, <3>2, <3>3
  <2> QED
    BY <2>1, <2>2, <2>3 DEF LiveAgrees
<1>17. Leads(i, p, c, b, i, p, c2, b2)
  BY <1>2, <1>5, <1>15 DEF Leads, Follows
<1> QED
  BY <1>12, <1>13, <1>14, <1>16, <1>17 DEF ProducerInv

\* The frame is complete; the camera's is announced later.
LEMMA FullOK ==
  ASSUME NEW a, NEW i, NEW p, NEW c, NEW b, ProducerInv(a, i, p, c, b), p.inst # 0,
         c.full < c.begun,
         NEW c2, c2 = Filled(a, c),
         NEW b2, b2 = Tailed(b, p.inst, Slot(c.begun), c.begun)
  PROVE  ProducerInv(a, i, p, c2, b2) /\ Leads(i, p, c, b, i, p, c2, b2)
<1>1. ProducerTyped(a, i, p, c, b) /\ CountsAgree(a, p, c)
  BY DEF ProducerInv
<1>2. /\ i \in Nat /\ p.inst \in Instances /\ p.inst = i /\ c.begun \in Nat /\ c.full \in Nat
      /\ c.sent \in Nat /\ b \in [Instances -> [Places -> Buffers]]
      /\ c.begun \in Frames
  BY <1>1, ProducerNumbers DEF ProducerTyped
<1>3. c.begun = c.full + 1 /\ c.sent =< c.full
  BY <1>1, <1>2 DEF CountsAgree
<1>4. \/ /\ a = "spike"
         /\ c2 = [begun |-> c.begun, full |-> c.begun, sent |-> c.sent, back |-> c.back]
      \/ /\ a # "spike"
         /\ c2 = [begun |-> c.begun, full |-> c.begun, sent |-> c.begun, back |-> c.begun]
  BY <1>1 DEF ProducerTyped, Filled
<1>5. /\ c2.begun = c.begun /\ c2.full = c.begun
      /\ a = "spike" => c2.sent = c.sent
      /\ a # "spike" => c2.sent = c.begun
      /\ c2 \in [begun : Frames, full : Frames, sent : Frames, back : Frames]
  BY <1>1, <1>4 DEF ProducerTyped
<1> DEFINE n == c.begun
           j == Slot(n)
<1>6. n \in Nat /\ n \in Frames /\ j \in Places /\ n = c.begun /\ j = Slot(n)
  BY <1>2, SlotPlace
<1>7. b2 = Tailed(b, p.inst, j, n)
  BY <1>5
<1> HIDE DEF n, j
<1>8. /\ b2 \in [Instances -> [Places -> Buffers]]
      /\ b2[p.inst][j] = [head |-> b[p.inst][j].head, tail |-> n]
      /\ \A r \in Instances : \A k \in Places : (r = p.inst /\ k = j) \/ b2[r][k] = b[r][k]
      /\ \A r \in Instances : r # p.inst => b2[r] = b[r]
  BY <1>2, <1>6, <1>7, TailWritten
<1>9. b2[p.inst][j].head = b[p.inst][j].head /\ b2[p.inst][j].tail = n
  BY <1>8
<1>10. b[p.inst][j].head = n /\ b[p.inst][j].tail =< c.full
  BY <1>2, <1>6 DEF ProducerInv, LiveAgrees
<1>11. b[p.inst][j].head \in Nat /\ b[p.inst][j].tail \in Nat
  BY <1>2, <1>6, PoolNumbers
<1>12. ProducerTyped(a, i, p, c2, b2)
  BY <1>1, <1>5, <1>8 DEF ProducerTyped
<1>13. CountsAgree(a, p, c2)
  <2>1. c2.sent \in Nat
    BY <1>12, ProducerNumbers
  <2> QED
    BY <1>1, <1>2, <1>3, <1>5, <2>1 DEF CountsAgree
<1>14. PoolsAgree(i, b2)
  <2>0. PoolsAgree(i, b)
    BY DEF ProducerInv
  <2>1. ASSUME NEW q \in Instances, NEW k \in Places PROVE InPlace(b2[q][k], k)
    <3>1. CASE q = p.inst /\ k = j
      <4>1. b2[q][k].head = n /\ b2[q][k].tail = n
        BY <1>9, <1>10, <3>1
      <4> QED
        BY <1>6, <3>1, <4>1 DEF InPlace
    <3>2. CASE ~(q = p.inst /\ k = j)
      BY <1>8, <2>0, <3>2 DEF PoolsAgree
    <3> QED
      BY <3>1, <3>2
  <2>2. ASSUME NEW q \in Instances, q > i PROVE b2[q] = Blank
    <3>1. q # p.inst
      BY <1>2, <2>2
    <3> QED
      BY <1>8, <2>0, <2>2, <3>1 DEF PoolsAgree
  <2> QED
    BY <2>1, <2>2 DEF PoolsAgree
<1>15. \A q \in Instances : \A k \in Places : /\ b2[q][k].head >= b[q][k].head
                                              /\ b2[q][k].tail >= b[q][k].tail
  <2> SUFFICES ASSUME NEW q \in Instances, NEW k \in Places
               PROVE  b2[q][k].head >= b[q][k].head /\ b2[q][k].tail >= b[q][k].tail
    OBVIOUS
  <2>1. CASE q = p.inst /\ k = j
    BY <1>2, <1>6, <1>9, <1>10, <1>11, <2>1
  <2>2. CASE ~(q = p.inst /\ k = j)
    <3>1. b2[q][k].head = b[q][k].head /\ b2[q][k].tail = b[q][k].tail
      BY <1>8, <2>2
    <3>2. b[q][k].head \in Nat /\ b[q][k].tail \in Nat
      BY <1>2, PoolNumbers
    <3> QED
      BY <3>1, <3>2
  <2> QED
    BY <2>1, <2>2
<1>16. LiveAgrees(a, p, c2, b2)
  <2>0. LiveAgrees(a, p, c, b)
    BY DEF ProducerInv
  <2>1. ASSUME NEW k \in Places
        PROVE  b2[p.inst][k].head =< c2.begun /\ b2[p.inst][k].tail =< c2.full
    <3>1. /\ b[p.inst][k].head =< c.begun /\ b[p.inst][k].tail =< c.full
          /\ b[p.inst][k].head \in Nat /\ b[p.inst][k].tail \in Nat
      BY <1>2, <2>0, PoolNumbers DEF LiveAgrees
    <3>2. CASE k = j
      BY <1>2, <1>5, <1>6, <1>9, <1>10, <3>1, <3>2
    <3>3. CASE k # j
      <4>1. b2[p.inst][k] = b[p.inst][k]
        BY <1>2, <1>8, <3>3
      <4> QED
        BY <1>2, <1>3, <1>5, <3>1, <4>1
    <3> QED
      BY <3>2, <3>3
  <2>2. ~(c2.full < c2.begun)
    BY <1>2, <1>5
  <2>3. ASSUME a = "spike", NEW s \in 1..c2.full
        PROVE  b2[p.inst][Slot(s)].head >= s /\ b2[p.inst][Slot(s)].tail >= s
    <3>1. s \in Nat /\ Slot(s) \in Places /\ (s \in 1..c.full \/ s = n)
      BY <1>2, <1>3, <1>5, <1>6, SlotPlace
    <3>2. CASE s = n
      BY <1>6, <1>9, <1>10, <3>2
    <3>3. CASE s \in 1..c.full
      <4>1. b[p.inst][Slot(s)].head >= s /\ b[p.inst][Slot(s)].tail >= s
        BY <2>0, <2>3, <3>3 DEF LiveAgrees
      <4>2. /\ b[p.inst][Slot(s)].head \in Nat /\ b[p.inst][Slot(s)].tail \in Nat
            /\ b2[p.inst][Slot(s)].head \in Nat /\ b2[p.inst][Slot(s)].tail \in Nat
        BY <1>2, <1>8, <3>1, PoolNumbers
      <4> QED
        BY <1>2, <1>15, <3>1, <4>1, <4>2
    <3> QED
      BY <3>1, <3>2, <3>3
  <2> QED
    BY <2>1, <2>2, <2>3 DEF LiveAgrees
<1>17. Leads(i, p, c, b, i, p, c2, b2)
  <2>1. c2.sent >= c.sent
    BY <1>2, <1>3, <1>5
  <2> QED
    BY <1>2, <1>15, <2>1 DEF Leads, Follows
<1> QED
  BY <1>12, <1>13, <1>14, <1>16, <1>17 DEF ProducerInv

\* A frame of the camera is announced, or its buffer given back.
LEMMA CountOK ==
  ASSUME NEW a, NEW i, NEW p, NEW c, NEW b, ProducerInv(a, i, p, c, b), a = "spike",
         NEW c2, \/ c.sent < c.full /\ c2 = OneSent(c)
                 \/ c.back < c.sent /\ c2 = OneBack(c)
  PROVE  ProducerInv(a, i, p, c2, b) /\ Leads(i, p, c, b, i, p, c2, b)
<1>1. ProducerTyped(a, i, p, c, b) /\ CountsAgree(a, p, c)
  BY DEF ProducerInv
<1>2. /\ i \in Nat /\ c.begun \in Nat /\ c.full \in Nat /\ c.sent \in Nat /\ c.back \in Nat
      /\ c.full =< MaxFrame /\ c.sent =< MaxFrame
  BY <1>1, ProducerNumbers
<1>3. \/ /\ c.sent < c.full
         /\ c2 = [begun |-> c.begun, full |-> c.full, sent |-> c.sent + 1, back |-> c.back]
      \/ /\ c.back < c.sent
         /\ c2 = [begun |-> c.begun, full |-> c.full, sent |-> c.sent, back |-> c.back + 1]
  BY <1>1 DEF ProducerTyped, OneSent, OneBack
<1>4. /\ c.sent < c.full => c.sent + 1 \in Frames
      /\ c.back < c.sent => c.back + 1 \in Frames
  BY <1>2, RingConstants DEF Frames
<1>5. c2 \in [begun : Frames, full : Frames, sent : Frames, back : Frames]
  BY <1>1, <1>3, <1>4 DEF ProducerTyped
<1>6. /\ c2.begun = c.begun /\ c2.full = c.full
      /\ c2.sent = c.sent \/ (c.sent < c.full /\ c2.sent = c.sent + 1)
  BY <1>3
<1>7. ProducerTyped(a, i, p, c2, b)
  BY <1>1, <1>5 DEF ProducerTyped
<1>8. CountsAgree(a, p, c2)
  BY <1>1, <1>2, <1>6 DEF CountsAgree
<1>9. LiveAgrees(a, p, c2, b)
  BY <1>6 DEF ProducerInv, LiveAgrees
<1>10. Leads(i, p, c, b, i, p, c2, b)
  <2>1. c2.sent >= c.sent
    BY <1>2, <1>6
  <2>2. \A q \in Instances : \A j \in Places : /\ b[q][j].head >= b[q][j].head
                                               /\ b[q][j].tail >= b[q][j].tail
    BY <1>1, PoolNumbers DEF ProducerTyped
  <2> QED
    BY <1>2, <2>1, <2>2 DEF Leads, Follows
<1> QED
  BY <1>7, <1>8, <1>9, <1>10 DEF ProducerInv
\* A tick, or publish(): a frame begins with the producer that is there by then.
LEMMA TickOK ==
  ASSUME NEW a, NEW i, NEW p, NEW c, NEW b, NEW i2, NEW p2, ProducerInv(a, i2, p2, c, b),
         Leads(i, p, c, b, i2, p2, c, b), p2.inst # 0, c.begun = c.sent,
         NEW c2, NEW b2,
         \/ c2 = c /\ b2 = b
         \/ /\ c.begun < MaxFrame /\ c2 = OneBegun(c)
            /\ b2 = Headed(b, p2.inst, Slot(c2.begun), c2.begun)
  PROVE  ProducerInv(a, i2, p2, c2, b2) /\ Leads(i, p, c, b, i2, p2, c2, b2)
<1>1. CASE c2 = c /\ b2 = b
  BY <1>1
<1>2. CASE /\ c.begun < MaxFrame /\ c2 = OneBegun(c)
           /\ b2 = Headed(b, p2.inst, Slot(c2.begun), c2.begun)
  <2>1. ProducerTyped(a, i2, p2, c, b) /\ CountsAgree(a, p2, c)
    BY DEF ProducerInv
  <2>2. c.begun = c.full
    BY <2>1, ProducerNumbers DEF CountsAgree
  <2>3. ProducerInv(a, i2, p2, c2, b2) /\ Leads(i2, p2, c, b, i2, p2, c2, b2)
    BY <1>2, <2>2, BeginOK
  <2>4. c2.sent = c.sent
    BY <1>2, <2>1 DEF OneBegun, ProducerTyped
  <2> QED
    BY <2>3, <2>4 DEF Leads, Follows
<1> QED
  BY <1>1, <1>2

ProducerStands == ProducerInv(app, inst, prod, count, pool)
ProducerGoesOn == /\ ProducerInv(app', inst', prod', count', pool')
                  /\ Leads(inst, prod, count, pool, inst', prod', count', pool')
\* A step in which the consumer and its messages take no part, but may be let in.
Served == offer' = offer \/ (link # 0 /\ link = prod'.inst /\ offer' = prod'.size)
Quiet == /\ UNCHANGED <<app, link, cpc, mapped, hand, got, last, wd>>
         /\ Served
QuietStep == \/ Start \/ SpikeStart \/ Stop \/ ImageFails \/ TickBegin \/ ImageBegin
             \/ SpikeAccept \/ CameraBegins \/ CameraEnds \/ Requeue

LEMMA StandingNumbers ==
  ASSUME ProducerStands
  PROVE  /\ ProducerTyped(app, inst, prod, count, pool) /\ CountsAgree(app, prod, count)
         /\ inst \in Nat /\ inst =< MaxInstances /\ prod.inst \in Nat /\ prod.size \in Nat
         /\ prod.inst # 0 => prod.inst = inst /\ inst \in Instances
         /\ count.begun \in Nat /\ count.full \in Nat /\ count.sent \in Nat /\ count.back \in Nat
<1>1. ProducerTyped(app, inst, prod, count, pool) /\ CountsAgree(app, prod, count)
  BY DEF ProducerStands, ProducerInv
<1> QED
  BY <1>1, ProducerNumbers

LEMMA LeadsNowhere ==
  ASSUME ProducerStands
  PROVE  Leads(inst, prod, count, pool, inst, prod, count, pool)
<1>1. /\ inst \in Nat /\ count.sent \in Nat /\ pool \in [Instances -> [Places -> Buffers]]
  BY StandingNumbers DEF ProducerTyped
<1>2. \A q \in Instances : \A j \in Places : /\ pool[q][j].head >= pool[q][j].head
                                             /\ pool[q][j].tail >= pool[q][j].tail
  BY <1>1, PoolNumbers
<1> QED
  BY <1>1, <1>2 DEF Leads, Follows

LEMMA QuietSteps ==
  ASSUME ProducerStands, QuietStep
  PROVE  ProducerGoesOn /\ Quiet /\ queue' = queue
<1> USE DEF consumerVars
<1>0. ProducerInv(app, inst, prod, count, pool)
  BY DEF ProducerStands
<1>1. CASE Start \/ (SpikeStart /\ inst' # inst)
  <2>1. inst \in Nat
    BY StandingNumbers
  <2>2. PICK size \in Sizes : NewProducer(size, FALSE) /\ count' = NoCount
    BY <1>1, <2>1 DEF Start, SpikeStart
  <2>3. /\ inst < MaxInstances /\ inst' = inst + 1 /\ prod' = Fresh(inst, size, FALSE)
        /\ pool' = pool /\ app' = app
    BY <1>1, <2>2 DEF NewProducer, Fresh, Start, SpikeStart
  <2>4. /\ ProducerInv(app, inst + 1, prod', count', pool)
        /\ Leads(inst, prod, count, pool, inst + 1, prod', count', pool)
    BY <1>0, <2>2, <2>3, NewOK
  <2> QED
    BY <1>1, <2>3, <2>4 DEF ProducerGoesOn, Quiet, Served, Start, SpikeStart
<1>2. CASE SpikeStart /\ inst' = inst
  <2>1. inst \in Nat
    BY StandingNumbers
  <2>2. UNCHANGED <<app, inst, prod, count, pool, queue, consumerVars>>
    BY <1>2, <2>1 DEF SpikeStart, NewProducer
  <2> QED
    BY <1>0, <2>2, LeadsNowhere DEF ProducerGoesOn, Quiet, Served
<1>3. CASE Stop \/ ImageFails
  <2>1. /\ prod' = NoProd /\ (count' = NoCount \/ count' = count)
        /\ UNCHANGED <<app, inst, pool, queue, consumerVars>>
    BY <1>3 DEF Stop, ImageFails
  <2>2. /\ ProducerInv(app, inst, NoProd, count', pool)
        /\ Leads(inst, prod, count, pool, inst, NoProd, count', pool)
    BY <1>0, <2>1, EndOK
  <2> QED
    BY <2>1, <2>2 DEF ProducerGoesOn, Quiet, Served
<1>4. CASE TickBegin
  <2>1. /\ prod' = prod /\ inst' = inst /\ app' = app /\ prod.inst # 0
        /\ count.begun = count.sent
        /\ \/ count' = count /\ pool' = pool
           \/ /\ count.begun < MaxFrame /\ count' = OneBegun(count)
              /\ pool' = Headed(pool, prod.inst, Slot(count'.begun), count'.begun)
    BY <1>4 DEF TickBegin, Begin, Headed, OneBegun, Settled, Alive
  <2>2. /\ ProducerInv(app, inst, prod, count', pool')
        /\ Leads(inst, prod, count, pool, inst, prod, count', pool')
    BY <1>0, <2>1, LeadsNowhere, TickOK
  <2> QED
    BY <1>4, <2>1, <2>2 DEF ProducerGoesOn, Quiet, Served, TickBegin, Poll
<1>5. CASE ImageBegin
  <2>1. PICK bytes \in Sizes :
             \/ /\ NeedsProducer(bytes)
                /\ NewProducer(bytes, Alive)
             \/ /\ ~NeedsProducer(bytes)
                /\ prod' = [prod EXCEPT !.bytes = bytes]
                /\ UNCHANGED inst
    BY <1>5 DEF ImageBegin
  <2>2. /\ ProducerInv(app, inst', prod', count, pool)
        /\ Leads(inst, prod, count, pool, inst', prod', count, pool)
        /\ prod'.inst # 0
    <3>1. CASE NeedsProducer(bytes) /\ NewProducer(bytes, Alive)
      <4> DEFINE r == Alive
      <4>1. /\ inst < MaxInstances /\ inst' = inst + 1 /\ prod' = Fresh(inst, bytes, r)
            /\ r \in BOOLEAN /\ prod'.inst = inst + 1
        BY <3>1 DEF NewProducer, Fresh, Alive
      <4> HIDE DEF r
      <4>2. app # "spike" /\ count.begun = count.sent
        BY <1>5 DEF ImageBegin, Settled
      <4>3. /\ ProducerInv(app, inst + 1, prod', count, pool)
            /\ Leads(inst, prod, count, pool, inst + 1, prod', count, pool)
        BY <1>0, <4>1, <4>2, NewOK
      <4>4. inst + 1 # 0
        BY StandingNumbers
      <4> QED
        BY <4>1, <4>3, <4>4
    <3>2. CASE /\ ~NeedsProducer(bytes) /\ prod' = [prod EXCEPT !.bytes = bytes]
               /\ UNCHANGED inst
      <4>1. bytes \in Nat /\ bytes =< prod.size /\ prod.inst # 0
        BY <3>2, FramesHaveBytes, StandingNumbers DEF NeedsProducer, Alive
      <4>2. prod' = Given(prod, bytes)
        BY <3>2 DEF Given
      <4>3. /\ ProducerInv(app, inst, prod', count, pool)
            /\ Leads(inst, prod, count, pool, inst, prod', count, pool)
            /\ prod'.inst = prod.inst
        BY <1>0, <4>1, <4>2, SameOK
      <4> QED
        BY <3>2, <4>1, <4>3
    <3> QED
      BY <2>1, <3>1, <3>2
  <2>3. /\ count.begun = count.sent /\ app' = app
        /\ \/ count' = count /\ pool' = pool
           \/ /\ count.begun < MaxFrame /\ count' = OneBegun(count)
              /\ pool' = Headed(pool, prod'.inst, Slot(count'.begun), count'.begun)
    BY <1>5 DEF ImageBegin, Begin, Headed, OneBegun, Settled
  <2>4. /\ ProducerInv(app, inst', prod', count', pool')
        /\ Leads(inst, prod, count, pool, inst', prod', count', pool')
    BY <2>2, <2>3, TickOK
  <2> QED
    BY <1>5, <2>3, <2>4 DEF ProducerGoesOn, Quiet, Served, ImageBegin, Poll
<1>6. CASE SpikeAccept
  BY <1>0, <1>6, LeadsNowhere DEF ProducerGoesOn, Quiet, Served, SpikeAccept, Alive
<1>7. CASE CameraBegins
  <2>1. /\ prod' = prod /\ inst' = inst /\ app' = app /\ prod.inst # 0
        /\ count.begun = count.full /\ count.begun < MaxFrame /\ count' = OneBegun(count)
        /\ pool' = Headed(pool, prod.inst, Slot(count'.begun), count'.begun)
    BY <1>7 DEF CameraBegins, Begin, Headed, OneBegun, Streaming, Alive
  <2>2. /\ ProducerInv(app, inst, prod, count', pool')
        /\ Leads(inst, prod, count, pool, inst, prod, count', pool')
    BY <1>0, <2>1, BeginOK
  <2> QED
    BY <1>7, <2>1, <2>2 DEF ProducerGoesOn, Quiet, Served, CameraBegins
<1>8. CASE CameraEnds
  <2>1. /\ prod' = prod /\ inst' = inst /\ app' = app /\ prod.inst # 0
        /\ count.full < count.begun /\ count' = Filled(app, count)
        /\ pool' = Tailed(pool, prod.inst, Slot(count.begun), count.begun)
    BY <1>8 DEF CameraEnds, Tailed, Filled, Streaming, Alive
  <2>2. /\ ProducerInv(app, inst, prod, count', pool')
        /\ Leads(inst, prod, count, pool, inst, prod, count', pool')
    BY <1>0, <2>1, FullOK
  <2> QED
    BY <1>8, <2>1, <2>2 DEF ProducerGoesOn, Quiet, Served, CameraEnds
<1>9. CASE Requeue
  <2>1. /\ UNCHANGED <<app, inst, prod, pool>> /\ app = "spike"
        /\ count.back < count.sent /\ count' = OneBack(count)
    BY <1>9 DEF Requeue, OneBack, Streaming
  <2>2. /\ ProducerInv(app, inst, prod, count', pool)
        /\ Leads(inst, prod, count, pool, inst, prod, count', pool)
    BY <1>0, <2>1, CountOK
  <2> QED
    BY <1>9, <2>1, <2>2 DEF ProducerGoesOn, Quiet, Served, Requeue
<1> QED
  BY <1>1, <1>2, <1>3, <1>4, <1>5, <1>6, <1>7, <1>8, <1>9
  DEF QuietStep
LEMMA ConsumerNumbers ==
  ASSUME OffloadInv
  PROVE  /\ link \in Nat /\ link =< inst /\ offer \in Nat /\ mapped.inst \in Nat
         /\ mapped.inst =< inst /\ mapped.size \in Nat /\ got \in Nat /\ inst \in Nat
         /\ wd.from \in Nat /\ wd.from =< inst /\ wd.seen \in Nat
         /\ wd.lastFrom \in Nat /\ wd.last \in Nat /\ wd.arrived \in BOOLEAN
<1>1. inst \in Nat
  BY StandingNumbers DEF OffloadInv, ProducerStands
<1>2. link \in 0..inst /\ offer \in Nat /\ mapped.inst \in 0..inst /\ mapped.size \in Nat
      /\ got \in Frames
  BY DEF OffloadInv, ConsumerTyped
<1>3. /\ wd.from \in 0..MaxInstances /\ wd.seen \in Frames /\ wd.last \in Frames
      /\ wd.lastFrom \in 0..MaxInstances /\ wd.arrived \in BOOLEAN /\ wd.from =< inst
  BY DEF OffloadInv, WatchTyped, WatchInv
<1>4. /\ \A n \in 0..MaxInstances : n \in Nat
      /\ \A n \in 0..inst : n \in Nat /\ n =< inst
  BY <1>1, RingConstants
<1>5. /\ link \in Nat /\ link =< inst /\ offer \in Nat /\ mapped.inst \in Nat
      /\ mapped.inst =< inst /\ mapped.size \in Nat /\ got \in Nat
  BY <1>2, <1>4, RingConstants
<1>6. /\ wd.from \in Nat /\ wd.seen \in Nat /\ wd.lastFrom \in Nat /\ wd.last \in Nat
  BY <1>3, <1>4, RingConstants
<1> QED
  BY <1>1, <1>3, <1>5, <1>6

\* The steps of the producer leave a consumer with what it knew.
LEMMA AnnouncedStays ==
  ASSUME OffloadInv, ProducerGoesOn, Quiet, NEW m, Announced(m)
  PROVE  Announced(m)'
<1>1. Told(m, inst', prod', count', pool')
  <2>1. ProducerTyped(app, inst, prod, count, pool)
    BY DEF OffloadInv, ProducerInv
  <2>2. ProducerTyped(app', inst', prod', count', pool')
    BY DEF ProducerGoesOn, ProducerInv
  <2>3. Told(m, inst, prod, count, pool)
    BY DEF Announced
  <2>4. Leads(inst, prod, count, pool, inst', prod', count', pool')
    BY DEF ProducerGoesOn
  <2>5. app' = app
    BY DEF Quiet
  <2> HIDE DEF ProducerGoesOn
  <2> QED
    BY <2>1, <2>2, <2>3, <2>4, <2>5, TellsOn
<1>2. ASSUME m.inst = link', offer' # 0 PROVE m.size =< offer'
  <2>1. CASE offer' = offer
    BY <1>2, <2>1 DEF Quiet, Announced
  <2>2. CASE link' = prod'.inst /\ offer' = prod'.size
    BY <1>1, <1>2, <2>2 DEF Told
  <2> QED
    BY <2>1, <2>2 DEF Quiet, Served
<1>3. m.inst = mapped'.inst => m.size =< mapped'.size
  BY DEF Quiet, Announced
<1> QED
  BY <1>1, <1>2, <1>3 DEF Announced

LEMMA ConsumerStays ==
  ASSUME OffloadInv, ProducerGoesOn, Quiet
  PROVE  /\ ProducerInv(app, inst, prod, count, pool)' /\ ConsumerTyped' /\ WatchTyped'
         /\ SizeInv' /\ HandInv' /\ ReadInv' /\ WatchInv'
         /\ PayloadErrorsAreLaps' /\ WatchdogTruthful'
<1>0. /\ UNCHANGED <<app, link, cpc, mapped, hand, got, last, wd>>
      /\ offer' = offer \/ (link # 0 /\ link = prod'.inst /\ offer' = prod'.size)
  BY DEF Quiet, Served
<1>1. /\ inst \in Nat /\ inst' \in Nat /\ inst =< inst' /\ prod.inst \in Nat /\ prod'.inst \in Nat
      /\ prod'.size \in Nat /\ prod.size \in Nat /\ count.sent \in Nat /\ count'.sent \in Nat
      /\ prod.inst # 0 => prod.inst = inst
  <2>1. ProducerTyped(app, inst, prod, count, pool)
    BY DEF OffloadInv, ProducerInv
  <2>2. ProducerTyped(app', inst', prod', count', pool')
    BY DEF ProducerGoesOn, ProducerInv
  <2>3. inst =< inst'
    BY DEF ProducerGoesOn, Leads
  <2> HIDE DEF ProducerGoesOn
  <2>4. /\ inst \in Nat /\ prod.inst \in Nat /\ prod.size \in Nat /\ count.sent \in Nat
        /\ prod.inst # 0 => prod.inst = inst
    BY <2>1, ProducerNumbers
  <2>5. inst' \in Nat /\ prod'.inst \in Nat /\ prod'.size \in Nat /\ count'.sent \in Nat
    BY <2>2, ProducerNumbers
  <2> QED
    BY <2>3, <2>4, <2>5
<1>2. \/ prod'.inst = 0
      \/ prod'.inst > inst
      \/ prod'.inst = prod.inst /\ prod'.size = prod.size /\ count'.sent >= count.sent
  BY DEF ProducerGoesOn, Leads, Follows
<1>3. ProducerInv(app, inst, prod, count, pool)'
  BY DEF ProducerGoesOn
<1>4. ConsumerTyped'
  <2>1. 0..inst \subseteq 0..inst'
    BY <1>1
  <2>2. offer' \in Nat
    BY <1>0, <1>1, ConsumerNumbers
  <2> QED
    BY <1>0, <2>1, <2>2 DEF OffloadInv, ConsumerTyped
<1>5. WatchTyped' /\ PayloadErrorsAreLaps' /\ WatchdogTruthful'
  BY <1>0 DEF OffloadInv, WatchTyped, PayloadErrorsAreLaps, WatchdogTruthful
<1>6. SizeInv'
  <2>1. SizeInv
    BY DEF OffloadInv
  <2>2. ASSUME prod'.inst # 0, link = prod'.inst, offer' # 0 PROVE offer' = prod'.size
    <3>1. CASE offer' = prod'.size
      BY <3>1
    <3>2. CASE offer' = offer
      <4>1. prod'.inst = prod.inst /\ prod'.size = prod.size
        BY <1>1, <1>2, <2>2, ConsumerNumbers
      <4> QED
        BY <2>1, <2>2, <3>2, <4>1 DEF SizeInv
    <3> QED
      BY <1>0, <3>1, <3>2
  <2>3. ASSUME prod'.inst # 0, mapped.inst = prod'.inst PROVE mapped.size = prod'.size
    <3>1. prod'.inst = prod.inst /\ prod'.size = prod.size
      BY <1>1, <1>2, <2>3, ConsumerNumbers
    <3> QED
      BY <2>1, <2>3, <3>1 DEF SizeInv
  <2> QED
    BY <1>0, <2>2, <2>3 DEF SizeInv
<1>7. HandInv'
  <2>1. Announced(hand) => Announced(hand)'
    <3>1. PICK m : m = hand
      OBVIOUS
    <3>2. Announced(m) => Announced(m)'
      BY AnnouncedStays
    <3>3. hand' = m
      BY <1>0, <3>1
    <3> QED
      BY <3>1, <3>2, <3>3 DEF Announced
  <2> QED
    BY <1>0, <2>1 DEF OffloadInv, HandInv, Working
<1>8. ReadInv'
  <2> SUFFICES ASSUME cpc = "tail", hand.inst = mapped.inst
               PROVE  /\ got >= hand.seq /\ Slot(got) = hand.idx
                      /\ got =< pool'[hand.inst][hand.idx].head
    BY <1>0 DEF ReadInv
  <2>1. /\ got >= hand.seq /\ Slot(got) = hand.idx
        /\ got =< pool[hand.inst][hand.idx].head
    BY DEF OffloadInv, ReadInv
  <2>2. hand \in Messages
    BY DEF OffloadInv, HandInv, Working, Announced, Told
  <2>3. /\ hand.inst \in Instances /\ hand.idx \in Places
    BY <2>2, MessageNumbers
  <2>4. pool'[hand.inst][hand.idx].head >= pool[hand.inst][hand.idx].head
    BY <2>3 DEF ProducerGoesOn, Leads
  <2>5. pool'[hand.inst][hand.idx].head \in Nat
    BY <2>3, PoolNumbers DEF ProducerGoesOn, ProducerInv, ProducerTyped
  <2>6. pool[hand.inst][hand.idx].head \in Nat
    BY <2>3, PoolNumbers DEF OffloadInv, ProducerInv, ProducerTyped
  <2> QED
    BY <2>1, <2>4, <2>5, <2>6, ConsumerNumbers
<1>9. WatchInv'
  <2>1. wd.from =< inst'
    BY <1>1, ConsumerNumbers
  <2>2. ASSUME wd.from = prod'.inst, prod'.inst # 0 PROVE wd.seen =< count'.sent
    <3>1. prod'.inst = prod.inst /\ count'.sent >= count.sent
      BY <1>1, <1>2, <2>2, ConsumerNumbers
    <3>2. wd.seen =< count.sent
      BY <2>2, <3>1 DEF OffloadInv, WatchInv
    <3> QED
      BY <1>1, <3>1, <3>2, ConsumerNumbers
  <2>3. IF wd.arrived THEN Earlier(wd.lastFrom, wd.last, wd.from, wd.seen)
                      ELSE wd.from = wd.lastFrom /\ wd.seen = wd.last
    BY DEF OffloadInv, WatchInv
  <2> QED
    BY <1>0, <2>1, <2>2, <2>3 DEF WatchInv
<1> QED
  BY <1>3, <1>4, <1>5, <1>6, <1>7, <1>8, <1>9

LEMMA QuietKeeps ==
  ASSUME OffloadInv, QuietStep
  PROVE  OffloadInv'
<1>1. ProducerGoesOn /\ Quiet /\ queue' = queue
  BY QuietSteps DEF OffloadInv, ProducerStands
<1>2. QueueInv'
  <2>1. queue \in Seq(Messages)
    BY DEF OffloadInv, QueueInv
  <2>2. ASSUME NEW k \in 1..Len(queue) PROVE Announced(queue[k])'
    <3>1. PICK m : m = queue[k]
      OBVIOUS
    <3>2. Announced(m)'
      BY <1>1, <3>1, AnnouncedStays DEF OffloadInv, QueueInv
    <3>3. queue'[k] = m
      BY <1>1, <3>1
    <3> QED
      BY <3>2, <3>3 DEF Announced
  <2> QED
    BY <1>1, <2>1, <2>2 DEF QueueInv
<1>3. OrderInv'
  BY <1>1 DEF OffloadInv, OrderInv, Quiet
<1> QED
  BY <1>1, <1>2, <1>3, ConsumerStays DEF OffloadInv
\* A message is added to a queue, and the first may be dropped.
Lengthened(q, m) == {Append(q, m), Tail(Append(q, m))}

LEMMA LengthenedIs ==
  ASSUME NEW q \in Seq(Messages), NEW m \in Messages, NEW q2 \in Lengthened(q, m)
  PROVE  /\ q2 \in Seq(Messages) /\ Len(q) \in Nat
         /\ \E d \in {0, 1} : /\ Len(q2) = Len(q) + 1 - d
                              /\ \A k \in 1..Len(q2) : \/ k + d \in 1..Len(q) /\ q2[k] = q[k + d]
                                                       \/ k + d = Len(q) + 1 /\ q2[k] = m
<1> DEFINE r == Append(q, m)
<1>1. /\ r \in Seq(Messages) /\ Len(r) = Len(q) + 1 /\ Len(q) \in Nat
      /\ \A k \in 1..Len(q) : r[k] = q[k]
      /\ r[Len(q) + 1] = m
  OBVIOUS
<1>2. CASE q2 = r
  <2>1. \A k \in 1..Len(q2) : \/ k + 0 \in 1..Len(q) /\ q2[k] = q[k + 0]
                              \/ k + 0 = Len(q) + 1 /\ q2[k] = m
    <3> HIDE DEF r
    <3> QED
      BY <1>1, <1>2
  <2>2. Len(q2) = Len(q) + 1 - 0
    BY <1>1, <1>2
  <2> QED
    BY <1>1, <1>2, <2>1, <2>2
<1>3. CASE q2 = Tail(r)
  <2> HIDE DEF r
  <2>1. r # <<>>
    BY <1>1
  <2>2. /\ q2 \in Seq(Messages) /\ Len(q2) = Len(r) - 1
        /\ \A k \in 1..Len(q2) : q2[k] = r[k + 1]
    BY <1>1, <1>3, <2>1
  <2>3. \A k \in 1..Len(q2) : \/ k + 1 \in 1..Len(q) /\ q2[k] = q[k + 1]
                              \/ k + 1 = Len(q) + 1 /\ q2[k] = m
    BY <1>1, <2>2
  <2> QED
    BY <1>1, <2>2, <2>3
<1> QED
  BY <1>2, <1>3 DEF Lengthened

LEMMA OrderGrows ==
  ASSUME NEW q \in Seq(Messages), NEW m \in Messages, NEW q2 \in Lengthened(q, m),
         \A k \in 1..Len(q) : Earlier(q[k].inst, q[k].seq, m.inst, m.seq)
  PROVE  /\ Ordered(q) => Ordered(q2)
         /\ \A p, s : After(q, p, s) /\ Earlier(p, s, m.inst, m.seq) => After(q2, p, s)
<1>1. PICK d \in {0, 1} : /\ Len(q2) = Len(q) + 1 - d
                          /\ \A k \in 1..Len(q2) : \/ k + d \in 1..Len(q) /\ q2[k] = q[k + d]
                                                   \/ k + d = Len(q) + 1 /\ q2[k] = m
  BY LengthenedIs
<1>2. Len(q) \in Nat /\ Len(q2) \in Nat
  BY LengthenedIs
<1>3. ASSUME Ordered(q), NEW k \in 1..Len(q2), NEW l \in 1..Len(q2), k < l
      PROVE  Earlier(q2[k].inst, q2[k].seq, q2[l].inst, q2[l].seq)
  <2>1. k + d \in 1..Len(q) /\ q2[k] = q[k + d]
    BY <1>1, <1>2, <1>3
  <2>2. CASE l + d \in 1..Len(q) /\ q2[l] = q[l + d]
    <3>1. k + d < l + d
      BY <1>2, <1>3
    <3> QED
      BY <1>3, <2>1, <2>2, <3>1 DEF Ordered
  <2>3. CASE q2[l] = m
    BY <2>1, <2>3
  <2> QED
    BY <1>1, <2>2, <2>3
<1>4. ASSUME NEW p, NEW s, After(q, p, s), Earlier(p, s, m.inst, m.seq)
      PROVE  After(q2, p, s)
  BY <1>1, <1>4 DEF After
<1> QED
  BY <1>3, <1>4 DEF Ordered

\* The messages that a producer sends.
LEMMA SentSteps ==
  ASSUME OffloadInv, NEW s \in Nat, NEW m, m = Message(s),
         \/ FinishFrame /\ s = count.begun
         \/ WriteMeta /\ s = count.sent + 1
  PROVE  /\ ProducerGoesOn /\ Quiet /\ m \in Messages /\ prod.inst # 0
         /\ queue' = queue \/ queue' \in Lengthened(queue, m)
         /\ Announced(m)'
         /\ \A q \in Nat, n \in Nat :
              q =< inst /\ (q = prod.inst => n =< count.sent) => Earlier(q, n, m.inst, m.seq)
<1> USE DEF consumerVars
<1>0. ProducerInv(app, inst, prod, count, pool) /\ ProducerStands
  BY DEF OffloadInv, ProducerStands
<1>1. /\ inst \in Nat /\ prod.inst # 0 /\ prod.inst = inst /\ prod.inst \in Instances
      /\ count.begun \in Nat /\ count.full \in Nat /\ count.sent \in Nat
      /\ count.sent =< count.full /\ count.full =< count.begun
      /\ count.begun =< MaxFrame /\ count.begun \in Frames /\ pool \in [Instances -> [Places -> Buffers]]
      /\ prod.bytes \in Nat /\ prod.bytes =< prod.size /\ prod.size \in Nat
  <2>1. prod.inst # 0
    BY DEF FinishFrame, WriteMeta, Alive, Streaming
  <2>2. ProducerTyped(app, inst, prod, count, pool) /\ CountsAgree(app, prod, count)
    BY <1>0, StandingNumbers
  <2>3. /\ inst \in Nat /\ prod.inst = inst /\ prod.inst \in Instances
        /\ count.begun \in Nat /\ count.full \in Nat /\ count.sent \in Nat
        /\ count.begun =< MaxFrame
    BY <2>1, <2>2, ProducerNumbers
  <2> QED
    BY <2>1, <2>2, <2>3 DEF ProducerTyped, CountsAgree
<1>2. /\ UNCHANGED <<app, inst, prod, link, offer, cpc, mapped, hand, got, last, wd>>
      /\ queue' = queue \/ queue' \in Lengthened(queue, m)
  BY DEF FinishFrame, WriteMeta, Lengthened, Queued
<1>3. /\ ProducerInv(app, inst, prod, count', pool')
      /\ Leads(inst, prod, count, pool, inst, prod, count', pool')
      /\ count'.sent = s /\ count.sent < s /\ s =< count.begun
      /\ pool'[prod.inst][Slot(s)].head >= s /\ pool'[prod.inst][Slot(s)].tail >= s
  <2>1. CASE FinishFrame /\ s = count.begun
    <3>1. app # "spike" /\ count' = Filled(app, count) /\ count.begun # count.sent
      BY <2>1 DEF FinishFrame, Filled, Settled
    <3>2. count.full < count.begun /\ count.sent < count.begun
      BY <1>0, <1>1, <3>1 DEF ProducerInv, CountsAgree
    <3>3. pool' = Tailed(pool, prod.inst, Slot(count.begun), count.begun)
      BY <2>1 DEF FinishFrame, Tailed
    <3>4. /\ ProducerInv(app, inst, prod, count', pool')
          /\ Leads(inst, prod, count, pool, inst, prod, count', pool')
      BY <1>0, <1>1, <3>1, <3>2, <3>3, FullOK
    <3>5. count'.sent = s
      BY <1>0, <2>1, <3>1 DEF Filled, ProducerInv, ProducerTyped
    <3>6. pool[prod.inst][Slot(s)].head = s
      BY <1>0, <1>1, <2>1, <3>2 DEF ProducerInv, LiveAgrees
    <3>7. Slot(s) \in Places
      BY SlotPlace
    <3>8. pool'[prod.inst][Slot(s)] = [head |-> pool[prod.inst][Slot(s)].head, tail |-> s]
      BY <1>1, <2>1, <3>3, <3>7, TailWritten
    <3> QED
      BY <1>1, <2>1, <3>2, <3>4, <3>5, <3>6, <3>8
  <2>2. CASE WriteMeta /\ s = count.sent + 1
    <3>1. app = "spike" /\ count' = OneSent(count) /\ count.sent < count.full /\ pool' = pool
      BY <2>2 DEF WriteMeta, OneSent, Streaming
    <3>2. /\ ProducerInv(app, inst, prod, count', pool')
          /\ Leads(inst, prod, count, pool, inst, prod, count', pool')
      BY <1>0, <3>1, CountOK
    <3>3. count'.sent = s
      BY <1>0, <2>2, <3>1 DEF OneSent, ProducerInv, ProducerTyped
    <3>4. s \in 1..count.full
      BY <1>1, <2>2, <3>1
    <3>5. pool[prod.inst][Slot(s)].head >= s /\ pool[prod.inst][Slot(s)].tail >= s
      BY <1>0, <1>1, <3>1, <3>4 DEF ProducerInv, LiveAgrees
    <3> QED
      BY <1>1, <2>2, <3>1, <3>2, <3>3, <3>4, <3>5
  <2> QED
    BY <2>1, <2>2
<1>4. ProducerGoesOn /\ Quiet
  BY <1>2, <1>3 DEF ProducerGoesOn, Quiet, Served
<1>5. m = [seq |-> s, inst |-> prod.inst, size |-> prod.bytes, idx |-> Slot(s)]
  BY DEF Message
<1>6. /\ m.seq = s /\ m.inst = prod.inst /\ m.size = prod.bytes /\ m.idx = Slot(s)
      /\ m \in Messages
  <2>1. s \in Frames \ {0}
    <3>1. s >= 1 /\ s =< MaxFrame
      BY <1>1, <1>3, RingConstants
    <3> QED
      BY <3>1, RingConstants DEF Frames
  <2> QED
    BY <1>1, <1>5, <2>1, SlotPlace DEF Messages
<1>7. Announced(m)'
  <2>1. Told(m, inst', prod', count', pool')
    BY <1>1, <1>2, <1>3, <1>6 DEF Told
  <2>2. m.inst = link' /\ offer' # 0 => m.size =< offer'
    BY <1>1, <1>2, <1>6 DEF OffloadInv, SizeInv
  <2>3. m.inst = mapped'.inst => m.size =< mapped'.size
    BY <1>1, <1>2, <1>6 DEF OffloadInv, SizeInv
  <2> QED
    BY <2>1, <2>2, <2>3 DEF Announced
<1>8. ASSUME NEW q \in Nat, NEW n \in Nat, q =< inst, q = prod.inst => n =< count.sent
      PROVE  Earlier(q, n, m.inst, m.seq)
  BY <1>1, <1>3, <1>6, <1>8 DEF Earlier
<1> QED
  BY <1>1, <1>2, <1>4, <1>6, <1>7, <1>8

LEMMA SentKeeps ==
  ASSUME OffloadInv, FinishFrame \/ WriteMeta
  PROVE  OffloadInv'
<1>1. count.begun \in Nat /\ count.sent + 1 \in Nat
  BY StandingNumbers DEF OffloadInv, ProducerStands
<1>2. PICK s \in Nat : \/ FinishFrame /\ s = count.begun
                       \/ WriteMeta /\ s = count.sent + 1
  BY <1>1
<1>3. PICK m : m = Message(s)
  OBVIOUS
<1>4. /\ ProducerGoesOn /\ Quiet /\ m \in Messages /\ prod.inst # 0
      /\ queue' = queue \/ queue' \in Lengthened(queue, m)
      /\ Announced(m)'
      /\ \A q \in Nat, n \in Nat :
           q =< inst /\ (q = prod.inst => n =< count.sent) => Earlier(q, n, m.inst, m.seq)
  BY <1>2, <1>3, SentSteps
<1>5. queue \in Seq(Messages) /\ \A k \in 1..Len(queue) : Announced(queue[k])
  BY DEF OffloadInv, QueueInv
<1>6. QueueInv'
  <2>1. CASE queue' = queue
    <3>1. ASSUME NEW k \in 1..Len(queue), NEW x, x = queue[k] PROVE Announced(x)'
      BY <1>4, <1>5, <3>1, AnnouncedStays
    <3>2. ASSUME NEW k \in 1..Len(queue') PROVE Announced(queue[k])'
      BY <2>1, <3>1 DEF Announced
    <3> QED
      BY <1>5, <2>1, <3>2 DEF QueueInv
  <2>2. CASE queue' \in Lengthened(queue, m)
    <3>1. queue' \in Seq(Messages)
      BY <1>4, <1>5, <2>2, LengthenedIs
    <3>2. PICK d \in {0, 1} : \A k \in 1..Len(queue') :
             \/ k + d \in 1..Len(queue) /\ queue'[k] = queue[k + d]
             \/ queue'[k] = m
      BY <1>4, <1>5, <2>2, LengthenedIs
    <3>3. ASSUME NEW k \in 1..Len(queue') PROVE Announced(queue[k])'
      <4>1. PICK x : x = queue'[k]
        OBVIOUS
      <4>2. CASE x = m
        BY <1>4, <4>1, <4>2 DEF Announced
      <4>3. CASE k + d \in 1..Len(queue) /\ x = queue[k + d]
        <5>1. Announced(x)
          BY <1>5, <4>3
        <5>2. Announced(x)'
          BY <1>4, <5>1, AnnouncedStays
        <5> QED
          BY <4>1, <5>2 DEF Announced
      <4> QED
        BY <3>2, <4>1, <4>2, <4>3
    <3> QED
      BY <3>1, <3>3 DEF QueueInv
  <2> QED
    BY <1>4, <2>1, <2>2
<1>7. OrderInv'
  <2>1. ASSUME NEW k \in 1..Len(queue)
        PROVE  Earlier(queue[k].inst, queue[k].seq, m.inst, m.seq)
    <3>1. Announced(queue[k]) /\ queue[k] \in Messages
      BY <1>5
    <3>2. queue[k].inst \in Nat /\ queue[k].seq \in Nat
      BY <3>1, MessageNumbers
    <3>3. /\ queue[k].inst =< inst
          /\ queue[k].inst = prod.inst => queue[k].seq =< count.sent
      BY <3>1 DEF Announced, Told
    <3> QED
      BY <1>4, <3>2, <3>3
  <2>2. Earlier(wd.from, wd.seen, m.inst, m.seq)
    <3>1. wd.from = prod.inst => wd.seen =< count.sent
      BY <1>4 DEF OffloadInv, WatchInv
    <3> QED
      BY <1>4, <3>1, ConsumerNumbers
  <2>3. UNCHANGED <<app, wd>>
    BY <1>4 DEF Quiet
  <2>4. CASE queue' = queue
    BY <2>3, <2>4 DEF OffloadInv, OrderInv
  <2>5. CASE queue' \in Lengthened(queue, m)
    <3>1. /\ Ordered(queue) => Ordered(queue')
          /\ \A p, s1 : After(queue, p, s1) /\ Earlier(p, s1, m.inst, m.seq) => After(queue', p, s1)
      BY <1>4, <1>5, <2>1, <2>5, OrderGrows
    <3> QED
      BY <2>2, <2>3, <3>1 DEF OffloadInv, OrderInv
  <2> QED
    BY <1>4, <2>4, <2>5
<1> QED
  BY <1>4, <1>6, <1>7, ConsumerStays DEF OffloadInv
-----------------------------------------------------------------------------
(* The steps of the consumer.                                               *)

LEMMA AnnouncedAgain ==
  ASSUME UNCHANGED producerVars, NEW m, Announced(m),
         m.inst = link' /\ offer' # 0 => m.size =< offer',
         m.inst = mapped'.inst => m.size =< mapped'.size
  PROVE  Announced(m)'
  BY DEF Announced, producerVars

LEMMA QueueStays ==
  ASSUME OffloadInv, queue' = queue, \A m \in Messages : Announced(m) => Announced(m)'
  PROVE  QueueInv'
<1>1. queue \in Seq(Messages) /\ \A k \in 1..Len(queue) : Announced(queue[k])
  BY DEF OffloadInv, QueueInv
<1>2. ASSUME NEW k \in 1..Len(queue') PROVE Announced(queue[k])'
  <2>1. PICK x \in Messages : x = queue[k]
    BY <1>1
  <2>2. Announced(x)'
    BY <1>1, <2>1
  <2> QED
    BY <2>1, <2>2 DEF Announced
<1> QED
  BY <1>1, <1>2 DEF QueueInv

\* A message that is announced, in numbers.
LEMMA AnnouncedNumbers ==
  ASSUME OffloadInv, NEW m, Announced(m)
  PROVE  /\ m \in Messages /\ m.inst \in Instances /\ m.inst \in Nat /\ m.inst >= 1
         /\ m.inst =< inst /\ m.seq \in Nat /\ m.seq >= 1 /\ m.seq \in Frames /\ m.size \in Nat
         /\ m.idx \in Places /\ m.idx = Slot(m.seq)
         /\ m.inst = prod.inst => m.seq =< count.sent
         /\ m.inst = mapped.inst => m.size =< mapped.size
         /\ pool[m.inst][m.idx].head >= m.seq /\ pool[m.inst][m.idx].tail >= m.seq
         /\ pool[m.inst][m.idx].head \in Nat /\ pool[m.inst][m.idx].tail \in Nat
<1>1. m \in Messages
  BY DEF Announced, Told
<1>2. pool \in [Instances -> [Places -> Buffers]]
  BY DEF OffloadInv, ProducerInv, ProducerTyped
<1>3. m.inst \in Instances /\ m.idx \in Places
  BY <1>1, MessageNumbers
<1> QED
  BY <1>1, <1>2, <1>3, MessageNumbers, PoolNumbers DEF Announced, Told

LEMMA ConnectKeeps ==
  ASSUME OffloadInv, Connect
  PROVE  OffloadInv'
<1>1. /\ UNCHANGED <<producerVars, queue, mapped, hand, got, last, wd>>
      /\ UNCHANGED <<app, inst, prod, count, pool>>
      /\ link' = prod.inst /\ offer' = 0 /\ cpc' = "hello" /\ cpc = "connect" /\ prod.inst # 0
  BY DEF Connect, Reachable, Alive, producerVars
<1>2. ASSUME NEW m, Announced(m) PROVE Announced(m)'
  BY <1>1, <1>2, AnnouncedAgain DEF Announced
<1>3. ProducerInv(app, inst, prod, count, pool)' /\ WatchTyped' /\ WatchInv' /\ OrderInv'
      /\ PayloadErrorsAreLaps' /\ WatchdogTruthful'
  BY <1>1 DEF OffloadInv, WatchTyped, WatchInv, OrderInv, PayloadErrorsAreLaps, WatchdogTruthful
<1>4. ConsumerTyped'
  <2>1. prod.inst \in 0..inst
    BY StandingNumbers DEF OffloadInv, ProducerStands
  <2> QED
    BY <1>1, <2>1 DEF OffloadInv, ConsumerTyped
<1>5. SizeInv' /\ ReadInv'
  BY <1>1 DEF OffloadInv, SizeInv, ReadInv
<1>6. HandInv'
  <2>1. Working' => Working
    BY <1>1 DEF Working
  <2>2. Announced(hand) => Announced(hand)'
    <3>1. ASSUME NEW x, x = hand, Announced(x) PROVE Announced(x)'
      BY <1>2, <3>1
    <3> QED
      BY <1>1, <3>1 DEF Announced
  <2> QED
    BY <1>1, <2>1, <2>2 DEF OffloadInv, HandInv
<1> QED
  BY <1>1, <1>2, <1>3, <1>4, <1>5, <1>6, QueueStays DEF OffloadInv

LEMMA RecvHandshakeKeeps ==
  ASSUME OffloadInv, RecvHandshake
  PROVE  OffloadInv'
<1>1. /\ UNCHANGED <<producerVars, queue, link, offer, hand, got, last, wd>>
      /\ UNCHANGED <<app, inst, prod, count, pool>>
      /\ cpc = "hello" /\ offer # 0 /\ cpc' = (IF app = "image" THEN "head" ELSE "ready")
      /\ mapped' = [inst |-> link, size |-> offer] /\ mapped'.inst = link /\ mapped'.size = offer
  BY DEF RecvHandshake, producerVars
<1>2. ASSUME NEW m, Announced(m) PROVE Announced(m)'
  BY <1>1, <1>2, AnnouncedAgain DEF Announced
<1>3. ProducerInv(app, inst, prod, count, pool)' /\ WatchTyped' /\ WatchInv' /\ OrderInv'
      /\ PayloadErrorsAreLaps' /\ WatchdogTruthful'
  BY <1>1 DEF OffloadInv, WatchTyped, WatchInv, OrderInv, PayloadErrorsAreLaps, WatchdogTruthful
<1>4. ConsumerTyped'
  BY <1>1 DEF OffloadInv, ConsumerTyped
<1>5. SizeInv' /\ ReadInv'
  BY <1>1 DEF OffloadInv, SizeInv, ReadInv
<1>6. HandInv'
  <2>1. Working' => Working
    BY <1>1 DEF Working
  <2>2. Announced(hand) => Announced(hand)'
    <3>1. ASSUME NEW x, x = hand, Announced(x) PROVE Announced(x)'
      BY <1>2, <3>1
    <3> QED
      BY <1>1, <3>1 DEF Announced
  <2> QED
    BY <1>1, <2>1, <2>2 DEF OffloadInv, HandInv
<1> QED
  BY <1>1, <1>2, <1>3, <1>4, <1>5, <1>6, QueueStays DEF OffloadInv

LEMMA GiveUpKeeps ==
  ASSUME OffloadInv, GiveUp
  PROVE  OffloadInv'
<1>1. /\ UNCHANGED <<producerVars, queue, offer, mapped, got, last, wd>>
      /\ UNCHANGED <<app, inst, prod, count, pool>>
      /\ cpc' \in {"idle", "done"} /\ link' = 0 /\ hand' = NoMessage
  BY DEF GiveUp, producerVars
<1>2. ASSUME NEW m, Announced(m) PROVE Announced(m)'
  <2>1. m.inst # 0
    BY <1>2, AnnouncedNumbers
  <2> QED
    BY <1>1, <1>2, <2>1, AnnouncedAgain DEF Announced
<1>3. ProducerInv(app, inst, prod, count, pool)' /\ WatchTyped' /\ WatchInv' /\ OrderInv'
      /\ PayloadErrorsAreLaps' /\ WatchdogTruthful'
  BY <1>1 DEF OffloadInv, WatchTyped, WatchInv, OrderInv, PayloadErrorsAreLaps, WatchdogTruthful
<1>4. ConsumerTyped'
  <2>1. 0 \in 0..inst
    BY ConsumerNumbers
  <2> QED
    BY <1>1, <2>1 DEF OffloadInv, ConsumerTyped
<1>5. SizeInv' /\ ReadInv' /\ HandInv'
  BY <1>1 DEF OffloadInv, SizeInv, ReadInv, HandInv, Working
<1> QED
  BY <1>1, <1>2, <1>3, <1>4, <1>5, QueueStays DEF OffloadInv

LEMMA EndOfStreamKeeps ==
  ASSUME OffloadInv, EndOfStream
  PROVE  OffloadInv'
<1>1. /\ UNCHANGED <<producerVars, queue, link, offer, mapped, hand, got, last, wd>>
      /\ UNCHANGED <<app, inst, prod, count, pool>> /\ cpc' = "done"
  BY DEF EndOfStream, producerVars
<1>2. ASSUME NEW m, Announced(m) PROVE Announced(m)'
  BY <1>1, <1>2, AnnouncedAgain DEF Announced
<1>3. ProducerInv(app, inst, prod, count, pool)' /\ WatchTyped' /\ WatchInv' /\ OrderInv'
      /\ PayloadErrorsAreLaps' /\ WatchdogTruthful'
  BY <1>1 DEF OffloadInv, WatchTyped, WatchInv, OrderInv, PayloadErrorsAreLaps, WatchdogTruthful
<1>4. ConsumerTyped' /\ SizeInv' /\ ReadInv' /\ HandInv'
  BY <1>1 DEF OffloadInv, ConsumerTyped, SizeInv, ReadInv, HandInv, Working
<1> QED
  BY <1>1, <1>2, <1>3, <1>4, QueueStays DEF OffloadInv

LEMMA ReadHeadKeeps ==
  ASSUME OffloadInv, ReadHead
  PROVE  OffloadInv'
<1>1. /\ UNCHANGED <<producerVars, queue, link, offer, mapped, hand, last, wd>>
      /\ UNCHANGED <<app, inst, prod, count, pool>>
      /\ cpc = "head" /\ cpc' = "tail" /\ got' = pool[mapped.inst][hand.idx].head
  BY DEF ReadHead, View, producerVars
<1>2. ASSUME NEW m, Announced(m) PROVE Announced(m)'
  BY <1>1, <1>2, AnnouncedAgain DEF Announced
<1>3. ProducerInv(app, inst, prod, count, pool)' /\ WatchTyped' /\ WatchInv' /\ OrderInv'
      /\ PayloadErrorsAreLaps' /\ WatchdogTruthful'
  BY <1>1 DEF OffloadInv, WatchTyped, WatchInv, OrderInv, PayloadErrorsAreLaps, WatchdogTruthful
<1>4. Announced(hand) /\ mapped.inst # 0
  BY <1>1 DEF OffloadInv, HandInv, Working
<1>5. mapped.inst \in Instances /\ hand.idx \in Places
  <2>1. inst =< MaxInstances
    BY StandingNumbers DEF OffloadInv, ProducerStands
  <2> QED
    BY <1>4, <2>1, ConsumerNumbers, AnnouncedNumbers, RingConstants DEF Instances
<1>6. pool[mapped.inst][hand.idx].head \in Frames
  BY <1>5, PoolNumbers DEF OffloadInv, ProducerInv, ProducerTyped
<1>7. ConsumerTyped'
  BY <1>1, <1>6 DEF OffloadInv, ConsumerTyped
<1>8. SizeInv'
  BY <1>1 DEF OffloadInv, SizeInv
<1>9. HandInv'
  <2>1. ASSUME NEW x, x = hand PROVE Announced(x)'
    BY <1>2, <1>4, <2>1
  <2> QED
    BY <1>1, <1>4, <2>1 DEF OffloadInv, HandInv, Announced
<1>10. ReadInv'
  <2> SUFFICES ASSUME hand.inst = mapped.inst
               PROVE  /\ got' >= hand.seq /\ Slot(got') = hand.idx
                      /\ got' =< pool[hand.inst][hand.idx].head
    BY <1>1 DEF ReadInv
  <2>1. got' = pool[hand.inst][hand.idx].head
    BY <1>1
  <2>2. /\ pool[hand.inst][hand.idx].head >= hand.seq /\ hand.seq >= 1 /\ hand.seq \in Nat
        /\ pool[hand.inst][hand.idx].head \in Nat
    BY <1>4, AnnouncedNumbers
  <2>3. InPlace(pool[hand.inst][hand.idx], hand.idx)
    BY <1>5 DEF OffloadInv, ProducerInv, PoolsAgree
  <2> QED
    BY <2>1, <2>2, <2>3 DEF InPlace
<1> QED
  BY <1>1, <1>2, <1>3, <1>7, <1>8, <1>9, <1>10, QueueStays DEF OffloadInv
\* A frame in its place that is not the one announced there is a lap ahead.
LEMMA LaterIsLapped ==
  ASSUME NEW s \in Nat, NEW n \in Nat, n >= s, n # s, Slot(n) = Slot(s)
  PROVE  n >= s + RingSize
  BY SlotLapped

\* What the second part of a buffer tells, when it is read from the right pool.
LEMMA ReadingIsRight ==
  ASSUME OffloadInv, cpc = "tail", hand.inst = mapped.inst
  PROVE  InsideMapping /\ (Exact \/ BegunIn(hand.inst) >= hand.seq + RingSize)
<1> DEFINE s == hand.seq
           h == pool[hand.inst][hand.idx].head
           t == pool[hand.inst][hand.idx].tail
<1>1. Announced(hand)
  BY DEF OffloadInv, HandInv, Working
<1>2. /\ hand.inst \in Instances /\ hand.idx \in Places /\ s \in Nat /\ s >= 1
      /\ hand.idx = Slot(s) /\ h \in Nat /\ t \in Nat /\ t >= s
      /\ hand.size =< mapped.size
  BY <1>1, AnnouncedNumbers
<1>3. InPlace(pool[hand.inst][hand.idx], hand.idx)
  BY <1>2 DEF OffloadInv, ProducerInv, PoolsAgree
<1>4. (t = 0 \/ Slot(t) = hand.idx) /\ t =< h
  BY <1>3 DEF InPlace
<1>5. got \in Nat /\ got >= s /\ Slot(got) = hand.idx /\ got =< h
  BY ConsumerNumbers DEF OffloadInv, ReadInv
<1>6. BegunIn(hand.inst) \in Nat /\ BegunIn(hand.inst) >= h
  <2> DEFINE T == {pool[hand.inst][i].head : i \in 0..(RingSize - 1)}
  <2>1. \A i \in Places : pool[hand.inst][i].head \in Frames
    BY <1>2, PoolNumbers DEF OffloadInv, ProducerInv, ProducerTyped
  <2>2. T \in SUBSET (0..MaxFrame) /\ h \in T /\ \A y \in T : y \in Nat
    BY <1>2, <2>1, RingConstants DEF Places, Frames
  <2>3. BegunIn(hand.inst) = Max(T)
    BY DEF BegunIn
  <2> HIDE DEF T, h
  <2>4. Max(T) \in T /\ \A y \in T : Max(T) >= y
    BY <2>2, GreatestIs, RingConstants
  <2>5. Max(T) >= h
    BY <2>2, <2>4
  <2>6. Max(T) \in Nat
    BY <2>2, <2>4
  <2> QED
    BY <2>3, <2>5, <2>6
<1>7. View.tail = t
  BY DEF View
<1> HIDE DEF h, t
<1>8. CASE got = s /\ t = s
  BY <1>2, <1>7, <1>8 DEF Exact, InsideMapping
<1>9. CASE got # s
  <2>1. got >= s + RingSize
    BY <1>2, <1>5, <1>9, LaterIsLapped
  <2> HIDE DEF s
  <2>2. BegunIn(hand.inst) >= s + RingSize
    BY <1>2, <1>5, <1>6, <2>1, RingConstants
  <2> QED
    BY <1>2, <2>2 DEF InsideMapping, s
<1>10. CASE t # s
  <2>1. t >= s + RingSize
    <3>1. t # 0
      BY <1>2
    <3> QED
      BY <1>2, <1>4, <1>10, <3>1, LaterIsLapped
  <2> HIDE DEF s
  <2>2. BegunIn(hand.inst) >= s + RingSize
    BY <1>2, <1>4, <1>6, <2>1, RingConstants
  <2> QED
    BY <1>2, <2>2 DEF InsideMapping, s
<1> QED
  BY <1>8, <1>9, <1>10

LEMMA ReadTailKeeps ==
  ASSUME OffloadInv, ReadTail
  PROVE  OffloadInv'
<1>1. /\ UNCHANGED <<producerVars, queue, link, offer, mapped, wd>>
      /\ UNCHANGED <<app, inst, prod, count, pool>>
      /\ cpc = "tail" /\ cpc' \in {"ready", "done"} /\ hand' = NoMessage /\ got' = 0
      /\ last' = [exact   |-> Exact,
                  lapped  |-> BegunIn(hand.inst) >= hand.seq + RingSize,
                  foreign |-> hand.inst # mapped.inst,
                  inside  |-> InsideMapping]
  BY DEF ReadTail, producerVars
<1>2. ASSUME NEW m, Announced(m) PROVE Announced(m)'
  BY <1>1, <1>2, AnnouncedAgain DEF Announced
<1>3. ProducerInv(app, inst, prod, count, pool)' /\ WatchInv' /\ OrderInv' /\ WatchdogTruthful'
  BY <1>1 DEF OffloadInv, WatchInv, OrderInv, WatchdogTruthful
<1>4. ConsumerTyped'
  BY <1>1, RingConstants DEF OffloadInv, ConsumerTyped
<1>5. SizeInv' /\ ReadInv' /\ HandInv'
  BY <1>1 DEF OffloadInv, SizeInv, ReadInv, HandInv, Working
<1> DEFINE x == Exact
           l == BegunIn(hand.inst) >= hand.seq + RingSize
           f == hand.inst # mapped.inst
           n == InsideMapping
<1>6. x \in BOOLEAN /\ l \in BOOLEAN /\ f \in BOOLEAN /\ n \in BOOLEAN
  BY DEF Exact, InsideMapping
<1>7. ~f => n /\ (x \/ l)
  BY <1>1, ReadingIsRight
<1>8. last' = [exact |-> x, lapped |-> l, foreign |-> f, inside |-> n]
  BY <1>1
<1> HIDE DEF x, l, f, n
<1>9. WatchTyped'
  BY <1>1, <1>6, <1>8 DEF OffloadInv, WatchTyped
<1>10. PayloadErrorsAreLaps'
  BY <1>6, <1>7, <1>8 DEF PayloadErrorsAreLaps
<1> QED
  BY <1>1, <1>2, <1>3, <1>4, <1>5, <1>9, <1>10, QueueStays DEF OffloadInv

LEMMA TakeMessageKeeps ==
  ASSUME OffloadInv, TakeMessage
  PROVE  OffloadInv'
<1>1. /\ UNCHANGED <<producerVars, link, offer, mapped, got, last>>
      /\ UNCHANGED <<app, inst, prod, count, pool>>
      /\ cpc \in {"idle", "ready"} /\ cpc' = (IF cpc = "idle" THEN "connect" ELSE "head")
      /\ queue # <<>> /\ hand' = Head(queue) /\ queue' = Tail(queue)
      /\ wd' = (IF app = "ros1" THEN Noted(Head(queue)) ELSE wd)
  BY DEF TakeMessage, producerVars
<1>2. ASSUME NEW m, Announced(m) PROVE Announced(m)'
  BY <1>1, <1>2, AnnouncedAgain DEF Announced
<1>3. queue \in Seq(Messages) /\ \A k \in 1..Len(queue) : Announced(queue[k])
  BY DEF OffloadInv, QueueInv
<1>4. /\ Len(queue) \in Nat /\ 1 \in 1..Len(queue) /\ Head(queue) = queue[1]
      /\ queue' \in Seq(Messages) /\ Len(queue') = Len(queue) - 1
      /\ \A k \in 1..Len(queue') : k + 1 \in 1..Len(queue) /\ queue'[k] = queue[k + 1]
  BY <1>1, <1>3
<1>5. PICK m : m = Head(queue)
  OBVIOUS
<1>6. Announced(m) /\ hand' = m
  BY <1>1, <1>3, <1>4, <1>5
<1>7. ProducerInv(app, inst, prod, count, pool)'
  BY <1>1 DEF OffloadInv
<1>8. ConsumerTyped' /\ SizeInv' /\ ReadInv'
  <2>1. hand' \in Messages
    BY <1>6, AnnouncedNumbers
  <2> QED
    BY <1>1, <2>1 DEF OffloadInv, ConsumerTyped, SizeInv, ReadInv
<1>9. HandInv'
  <2>1. Announced(hand)'
    BY <1>2, <1>6 DEF Announced
  <2> QED
    BY <1>1, <2>1 DEF OffloadInv, HandInv, Working
<1>10. QueueInv'
  <2>1. ASSUME NEW k \in 1..Len(queue') PROVE Announced(queue[k])'
    <3>1. PICK x : x = queue[k + 1]
      OBVIOUS
    <3>2. Announced(x)'
      BY <1>2, <1>3, <1>4, <3>1
    <3> QED
      BY <1>4, <3>1, <3>2 DEF Announced
  <2> QED
    BY <1>4, <2>1 DEF QueueInv
<1>11. Ordered(queue')
  <2> SUFFICES ASSUME NEW k \in 1..Len(queue'), NEW l \in 1..Len(queue'), k < l
               PROVE  Earlier(queue'[k].inst, queue'[k].seq, queue'[l].inst, queue'[l].seq)
    BY DEF Ordered
  <2>1. k + 1 < l + 1
    BY <1>4
  <2> QED
    BY <1>4, <2>1 DEF OffloadInv, OrderInv, Ordered
<1>12. CASE app # "ros1"
  <2>1. wd' = wd
    BY <1>1, <1>12
  <2>2. WatchTyped' /\ WatchInv' /\ PayloadErrorsAreLaps' /\ WatchdogTruthful'
    BY <1>1, <2>1 DEF OffloadInv, WatchTyped, WatchInv, PayloadErrorsAreLaps, WatchdogTruthful
  <2>3. OrderInv'
    BY <1>1, <1>11, <1>12 DEF OrderInv
  <2> QED
    BY <1>7, <1>8, <1>9, <1>10, <2>2, <2>3 DEF OffloadInv
<1>13. CASE app = "ros1"
  <2>1. wd' = [wd EXCEPT !.seen = m.seq, !.from = m.inst, !.arrived = TRUE]
    BY <1>1, <1>5, <1>13 DEF Noted
  <2>2. wd \in [seen : Frames, from : 0..MaxInstances, last : Frames, lastFrom : 0..MaxInstances,
                arrived : BOOLEAN, heard : BOOLEAN, changed : BOOLEAN, ever : BOOLEAN,
                warned : BOOLEAN]
    BY DEF OffloadInv, WatchTyped
  <2>3. wd' = [seen |-> m.seq, from |-> m.inst, last |-> wd.last, lastFrom |-> wd.lastFrom,
               arrived |-> TRUE, heard |-> wd.heard, changed |-> wd.changed,
               ever |-> wd.ever, warned |-> wd.warned]
    BY <2>1, <2>2
  <2>4. /\ m.seq \in Frames /\ m.inst \in Instances /\ m.seq \in Nat /\ m.inst \in Nat
        /\ m.inst =< inst
        /\ m.inst = prod.inst => m.seq =< count.sent
    BY <1>6, AnnouncedNumbers
  <2>5. WatchTyped'
    <3>1. m.inst \in 0..MaxInstances
      BY <2>4, RingConstants DEF Instances
    <3>2. wd' \in [seen : Frames, from : 0..MaxInstances, last : Frames,
                   lastFrom : 0..MaxInstances, arrived : BOOLEAN, heard : BOOLEAN,
                   changed : BOOLEAN, ever : BOOLEAN, warned : BOOLEAN]
      BY <2>2, <2>3, <2>4, <3>1
    <3> QED
      BY <1>1, <3>2 DEF OffloadInv, WatchTyped
  <2>6. /\ wd'.seen = m.seq /\ wd'.from = m.inst /\ wd'.last = wd.last
        /\ wd'.lastFrom = wd.lastFrom /\ wd'.arrived = TRUE /\ wd'.heard = wd.heard
        /\ wd'.changed = wd.changed /\ wd'.ever = wd.ever /\ wd'.warned = wd.warned
    BY <2>3
  <2>7. Earlier(wd.lastFrom, wd.last, m.inst, m.seq)
    <3>1. Earlier(wd.from, wd.seen, m.inst, m.seq)
      BY <1>4, <1>5, <1>13 DEF OffloadInv, OrderInv, After
    <3>2. IF wd.arrived THEN Earlier(wd.lastFrom, wd.last, wd.from, wd.seen)
                        ELSE wd.from = wd.lastFrom /\ wd.seen = wd.last
      BY DEF OffloadInv, WatchInv
    <3>3. CASE wd.arrived
      <4>1. Earlier(wd.lastFrom, wd.last, wd.from, wd.seen)
        BY <3>2, <3>3
      <4> QED
        BY <2>4, <3>1, <4>1, ConsumerNumbers DEF Earlier
    <3>4. CASE ~wd.arrived
      BY <3>1, <3>2, <3>4
    <3> QED
      BY <3>3, <3>4
  <2>8. WatchInv'
    <3>1. wd'.from =< inst
      BY <2>4, <2>6
    <3>2. wd'.from = prod.inst => wd'.seen =< count.sent
      BY <2>4, <2>6
    <3>3. Earlier(wd'.lastFrom, wd'.last, wd'.from, wd'.seen)
      BY <2>6, <2>7
    <3> QED
      BY <1>1, <2>6, <3>1, <3>2, <3>3 DEF WatchInv
  <2>9. WatchdogTruthful' /\ PayloadErrorsAreLaps'
    BY <1>1, <2>6 DEF OffloadInv, WatchdogTruthful, PayloadErrorsAreLaps
  <2>10. After(queue', m.inst, m.seq)
    <3> SUFFICES ASSUME NEW k \in 1..Len(queue')
                 PROVE  Earlier(m.inst, m.seq, queue'[k].inst, queue'[k].seq)
      BY DEF After
    <3>1. k + 1 \in 1..Len(queue) /\ 1 < k + 1 /\ m = queue[1]
      BY <1>4, <1>5
    <3> QED
      BY <1>4, <3>1 DEF OffloadInv, OrderInv, Ordered
  <2>11. OrderInv'
    BY <1>11, <2>6, <2>10 DEF OrderInv
  <2> QED
    BY <1>7, <1>8, <1>9, <1>10, <2>5, <2>8, <2>9, <2>11 DEF OffloadInv
<1> QED
  BY <1>12, <1>13

LEMMA WatchdogTickKeeps ==
  ASSUME OffloadInv, WatchdogTick
  PROVE  OffloadInv'
<1> DEFINE w == wd.seen = wd.last /\ wd.seen # 0
           e == wd.seen # 0
           c == wd.from # wd.lastFrom
<1>1. /\ UNCHANGED <<producerVars, queue, link, offer, cpc, mapped, hand, got, last>>
      /\ UNCHANGED <<app, inst, prod, count, pool>>
      /\ wd' = [wd EXCEPT !.warned = w, !.heard = wd.arrived, !.arrived = FALSE, !.ever = e,
                          !.changed = c, !.last = wd.seen, !.lastFrom = wd.from]
  BY DEF WatchdogTick, producerVars
<1>2. w \in BOOLEAN /\ e \in BOOLEAN /\ c \in BOOLEAN
  OBVIOUS
<1>3. e => c \/ w # wd.arrived
  <2> SUFFICES ASSUME wd.seen # 0, wd.from = wd.lastFrom PROVE w # wd.arrived
    OBVIOUS
  <2>1. IF wd.arrived THEN Earlier(wd.lastFrom, wd.last, wd.from, wd.seen)
                      ELSE wd.from = wd.lastFrom /\ wd.seen = wd.last
    BY DEF OffloadInv, WatchInv
  <2>2. CASE wd.arrived = TRUE
    <3>1. wd.last < wd.seen
      BY <2>1, <2>2, ConsumerNumbers DEF Earlier
    <3>2. wd.seen # wd.last
      BY <3>1, ConsumerNumbers
    <3>3. w = FALSE
      BY <3>2
    <3> QED
      BY <2>2, <3>3
  <2>3. CASE wd.arrived = FALSE
    BY <2>1, <2>3
  <2>4. wd.arrived \in BOOLEAN
    BY ConsumerNumbers
  <2> QED
    BY <2>2, <2>3, <2>4
<1> HIDE DEF w, e, c
<1>4. wd \in [seen : Frames, from : 0..MaxInstances, last : Frames, lastFrom : 0..MaxInstances,
              arrived : BOOLEAN, heard : BOOLEAN, changed : BOOLEAN, ever : BOOLEAN,
              warned : BOOLEAN]
  BY DEF OffloadInv, WatchTyped
<1>5. wd' = [seen |-> wd.seen, from |-> wd.from, last |-> wd.seen, lastFrom |-> wd.from,
             arrived |-> FALSE, heard |-> wd.arrived, changed |-> c, ever |-> e, warned |-> w]
  BY <1>1, <1>4
<1>6. /\ wd'.seen = wd.seen /\ wd'.from = wd.from /\ wd'.last = wd.seen
      /\ wd'.lastFrom = wd.from /\ wd'.arrived = FALSE /\ wd'.heard = wd.arrived
      /\ wd'.changed = c /\ wd'.ever = e /\ wd'.warned = w
  BY <1>5
<1>7. WatchTyped'
  <2>1. wd' \in [seen : Frames, from : 0..MaxInstances, last : Frames,
                 lastFrom : 0..MaxInstances, arrived : BOOLEAN, heard : BOOLEAN,
                 changed : BOOLEAN, ever : BOOLEAN, warned : BOOLEAN]
    BY <1>2, <1>4, <1>5
  <2> QED
    BY <1>1, <2>1 DEF OffloadInv, WatchTyped
<1>8. WatchdogTruthful'
  BY <1>3, <1>6 DEF WatchdogTruthful
<1>9. WatchInv'
  BY <1>1, <1>6 DEF OffloadInv, WatchInv
<1>10. OrderInv'
  BY <1>1, <1>6 DEF OffloadInv, OrderInv
<1>11. ASSUME NEW m, Announced(m) PROVE Announced(m)'
  BY <1>1, <1>11, AnnouncedAgain DEF Announced
<1>12. ProducerInv(app, inst, prod, count, pool)' /\ ConsumerTyped' /\ SizeInv' /\ ReadInv'
       /\ PayloadErrorsAreLaps'
  BY <1>1 DEF OffloadInv, ConsumerTyped, SizeInv, ReadInv, PayloadErrorsAreLaps
<1>13. HandInv'
  <2>1. ASSUME Announced(hand) PROVE Announced(hand)'
    <3>1. ASSUME NEW x, x = hand PROVE Announced(x)'
      BY <1>11, <2>1, <3>1
    <3> QED
      BY <1>1, <3>1 DEF Announced
  <2> QED
    BY <1>1, <2>1 DEF OffloadInv, HandInv, Working
<1> QED
  BY <1>1, <1>7, <1>8, <1>9, <1>10, <1>11, <1>12, <1>13, QueueStays DEF OffloadInv

-----------------------------------------------------------------------------
LEMMA OffloadInitial == Init => OffloadInv
<1> SUFFICES ASSUME Init PROVE OffloadInv
  OBVIOUS
<1>1. /\ app \in Apps /\ inst = 0 /\ prod = NoProd /\ count = NoCount
      /\ pool = [p \in Instances |-> Blank]
      /\ link = 0 /\ offer = 0 /\ queue = <<>> /\ cpc \in {"idle", "connect"}
      /\ app = "image" => cpc = "idle"
      /\ mapped = [inst |-> 0, size |-> 0] /\ hand = NoMessage /\ got = 0
      /\ last = NothingRead /\ wd = NoWatch
  BY DEF Init, Instances
<1>2. ProducerInv(app, inst, prod, count, pool)
  <2>1. pool \in [Instances -> [Places -> Buffers]] /\ \A q \in Instances : pool[q] = Blank
    BY <1>1, BlankRing
  <2>2. ProducerTyped(app, inst, prod, count, pool)
    BY <1>1, <2>1, RingConstants DEF ProducerTyped, NoProd, NoCount
  <2>3. CountsAgree(app, prod, count)
    BY <1>1 DEF CountsAgree, NoProd, NoCount
  <2>4. PoolsAgree(inst, pool)
    BY <2>1, BlankRing DEF PoolsAgree
  <2>5. LiveAgrees(app, prod, count, pool)
    BY <1>1 DEF LiveAgrees, NoProd
  <2> QED
    BY <2>2, <2>3, <2>4, <2>5 DEF ProducerInv
<1>3. ConsumerTyped
  BY <1>1, RingConstants DEF ConsumerTyped
<1>4. WatchTyped
  BY <1>1, RingConstants DEF WatchTyped, NothingRead, NoWatch
<1>5. SizeInv /\ HandInv /\ ReadInv
  BY <1>1 DEF SizeInv, HandInv, ReadInv, Working, NoProd
<1>6. QueueInv /\ OrderInv
  BY <1>1 DEF QueueInv, OrderInv, Ordered, After
<1>7. WatchInv /\ PayloadErrorsAreLaps /\ WatchdogTruthful
  BY <1>1 DEF WatchInv, PayloadErrorsAreLaps, WatchdogTruthful, NoWatch, NothingRead
<1> QED
  BY <1>2, <1>3, <1>4, <1>5, <1>6, <1>7 DEF OffloadInv

LEMMA OffloadInductive == OffloadInv /\ [Next]_vars => OffloadInv'
<1> SUFFICES ASSUME OffloadInv, [Next]_vars PROVE OffloadInv'
  OBVIOUS
<1>1. CASE QuietStep
  BY <1>1, QuietKeeps
<1>2. CASE FinishFrame \/ WriteMeta
  BY <1>2, SentKeeps
<1>3. CASE Connect
  BY <1>3, ConnectKeeps
<1>4. CASE RecvHandshake
  BY <1>4, RecvHandshakeKeeps
<1>5. CASE TakeMessage
  BY <1>5, TakeMessageKeeps
<1>6. CASE ReadHead
  BY <1>6, ReadHeadKeeps
<1>7. CASE ReadTail
  BY <1>7, ReadTailKeeps
<1>8. CASE EndOfStream
  BY <1>8, EndOfStreamKeeps
<1>9. CASE ConnectFails \/ HandshakeFails
  BY <1>9, GiveUpKeeps DEF ConnectFails, HandshakeFails
<1>10. CASE WatchdogTick
  BY <1>10, WatchdogTickKeeps
<1>11. CASE UNCHANGED vars
  <2>1. UNCHANGED <<producerVars, queue, link, offer, cpc, mapped, hand, got, last, wd>>
        /\ UNCHANGED <<app, inst, prod, count, pool>>
    BY <1>11 DEF vars, consumerVars, producerVars
  <2>2. ASSUME NEW m, Announced(m) PROVE Announced(m)'
    BY <2>1, <2>2, AnnouncedAgain DEF Announced
  <2>3. ProducerInv(app, inst, prod, count, pool)' /\ WatchTyped' /\ WatchInv' /\ OrderInv'
        /\ PayloadErrorsAreLaps' /\ WatchdogTruthful' /\ ConsumerTyped' /\ SizeInv' /\ ReadInv'
    BY <2>1 DEF OffloadInv, WatchTyped, WatchInv, OrderInv, PayloadErrorsAreLaps,
                WatchdogTruthful, ConsumerTyped, SizeInv, ReadInv
  <2>4. HandInv'
    BY <2>1 DEF OffloadInv, HandInv, Working, Announced
  <2> QED
    BY <2>1, <2>2, <2>3, <2>4, QueueStays DEF OffloadInv
<1> QED
  BY <1>1, <1>2, <1>3, <1>4, <1>5, <1>6, <1>7, <1>8, <1>9, <1>10, <1>11
  DEF Next, ProducerStep, ConsumerStep, QuietStep

\* Whatever producers and consumers do, in any order and however often they are
\* started, stopped and replaced, the rings, the messages on their way, what the
\* consumer knows of the pool it has mapped and what the watchdog noted agree.
THEOREM OffloadInvariance == Spec => []OffloadInv
<1> QED
  BY OffloadInitial, OffloadInductive, PTL DEF Spec

\* The variables keep their types: counters stay below the bounds, buffers hold
\* frames, and a message is of a frame that there was.
THEOREM OffloadTypeCorrectness ==
  Spec => [](/\ ProducerTyped(app, inst, prod, count, pool) /\ ConsumerTyped /\ WatchTyped
             /\ queue \in Seq(Messages))
<1>1. OffloadInv => /\ ProducerTyped(app, inst, prod, count, pool) /\ ConsumerTyped /\ WatchTyped
                    /\ queue \in Seq(Messages)
  BY DEF OffloadInv, ProducerInv, QueueInv
<1> QED
  BY <1>1, OffloadInvariance, PTL

\* A payload that is not as it was announced, read from the pool that the consumer
\* has mapped, means that the producer came round to its buffer: for rings and
\* queues of every length, a producer that dies, and one replaced for larger frames.
THEOREM PayloadErrorsStayLaps == Spec => []PayloadErrorsAreLaps
<1>1. OffloadInv => PayloadErrorsAreLaps
  BY DEF OffloadInv
<1> QED
  BY <1>1, OffloadInvariance, PTL

\* The watchdog of the ROS1 consumer is right at every tick, once a descriptor has
\* come, unless the producer has changed since the tick before.
THEOREM WatchdogsAreTruthful == Spec => []WatchdogTruthful
<1>1. OffloadInv => WatchdogTruthful
  BY DEF OffloadInv
<1> QED
  BY <1>1, OffloadInvariance, PTL
=============================================================================
