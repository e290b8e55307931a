----------------------------- MODULE TensorPool -----------------------------
(***************************************************************************)
(* The buffers of a TensorPool (src/src/pool.cpp) and the attachments a    *)
(* subscriber makes to them (src/src/subscriber.cpp), by what they open:   *)
(* every backend builds a buffer with a few system or driver calls, each   *)
(* of which may fail, and the code must undo the calls before it.  Device  *)
(* buffers are those of src/src/accelerator_cuda.cpp and                   *)
(* src/src/pool_nvbufsurface.cpp.                                          *)
(*                                                                         *)
(* A thing that has to be given back (a descriptor, an address range, a    *)
(* driver handle) is named <<call, buffer, generation>>: the call that     *)
(* made it and the buffer it is for.  A buffer is made by one step, which  *)
(* says at which of its calls it failed, if any.                           *)
(*                                                                         *)
(* A TensorPool has no lock: the ring of in_use flags is for the thread    *)
(* that owns the pool, so acquire_next() and release() are one step each.  *)
(* That thread may have several buffers in hand, one for each of Holders,  *)
(* the frames it is working on.  Calls of two threads at once, a data race *)
(* on in_use and ring_head, are not modelled.                              *)
(***************************************************************************)
EXTENDS Integers, Sequences, FiniteSets, FiniteSetsExt

CONSTANTS Backends,  \* the backends create() may be asked for
          NBuffers,  \* cfg.n_buffers
          MaxGen,    \* bound on the generations
          Holders    \* of buffers: the frames the owner has in hand at once

ASSUME PoolBoundsArePositive == NBuffers \in Nat \ {0} /\ MaxGen \in Nat \ {0}
ASSUME BackendsKnown ==
  Backends \subseteq {"Custom", "UDMABUF", "V4L2", "Accelerator", "NvBufSurface"}

VARIABLES
  backend, gen,  \* cfg.backend and gen of the pool
  pc,        \* none: no pool; device, buffer, params: inside allocate(); ready
  bufs,      \* buffers.size()
  v4l2,      \* v4l2_fd >= 0
  cudaView,  \* buffers whose lazy CUDA view is mapped (nvcudas)
  cudaFail,  \* NvBufCuda::failed
  open,      \* all that the owner's process has to give back
  misclosed, \* history: something was given back that was not open
  shared,    \* share_fds, as the buffers they are for
  inUse, head,  \* in_use and ring_head
  lease,     \* lease[c]: the generation and index kept for frame c
  stale,     \* history: <<generation, index>> freed by an older generation's release
  passed,    \* history: buffers handed out since i was free, i excluded
  attached,  \* generation and backend the subscriber is attached to
  nextView,  \* the buffer wait_handshake() imports next
  imported,  \* what detach() knows of: fds, views, accel_bufs, nvbufs, nvcudas
  held,      \* all that the subscriber's process has to give back
  misfreed   \* history: it gave back something it did not hold

ringVars == <<inUse, head, lease, stale, passed>>
ownVars == <<backend, gen, pc, bufs, v4l2, cudaView, cudaFail, open, misclosed, shared>>
importVars == <<attached, nextView, imported, held, misfreed>>
poolVars == <<ownVars, ringVars, importVars>>

Gens == 1..MaxGen
Indexes == 0..(NBuffers - 1)
NoLease == <<0, 0>>
Nowhere == [gen |-> 0, backend |-> "none"]
Of(calls, i) == {<<c, i, gen>> : c \in calls}

\* The calls that make a buffer, and those that import one into a subscriber.
Calls ==
  [Custom       |-> <<"memfd", "seal">>,
   UDMABUF      |-> <<"memfd", "seal", "dmabuf">>,
   V4L2         |-> <<"expbuf">>,
   Accelerator  |-> <<"handle", "range", "map", "access", "export">>,
   NvBufSurface |-> <<"surface">>]
AccelImport == <<"handle", "range", "map", "access">>
NvBufImport == <<"dup", "surface">>
CudaCalls == <<"egl", "register", "frame">>

\* Calls that configure or read what an earlier one made.
Idle == {"seal", "access", "frame"}

\* Mutants of Undone: an error path that forgets the address range; one that
\* forgets the mapped EGL image.
UndoneButRange(call) ==
  CASE call \in {"seal", "dmabuf"}   -> {"memfd"}
    [] call \in {"range", "map"}     -> {"handle"}
    [] call \in {"access", "export"} -> {"map", "range", "handle"}
    [] call = "register"             -> {"egl"}
    [] call = "frame"                -> {"register", "egl"}
    [] OTHER                         -> {}
UndoneButImage(call) ==
  CASE call \in {"seal", "dmabuf"}   -> {"memfd"}
    [] call = "range"                -> {"handle"}
    [] call = "map"                  -> {"range", "handle"}
    [] call \in {"access", "export"} -> {"map", "range", "handle"}
    [] call = "frame"                -> {"register"}
    [] OTHER                         -> {}

\* What is given back on the error path of a failing call.
Undone(call) ==
  CASE call \in {"seal", "dmabuf"}   -> {"memfd"}
    [] call = "range"                -> {"handle"}
    [] call = "map"                  -> {"range", "handle"}
    [] call \in {"access", "export"} -> {"map", "range", "handle"}
    [] call = "register"             -> {"egl"}
    [] call = "frame"                -> {"register", "egl"}
    [] OTHER                         -> {}
Before(calls, k) == {calls[j] : j \in 1..(k - 1)} \ Idle
AllOf(calls) == Before(calls, Len(calls) + 1)

\* What a finished buffer is made of.
BufferOf(i) == Of(AllOf(Calls[backend]), i)

PoolTypeOK ==
  /\ backend \in Backends /\ gen \in Gens
  /\ pc \in {"none", "device", "buffer", "params", "ready"}
  /\ bufs \in 0..NBuffers /\ v4l2 \in BOOLEAN
  /\ cudaView \subseteq Indexes /\ cudaFail \subseteq Indexes
  /\ shared \subseteq Indexes /\ inUse \subseteq Indexes /\ head \in Indexes
  /\ misclosed \in BOOLEAN
  /\ lease \in [Holders -> {NoLease} \cup (Gens \X Indexes)]
  /\ passed \in [Indexes -> Nat]
  /\ attached \in [gen : 0..MaxGen, backend : Backends \cup {"none"}]
  /\ nextView \in 0..NBuffers /\ misfreed \in BOOLEAN

PoolInit ==
  /\ backend \in Backends /\ gen = 1 /\ pc = "none" /\ bufs = 0 /\ v4l2 = FALSE
  /\ cudaView = {} /\ cudaFail = {} /\ open = {} /\ misclosed = FALSE /\ shared = {}
  /\ inUse = {} /\ head = 0 /\ lease = [c \in Holders |-> NoLease] /\ stale = {}
  /\ passed = [i \in Indexes |-> 0]
  /\ attached = Nowhere /\ nextView = 0 /\ imported = {} /\ held = {} /\ misfreed = FALSE

-----------------------------------------------------------------------------
(* The owner: create(), retire_and_reallocate() and the destructor.        *)

\* Close or free the things in S.
GiveBack(S) == /\ open' = open \ S
               /\ misclosed' = (misclosed \/ ~(S \subseteq open))

\* free_all(): each buffer by its kind, then the V4L2 device.
Freed ==
  (UNION { CASE backend = "NvBufSurface" ->
                  Of({"surface"} \cup (IF i \in cudaView THEN {"register", "egl"} ELSE {}), i)
             [] OTHER -> BufferOf(i) : i \in 0..(bufs - 1) })
    \cup (IF v4l2 THEN Of({"v4l2"}, 0) ELSE {})

Emptied == /\ bufs' = 0 /\ v4l2' = FALSE /\ cudaView' = {} /\ cudaFail' = {}
           /\ shared' = {} /\ inUse' = {}

\* allocate() begins: the device first, where there is one.
FirstStep(b) == IF b \in {"UDMABUF", "V4L2"} THEN "device" ELSE "buffer"

Create(b) ==
  /\ pc = "none"
  /\ backend' = b /\ gen' = 1 /\ pc' = FirstStep(b)
  /\ UNCHANGED <<bufs, v4l2, cudaView, cudaFail, open, misclosed, shared, ringVars, importVars>>

\* The pool object of a create() that fails is destroyed; a pool whose
\* reallocation fails stays, without buffers.
FailAllocation(undone) ==
  /\ GiveBack(Freed \cup undone)
  /\ Emptied
  /\ pc' = IF gen = 1 THEN "none" ELSE "ready"
  /\ UNCHANGED <<backend, gen, head, lease, stale, passed, importVars>>

OpenDevice ==
  /\ pc = "device"
  /\ \/ /\ pc' = "buffer"
        /\ v4l2' = (backend = "V4L2")
        /\ open' = open \cup Of({IF backend = "V4L2" THEN "v4l2" ELSE "udmabuf"}, 0)
        /\ UNCHANGED <<backend, gen, bufs, cudaView, cudaFail, misclosed, shared,
                       ringVars, importVars>>
     \/ FailAllocation({})

\* VIDIOC_REQBUFS fails or grants too few buffers: v4l2_fd is already stored.
DeviceRefuses ==
  /\ pc = "buffer" /\ backend = "V4L2" /\ bufs = 0
  /\ FailAllocation({})

\* /dev/udmabuf is closed when the loop ends, either way.
Udmabuf == IF backend = "UDMABUF" THEN Of({"udmabuf"}, 0) ELSE {}

MakeBuffer ==
  /\ pc = "buffer" /\ bufs < NBuffers
  /\ open' = open \cup BufferOf(bufs)
  /\ bufs' = bufs + 1
  /\ UNCHANGED <<backend, gen, pc, v4l2, cudaView, cudaFail, misclosed, shared,
                 ringVars, importVars>>

\* The k-th call of the buffer fails; the calls before it have been made.
FailBuffer ==
  /\ pc = "buffer" /\ bufs < NBuffers
  /\ \E k \in 1..Len(Calls[backend]) :
       LET made == Of(Before(Calls[backend], k), bufs)
           undone == Of(Undone(Calls[backend][k]), bufs)
           closed == Freed \cup undone \cup Udmabuf
       IN /\ open' = (open \cup made) \ closed
          /\ misclosed' = (misclosed \/ ~(closed \subseteq open \cup made))
  /\ Emptied
  /\ pc' = IF gen = 1 THEN "none" ELSE "ready"
  /\ UNCHANGED <<backend, gen, head, lease, stale, passed, importVars>>

\* The allocator returns true: in_use, ring_head and share_fds are rebuilt.
EndAllocation ==
  /\ pc = "buffer" /\ bufs = NBuffers
  /\ pc' = "ready"
  /\ GiveBack(Udmabuf)
  /\ shared' = 0..(bufs - 1)
  /\ inUse' = {} /\ head' = 0 /\ passed' = [i \in Indexes |-> 0]
  /\ UNCHANGED <<backend, gen, bufs, v4l2, cudaView, cudaFail, lease, stale, importVars>>

\* nvbuf_get_import_params() fails after all surfaces are made.
FailImportParams ==
  /\ pc = "buffer" /\ bufs = NBuffers /\ backend = "NvBufSurface"
  /\ FailAllocation({})

\* retire_and_reallocate(): free_all(), then allocate() the next generation.
Retire ==
  /\ pc = "ready" /\ gen < MaxGen
  /\ GiveBack(Freed)
  /\ Emptied
  /\ gen' = gen + 1 /\ pc' = FirstStep(backend)
  /\ UNCHANGED <<backend, head, lease, stale, passed, importVars>>

Destroy ==
  /\ pc = "ready"
  /\ GiveBack(Freed)
  /\ Emptied
  /\ pc' = "none" /\ gen' = 1
  /\ lease' = [c \in Holders |-> NoLease] /\ stale' = {}
  /\ UNCHANGED <<backend, head, passed, importVars>>

\* device_ptr() of an NvBufSurface buffer maps its CUDA view once; a failure
\* is remembered.
MapCudaView(i) ==
  /\ pc = "ready" /\ backend = "NvBufSurface" /\ i < bufs /\ i \notin cudaView \cup cudaFail
  /\ \/ /\ cudaView' = cudaView \cup {i} /\ UNCHANGED cudaFail
        /\ open' = open \cup Of(AllOf(CudaCalls), i)
     \/ \E k \in 1..Len(CudaCalls) :
          /\ cudaFail' = cudaFail \cup {i} /\ UNCHANGED cudaView
          /\ open' = open \cup (Of(Before(CudaCalls, k), i) \ Of(Undone(CudaCalls[k]), i))
  /\ UNCHANGED <<backend, gen, pc, bufs, v4l2, misclosed, shared, ringVars, importVars>>

-----------------------------------------------------------------------------
(* The ring: acquire_next() and release().                                 *)

\* The search of acquire_next(): the first free buffer from ring_head on.
FreeAhead == {k \in 0..(bufs - 1) : ((head + k) % bufs) \notin inUse}

\* Mutants of NextFree: the flag is not looked at; the search starts at buffer 0.
NextInRing == head % bufs
FirstFree == Min((0..(bufs - 1)) \ inUse)

NextFree == (head + Min(FreeAhead)) % bufs

AcquireNext(c) ==
  /\ pc = "ready" /\ bufs > 0 /\ lease[c] = NoLease
  /\ FreeAhead # {}
  /\ inUse' = inUse \cup {NextFree}
  /\ head' = (NextFree + 1) % bufs
  /\ lease' = [lease EXCEPT ![c] = <<gen, NextFree>>]
  /\ passed' = [i \in Indexes |-> IF i \in inUse \cup {NextFree} THEN 0 ELSE passed[i] + 1]
  /\ UNCHANGED <<ownVars, stale, importVars>>

\* release(index): only the index is passed, whatever generation it is of.
Release(c) ==
  /\ pc = "ready" /\ lease[c] # NoLease
  /\ inUse' = inUse \ (IF lease[c][2] < bufs THEN {lease[c][2]} ELSE {})
  /\ stale' = IF lease[c][1] # gen THEN stale \cup {<<gen, lease[c][2]>>} ELSE stale
  /\ lease' = [lease EXCEPT ![c] = NoLease]
  /\ UNCHANGED passed
  /\ UNCHANGED <<ownVars, head, importVars>>

-----------------------------------------------------------------------------
(* The subscriber: wait_handshake() attaches, detach() gives back.  What it *)
(* receives are descriptors of its own, whatever the owner does with his.   *)

Mine(calls, i) == {<<c, i, attached.gen>> : c \in calls}

\* detach(): views, device imports, surfaces and their CUDA views, descriptors.
FreedByDetach ==
  UNION { CASE x[1] = "accel"  -> Mine({"map", "range", "handle"}, x[2])
            [] x[1] = "nvbuf"  -> Mine({"dup", "surface"}, x[2])
            [] x[1] = "nvcuda" -> Mine({"register", "egl"}, x[2])
            [] OTHER           -> Mine({x[1]}, x[2]) : x \in imported }

Drop(S) == /\ held' = held \ S
           /\ misfreed' = (misfreed \/ ~(S \subseteq held))

\* A handshake of the current generation: detach(), then keep the descriptors.
Attach ==
  /\ pc = "ready" /\ bufs > 0
  /\ attached' = [gen |-> gen, backend |-> backend] /\ nextView' = 0
  /\ imported' = {"fd"} \X shared
  /\ held' = (held \ FreedByDetach) \cup {<<"fd", i, gen>> : i \in shared}
  /\ misfreed' = (misfreed \/ ~(FreedByDetach \subseteq held))
  /\ UNCHANGED <<ownVars, ringVars>>

\* Buffer i of the attachment gains the views `kinds`, whose calls are `calls`.
Import(kinds, calls) ==
  /\ attached # Nowhere /\ <<"fd", nextView>> \in imported
  /\ nextView' = nextView + 1
  /\ imported' = imported \cup (kinds \X {nextView})
  /\ held' = held \cup Mine(calls, nextView)
  /\ UNCHANGED <<attached, misfreed, ownVars, ringVars>>

\* Host backends and NvBufSurface: mmap(), which a driver may refuse.
Mapped == {{}, {"view"}}

ImportHost ==
  /\ attached.backend \notin {"Accelerator", "NvBufSurface"}
  /\ \E v \in Mapped : Import(v, v)

\* accel_import(); a failure leaves a null pointer.
ImportAccel ==
  /\ attached.backend = "Accelerator"
  /\ \/ Import({"accel"}, AllOf(AccelImport))
     \/ \E k \in 1..Len(AccelImport) :
          Import({}, Before(AccelImport, k) \ Undone(AccelImport[k]))

\* nvbuf_import(), then nvbuf_cuda_map() of the surface, next to the mmap().
ImportNvBuf ==
  /\ attached.backend = "NvBufSurface"
  /\ \E v \in Mapped :
       \/ \E k \in {1, 2} :
            Import(v, v \cup (Before(NvBufImport, k) \
                              IF k = 2 THEN {"dup"} ELSE {}))
       \/ Import(v \cup {"nvbuf", "nvcuda"}, v \cup AllOf(NvBufImport) \cup AllOf(CudaCalls))
       \/ \E k \in 1..Len(CudaCalls) :
            Import(v \cup {"nvbuf"}, v \cup AllOf(NvBufImport) \cup
                                     (Before(CudaCalls, k) \ Undone(CudaCalls[k])))

Detach ==
  /\ attached # Nowhere
  /\ attached' = Nowhere /\ nextView' = 0 /\ imported' = {}
  /\ Drop(FreedByDetach)
  /\ UNCHANGED <<ownVars, ringVars>>

PoolNext ==
  \/ \E b \in Backends : Create(b)
  \/ OpenDevice \/ DeviceRefuses \/ MakeBuffer \/ FailBuffer \/ EndAllocation
  \/ FailImportParams \/ Retire \/ Destroy
  \/ \E i \in Indexes : MapCudaView(i)
  \/ \E c \in Holders : AcquireNext(c) \/ Release(c)
  \/ Attach \/ ImportHost \/ ImportAccel \/ ImportNvBuf \/ Detach

PoolSpec == PoolInit /\ [][PoolNext]_poolVars

-----------------------------------------------------------------------------
(* Properties.                                                             *)

\* Whatever call of an allocation fails, and however a pool is retired or
\* destroyed, the owner's process holds exactly what the pool still knows of
\* (allocate(), free_all(), accel_alloc(), nvbuf_cuda_map()), and nothing is
\* closed twice.
OwnerHoldsItsPool ==
  /\ open = Freed \cup (IF pc = "buffer" THEN Udmabuf ELSE {})
  /\ ~misclosed

\* The subscriber's process holds exactly what detach() will give back, also
\* after imports that failed half-way (wait_handshake(), accel_import(),
\* nvbuf_import()), and nothing is given back twice.
SubscriberHoldsItsViews ==
  /\ held = FreedByDetach
  /\ ~misfreed

\* A raised flag is that of a buffer in hand: a buffer that is released comes back
\* to the ring, and one in hand while the pool was retired keeps none of the new
\* ring.  A buffer in hand of this generation has its flag and is in hand once,
\* unless the thread released an index of an older generation (allocate(),
\* acquire_next(), release()).
FlagsFollowLeases ==
  /\ \A i \in inUse : \E c \in Holders : lease[c] = <<gen, i>>
  /\ \A c \in Holders : lease[c][1] = gen /\ lease[c] \notin stale =>
       /\ lease[c][2] \in inUse
       /\ \A d \in Holders \ {c} : lease[d] # lease[c]

\* The calls of the owning thread go round: while a buffer stays free,
\* acquire_next() hands out fewer than NBuffers other buffers before it.
NoFreeBufferPassedOver == \A i \in shared : passed[i] < NBuffers
=============================================================================
