---------------------------- MODULE PoolPublisher ----------------------------
(***************************************************************************)
(* Sizes and handshakes: what a TensorPublisher (src/src/publisher.cpp)    *)
(* believes of its pool, the check of every descriptor against it          *)
(* (src/include/axon/detail/descriptor_util.h), the Python calls that      *)
(* publish and read frames (src/python/axon_py.cpp), and the memory a      *)
(* consumer's view then covers.                                            *)
(*                                                                         *)
(* Lengths are in bytes; 64-bit fields are numbers below Word and 32-bit   *)
(* ones are below its square root, so products wrap as they do in C++.     *)
(* A pool's buffers have a true length (bytes) beside the length the code  *)
(* keeps for them.  Fences and buffer contents are those of FenceStream    *)
(* and AxonStream.                                                         *)
(***************************************************************************)
EXTENDS Integers, Sequences, SequencesExt

CONSTANTS Word,      \* 2^64
          PageSize,
          MaxRank,   \* kMaxRank
          Sizes,     \* lengths asked of create() and retire_and_reallocate()
          Surfaces,  \* lengths NvBufSurfaceCreate() may choose
          Frames,    \* descriptors a C++ caller fills in
          Arrays,    \* [shape, itemsize, dtype]: arrays given to Python's publish()
          MaxGen     \* bound on the generations

Lengths == 0..(Word - 1)

ASSUME WordIsLarge == Word \in Nat \ {0, 1} /\ PageSize \in 1..Word /\ MaxRank \in Nat
ASSUME SizesAreLengths == Sizes \subseteq Lengths /\ Surfaces \subseteq Lengths
ASSUME FramesAreDescriptors ==
  \A d \in Frames : /\ d.offset \in Lengths /\ d.size \in Lengths /\ d.pitch \in Lengths
                    /\ d.shape \in Seq(Lengths) /\ d.dtype \in Lengths
ASSUME ArraysHaveShapes ==
  \A a \in Arrays : a.shape \in Seq(Lengths) /\ a.itemsize \in Lengths /\ a.dtype \in Lengths

VARIABLES
  pool,    \* buffer_size, generation, true length of the buffers, number of FDs
  nvbuf,   \* the pool's backend is NvBufSurface
  pub,     \* size: Impl::buffer_size, 0 while there is no publisher;
           \* cached: cached_gen, 0 while !pool_cached
  bundle,  \* what set_pool() gave the server
  hand,    \* acquire_descriptor() was called: none, buffer, or empty (index -1)
  slot,    \* the descriptor in the metadata slot
  client,  \* what the consumer attached: generation, hdr.buffer_size, true length
  faulted, \* a consumer touched a page past the end of a buffer while attaching
  view,    \* the last view it was handed
  verdict  \* of the last publish()

vars == <<pool, nvbuf, pub, bundle, hand, slot, client, faulted, view, verdict>>

NoPub == [size |-> 0, cached |-> 0]
NoPool == [size |-> 0, gen |-> 0, bytes |-> 0, live |-> FALSE]
NoBundle == [gen |-> 0, size |-> 0, bytes |-> 0, live |-> FALSE]
NoFrame == [gen |-> 0, end |-> 0, arrayEnd |-> 0, sized |-> TRUE, fits |-> TRUE]
NoView == [end |-> 0, arrayEnd |-> 0, sized |-> TRUE]
NoVerdict == [accepted |-> FALSE, fits |-> FALSE, wraps |-> FALSE]

Init ==
  /\ pool = NoPool /\ nvbuf \in BOOLEAN /\ pub = NoPub /\ bundle = NoBundle
  /\ hand = "none" /\ slot = NoFrame /\ client = NoBundle /\ faulted = FALSE
  /\ view = NoView /\ verdict = NoVerdict

-----------------------------------------------------------------------------
(* Arithmetic of pool.cpp and descriptor_util.h.                           *)

PageRoundUp(n) == LET m == (n + PageSize - 1) % Word IN m - (m % PageSize)

\* Products modulo w; modulo Exact they are the true ones.
Exact == 0
Times(a, b, w) == IF w = Exact THEN a * b ELSE (a * b) % w
Product(s, w) ==
  LET n[i \in 0..Len(s)] == IF i = 0 THEN 1 ELSE Times(n[i - 1], s[i], w) IN n[Len(s)]

RowStride(d, w) == IF d.pitch # 0 THEN d.pitch ELSE Times(Last(d.shape), d.dtype, w)
ImageBytes(d, w) == Times(Product(Front(d.shape), w), RowStride(d, w), w)

Malformed(d) == Len(d.shape) \notin 1..MaxRank \/ d.dtype = 0 \/ d.size = 0

\* Mutants of Outside: offset + size is added up in 64 bits; offset is forgotten.
OutsideWrapping(d, length) == (d.offset + d.size) % Word > length
OutsideFromZero(d, length) == d.size > length

Outside(d, length) == d.offset > length \/ d.size > length - d.offset

BadPitch(d) == /\ d.pitch # 0
               /\ d.pitch < Last(d.shape) * d.dtype \/ ImageBytes(d, Word) > d.size

DescriptorError(d, length) ==
  CASE Malformed(d) -> "EINVAL"
    [] ~Malformed(d) /\ Outside(d, length) -> "EMSGSIZE"
    [] ~Malformed(d) /\ ~Outside(d, length) /\ BadPitch(d) -> "EINVAL"
    [] OTHER -> "0"

\* The same question asked of true numbers.
Fits(d, length) ==
  /\ Len(d.shape) \in 1..MaxRank /\ d.dtype > 0 /\ d.size > 0
  /\ d.offset + d.size <= length
  /\ d.pitch # 0 => d.pitch >= Last(d.shape) * d.dtype /\ ImageBytes(d, Exact) <= d.size
Wraps(d) == Len(d.shape) > 0 /\ ImageBytes(d, Exact) >= Word

-----------------------------------------------------------------------------
(* The pool: create() and retire_and_reallocate() with their size.         *)

\* allocate() succeeds with buffers of the rounded size, or fails and frees all.
Allocate(asked, g) ==
  \/ \E s \in IF nvbuf THEN Surfaces ELSE {asked} :
       pool' = [size |-> PageRoundUp(s), gen |-> g, bytes |-> PageRoundUp(s), live |-> TRUE]
  \/ pool' = [size |-> PageRoundUp(asked), gen |-> g, bytes |-> 0, live |-> FALSE]

PoolCreate ==
  /\ pool = NoPool
  /\ \E s \in Sizes : (s # 0 \/ nvbuf) /\ Allocate(s, 1) /\ pool'.live
  /\ UNCHANGED <<nvbuf, pub, bundle, hand, slot, client, faulted, view, verdict>>

Retire ==
  /\ pool # NoPool /\ pool.gen < MaxGen
  /\ \E s \in Sizes : Allocate(s, pool.gen + 1)
  /\ UNCHANGED <<nvbuf, pub, bundle, hand, slot, client, faulted, view, verdict>>

-----------------------------------------------------------------------------
(* The publisher.                                                          *)

\* create(): the pool's size, or lseek() of its first FD, or EINVAL.
PubCreate ==
  /\ pub = NoPub /\ pool # NoPool
  /\ LET size == IF pool.size # 0 THEN pool.size ELSE pool.bytes
     IN size # 0 /\ pub' = [size |-> size, cached |-> 0]
  /\ UNCHANGED <<pool, nvbuf, bundle, hand, slot, client, faulted, view, verdict>>

Bundle == [gen |-> pool.gen, size |-> pub.size, bytes |-> pool.bytes, live |-> pool.live]

\* Mutant of CachePool: once cached, always cached.
CachePoolOnce(force) ==
  IF ~force /\ pub.cached # 0
  THEN UNCHANGED bundle /\ pub' = pub
  ELSE bundle' = Bundle /\ pub' = [pub EXCEPT !.cached = pool.gen]

CachePool(force) ==
  IF ~force /\ pub.cached = pool.gen
  THEN UNCHANGED bundle /\ pub' = pub
  ELSE bundle' = Bundle /\ pub' = [pub EXCEPT !.cached = pool.gen]

\* accept_and_handshake() sends the bundle to a consumer, if one is waiting:
\* wait_handshake() maps the announced length of each buffer and touches it all.
AcceptOrNot ==
  \/ UNCHANGED <<client, faulted, view>>
  \/ /\ client' = bundle' /\ view' = NoView
     /\ faulted' = (bundle'.live /\ bundle'.bytes < bundle'.size)

HandshakePool ==
  /\ pub # NoPub
  /\ CachePool(FALSE) /\ AcceptOrNot
  /\ UNCHANGED <<pool, nvbuf, hand, slot, verdict>>

\* The bundle is cached by force (and the host views are mapped again).
Reannounce ==
  /\ pub # NoPub
  /\ bundle' = Bundle
  /\ pub' = [pub EXCEPT !.cached = pool.gen]
  /\ AcceptOrNot
  /\ UNCHANGED <<pool, nvbuf, hand, slot, verdict>>

Acquire ==
  /\ pub # NoPub /\ hand = "none"
  /\ hand' = IF pool.live THEN "buffer" ELSE "empty"
  /\ UNCHANGED <<pool, nvbuf, pub, bundle, slot, client, faulted, view, verdict>>

\* The bytes an array of d's shape and dtype covers, and what a view of d covers.
Implied(d, w) == Times(Product(d.shape, w), d.dtype, w)
Stored(d) == [gen |-> pool.gen, end |-> d.offset + d.size,
              arrayEnd |-> d.offset + Implied(d, Exact),
              sized |-> d.size >= Implied(d, Exact),
              fits |-> d.offset + d.size <= pool.bytes]

\* publish(d): the check first, then the slot, then late consumers.
PublishFrame(d) ==
  /\ verdict' = [accepted |-> DescriptorError(d, pub.size) = "0",
                 fits |-> Fits(d, pub.size), wraps |-> Wraps(d)]
  /\ IF verdict'.accepted
     THEN /\ slot' = Stored(d)
          /\ CachePool(FALSE) /\ AcceptOrNot
     ELSE UNCHANGED <<slot, pub, bundle, client, faulted, view>>

Publish ==
  /\ hand # "none" /\ hand' = "none"
  /\ \E d \in Frames : PublishFrame(d)
  /\ UNCHANGED <<pool, nvbuf>>

\* Python's publish(array, dtype): acquire, copy the array, publish.
Copied(a) == a.itemsize * Product(a.shape, Exact)
PyPublish ==
  /\ pub # NoPub /\ hand = "none" /\ pool.live
  /\ \E a \in Arrays :
       /\ Copied(a) <= pub.size
       /\ IF Len(a.shape) \notin 1..MaxRank
          THEN UNCHANGED <<slot, pub, bundle, client, faulted, view, verdict>>
          ELSE PublishFrame([shape |-> a.shape, dtype |-> a.dtype, offset |-> 0,
                             size |-> Copied(a), pitch |-> 0])
  /\ UNCHANGED <<pool, nvbuf, hand>>

\* publish_device(acquired, shape, dtype): the size is a 64-bit product.
PyPublishDevice ==
  /\ hand = "buffer" /\ hand' = "none"
  /\ \E a \in Arrays :
       /\ Len(a.shape) \in 1..MaxRank
       /\ PublishFrame([shape |-> a.shape, dtype |-> a.dtype, offset |-> 0,
                        size |-> Implied(a, Word), pitch |-> 0])
  /\ UNCHANGED <<pool, nvbuf>>

\* latest_view() and Python's array over it.
LatestView ==
  /\ client.live /\ ~faulted /\ slot.gen = client.gen
  /\ view' = [end |-> slot.end, arrayEnd |-> slot.arrayEnd, sized |-> slot.sized]
  /\ UNCHANGED <<pool, nvbuf, pub, bundle, hand, slot, client, faulted, verdict>>

Next == PoolCreate \/ Retire \/ PubCreate \/ HandshakePool \/ Reannounce \/ Acquire
        \/ Publish \/ PyPublish \/ PyPublishDevice \/ LatestView

Spec == Init /\ [][Next]_vars

-----------------------------------------------------------------------------
(* Properties.                                                             *)

Bundles == [gen : Nat, size : Nat, bytes : Nat, live : BOOLEAN]
TypeOK ==
  /\ pool \in [size : Nat, gen : Nat, bytes : Nat, live : BOOLEAN] /\ nvbuf \in BOOLEAN
  /\ pub \in [size : Nat, cached : Nat]
  /\ bundle \in Bundles /\ client \in Bundles /\ faulted \in BOOLEAN
  /\ hand \in {"none", "buffer", "empty"}
  /\ slot \in [gen : Nat, end : Nat, arrayEnd : Nat, sized : BOOLEAN, fits : BOOLEAN]
  /\ view \in [end : Nat, arrayEnd : Nat, sized : BOOLEAN]
  /\ verdict \in [accepted : BOOLEAN, fits : BOOLEAN, wraps : BOOLEAN]

\* descriptor_error() accepts exactly the frames that fit in the size the
\* publisher knows, as long as rows times pitch is a 64-bit number: no order
\* of its tests and no subtraction lets offset + size wrap.
VerdictsExact == verdict.accepted = verdict.fits \/ verdict.wraps

\* A consumer is always handed the pool as it is: the bundle cached by
\* cache_pool() is never one whose buffers a retire has closed.
HandshakesAreCurrent ==
  [][client' # client => client'.gen = pool.gen /\ client'.bytes = pool.bytes]_vars

\* Unless the pool was reallocated with smaller buffers than the publisher was
\* created with: a consumer survives its handshake, a view ends inside the
\* buffer it is of, and so does the array Python builds from its shape when
\* its size covers the shape.
ViewsInsideBuffers ==
  client.live /\ client.bytes >= client.size =>
    /\ ~faulted
    /\ view.end <= client.bytes
    /\ view.sized => view.arrayEnd <= client.bytes

\* publisher.h: a frame that does not fit in the pool buffer is rejected.
PublishedFramesFit == slot.fits
=============================================================================
