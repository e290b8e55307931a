# Axon in TLA+

Axon is a library that carries sensor frames from one producer process to consumer processes without
copying them: buffers are shared through file descriptors, and only a small descriptor is written
per frame. This directory models its protocols in TLA+, model-checks them with TLC on small instances and
proves the central results with TLAPS. Paths below are relative to the repository.

## The system

| Component | Source | State | Operations |
|---|---|---|---|
| Metadata channel (seqlock) | `src/src/metadata_channel.cpp` | the shared `MetadataSlot`: guard, descriptor words, `ready`, `notify`, `waiters`; its name in shared memory | `publish`, `read_latest`, creating, opening and unlinking the slot |
| Frame waiting | `src/src/metadata_channel.cpp`, `src/src/subscriber.cpp` | `notify`, `waiters`; per subscriber `seen_notify`, `seen_seqno` | second half of `publish`, `latest_view`, `wait_any`, `wait_for_update` |
| Publisher | `src/src/publisher.cpp` | `next_index`, `seqno`, `host_views`, staging descriptor, cached pool bundle, `buffer_size` | `create`, `handshake_pool`, `acquire_descriptor`, `publish`, `reannounce_pool` |
| Subscriber | `src/src/subscriber.cpp` | attached pool and its generation, views, `last_good`, fence ring | `wait_handshake`, `drain_fences`, `latest_view`, `wait_any`, `detach` |
| FD sidecar | `src/src/sidecar.cpp` | listening socket and its path, `clients`, cached pool message | accept and handshake, pool and fence broadcast, client connect and polling |
| Tensor pool | `src/src/pool.cpp` | buffers, `in_use`, ring head, generation, lazy CUDA views | `create`, `acquire_next`, `release`, `retire_and_reallocate`, `device_ptr` |
| CUDA and NvBufSurface buffers | `src/src/accelerator_cuda.cpp`, `src/src/pool_nvbufsurface.cpp` | driver handles, address ranges, mappings | alloc, export, import, map, free |
| Descriptor validation | `src/include/axon/detail/descriptor_util.h` | none | `descriptor_error` |
| Iceoryx2 channel | `src/src/metadata_channel_iox2.cpp` | the service's one publisher port, the newest sample, `last_` | the same interface as the seqlock |
| Real-time support | `src/src/rt.cpp` | PM-QoS holds, memory locks, scheduling | `CpuLatencyHold`, `rt_setup_memory_and_sched`, `rt_sleep_until_prewarmed` |
| Python bindings | `src/python/axon_py.cpp` | the C++ objects they wrap | `publish`, `publish_device`, `latest_view`, the hold object |
| ROS bridges and the V4L2 spike | `src/integrations`, `src/examples/spike_poc` | a pool, a topic or socket of descriptors, a watchdog | producer and consumer nodes, image_transport plugin |
| Demo, benchmarks, instrumentation | `src/examples/demo`, `src/benchmarks`, `src/instrumentation` | users of the library | |

How they interact: a producer owns a `TensorPool` and a `TensorPublisher`. Per frame it calls
`acquire_descriptor()`, writes the payload into the mapped buffer and calls `publish()`, which sends an optional
sync fence over every sidecar socket, stores the descriptor in the slot under the seqlock, bumps the
notify word, wakes waiters and accepts consumers that have connected meanwhile. A consumer calls
`wait_handshake()` (receives the pool over the socket, maps it, opens the slot), then on every tick
`drain_fences()` and `latest_view()`, and may sleep in `wait_any()` between ticks. After
`retire_and_reallocate()` the generation in the descriptors no longer matches the consumer's, which falls back on
the last good frame until it re-handshakes. The ROS bridges use only the sidecar and the mapping: their descriptors travel
over a topic that may lose them, and nobody looks at `in_use`.

What is hard about it: there are no locks between the processes. The slot is read while it is written; the notify and
waiter words race with a wait about to sleep; the fence of a frame and its descriptor travel over two
channels; buffers are overwritten without asking who still reads them; pools are replaced under
consumers that hold views into the old ones; sockets are bounded and blocking; either side may die; publishers of
one service may overlap while both create and unlink the same names; nearly every system or driver call may fail in the
middle of something.
`PROJECT.json` lists every such hazard at its line.

What makes each part correct:

* the seqlock: a read never mixes two publishes, a false return has a cause, a read returns whatever the
  publisher does, and the whole behaves as an atomic latest-value register;
* waiting: no frame is overlooked between a read and a wait, an announced sleeper is woken, a timed or polling wait
  returns;
* fences: a fence is in reach before its frame can be read, in order, closed once and never while
  borrowed; no consumer stops the producer;
* the stream: a view shows the frame it was handed out for until the ring has gone round, never dangles, never goes
  back in time; a retired pool is not written to;
* the pool: whatever call fails, nothing is leaked or closed twice; the in-use flags are those of the buffers the
  owning thread has in hand, and the ring goes round;
* descriptors: the check accepts exactly what fits, views end inside their buffers, handshakes carry the pool as it is;
* the sidecar's byte stream: messages stay separated through timeouts, blobs and deaths, a pool is attached whole;
* names: a publisher is found under its names, frames are looked up in the buffers of the publisher that sent them;
* real time: the innermost hold is in force, none is lost or kept too long, a sleep ends and not too early;
* the bridges: a wrong payload is a lap, not a mix-up, the watchdog tells the truth, a consumer attaches.

## Modules

| Module | What it is |
|---|---|
| `LatestRegister` | abstract specification: what a `MetadataChannel` promises, a register of one value and reads that overlap publishes |
| `Seqlock` | `publish()` and `read_latest()` step by step over words; implements `LatestRegister` |
| `WaitNotify` | the notify/waiters protocol, `latest_view()` bookkeeping, `wait_any()` |
| `FenceStream` | fence broadcast, sockets, drain, the fence ring, accept, re-handshake, exit |
| `AxonStream` | pool generations, ring of buffers and payloads, retire and re-announce, views and last known good |
| `TensorPool` | allocation of the five backends call by call, failures, the ring of in-use flags as its owner uses it, what a subscriber imports |
| `PoolPublisher` | sizes: `descriptor_error()` on wrapping words, the cached bundle, Python's publishing, the memory a view covers |
| `SidecarFraming` | headers, descriptors and import blobs on one byte stream, timeouts, reconnects |
| `Lifecycle` | publishers that start, stop, crash and overlap; socket path, slot name, iceoryx2 port; a subscriber that finds them |
| `Realtime` | latency holds across moves, forks and deaths, `rt_setup`, the pre-warmed sleep |
| `OffloadStream` | ROS1, ROS2, image_transport and spike applications over `axon_bridge.h` |
| `SeqlockProofs`, `WaitNotifyProofs`, `FenceStreamProofs`, `AxonStreamProofs`, `TensorPoolProofs`, `PoolPublisherProofs`, `SidecarFramingProofs`, `LifecycleProofs` | the theorems about those modules, each with its inductive invariant; `TensorPoolProofs` also has those about `OffloadStream`, `LifecycleProofs` those about `Realtime` |
| `MC...` | one instance for TLC of each of the modules above |

The modules compose by abstraction: `Seqlock` implements `LatestRegister`, so every other module
takes the slot as one atomic value, and `WaitNotify` counts a call of `read_latest()` as
one step. `FenceStream` takes a message on a socket as one thing, which `SidecarFraming` shows for the byte stream below it.
`FenceStream` leaves pool generations and payloads to `AxonStream`, which leaves fences and full
sockets to `FenceStream`; both model accept, attach, re-handshake and drain, each with the state its questions need. Both
take one publisher that lives; `Lifecycle` replaces it. `AxonStream` takes the pool as buffers that are there
or not, `TensorPool` builds them and `PoolPublisher` sizes them.

### How state and actions correspond to the code

**Seqlock.** `guard`, `ready`, `desc[w]` are the slot's fields, `rpc`, `before`, `left`, `tmp`, `attempt` the locals of
`read_latest()`. One step per atomic access; the descriptor's words are stored and copied one at a
time in any order, as `memcpy` may. A word holds the number of its publish. `Crash` stops the publisher anywhere.
`loadOrder = "late"` is a CPU or compiler that satisfies the plain load of `ready` after the copy
(`PredictReady`, `LoadReadyLate`): nothing in the code orders it. `pubs` and `atRest` are history.

**WaitNotify.** `StoreFrame` is the seqlock publish, then `BumpNotify`, `TakeFlag` and `WakeAll` are the three steps of
lines 171-180. A waiter owns one subscriber per stream of its list. `LoadNotify` and `HandOut`/`FallBack` are
`latest_view()`; `WaitBegin` to `NapEnd` are `wait_any()`: raise the flags, check, test the deadline, sleep in
`futex_waitv`, or poll where the kernel or a slot lacks support (`kernel`, `hasNotify`, chosen once). In
the polling check of `has_update()` the descriptor read counts as successful: a failed one is a poll that comes later.

**FenceStream.** Every `connect()` makes a connection, an entry of `queue` that holds at most `SockCap` messages;
`backlog` are connections not accepted yet. `SendTo` is `send_fds()`: it waits while the queue is full and fails at once
when the peer has closed. Fence tokens are one per frame, as in `src/tests/test_end_to_end.cpp:135`. `fds` are the fence
descriptors a process has open, so leaks and early closes are visible.

**AxonStream.** `content[g][i]` is the frame last written into buffer `i` of pool generation `g`. `AcquireDescriptor` takes
the buffer through `host_views` (`hostGen`, renewed only by `reannounce_pool()`), `Publish` stamps the current
generation. `Retire(FALSE)` is a `retire_and_reallocate()` whose allocation fails, after which the pool is empty
(`AcquireNoBuffer`). Two constants say what the caller does: `ReannouncesFirst` (it calls `reannounce_pool()`
between a retire and the next acquire) and `RetiresInHand` (it may retire while it holds a descriptor). `view` is what
the last `latest_view()` returned, and may be in use until the next one.

**TensorPool.** `open` and `held` are what the owner's and the subscriber's process have to give back, each thing named by
the call that made it, its buffer and its generation. `Calls` lists the calls that make a buffer of each backend, `Undone` what
the error path of each call gives back. `MakeBuffer` is a turn of an allocator's loop, `FailBuffer` one whose k-th call
fails, after which `allocate()` frees all (`FailAllocation`). `MapCudaView` is the lazy view of `device_ptr()`. `lease` is the
index the owner keeps for each frame it has in hand (`Holders`), with the generation of its `acquire_next()`; `release()` passes on the
index only. A `TensorPool` has no lock: `acquire_next()` reads `ring_head`, tests `in_use` and then sets both, plain fields. So each of
its calls is one step of the one thread that owns the pool, as in `src/tests/test_pool.cpp`; calls of two threads at once are a
data race, which may give both the same buffer, and nothing here is about them. On the subscriber's side `Attach`, `ImportHost`, `ImportAccel`, `ImportNvBuf` are `wait_handshake()` buffer by buffer.

**PoolPublisher.** `pool.bytes` is the true length of the buffers beside `pool.size`, the length the code keeps;
`pub.size` is the copy the publisher took when it was created. `Times` and `Product`, a loop over
the prefixes of a shape as in the code, wrap modulo `Word`, or not, when the same operator computes the true number. `faulted` is a consumer that touches a page past the end of a file it mapped with the
announced size. `PyPublish`, `PyPublishDevice` and the array part of `LatestView` are the binding's own arithmetic.

**SidecarFraming.** The stream is a sequence of 8-byte units that know which message they are of (`msg`, `pos`: history that
the code cannot see) and which tag their first byte shows. `Taken` is `recvmsg()` as Linux does it. The server is one
thread, so a blob follows its header (`sending`); the consumer's `hello`, `blob`, `poll` and `skip` are the four places
in which it may time out. `cut` remembers a handshake given up inside its blob, `misparsed` and `leaked` are what that may lead to.

**Lifecycle.** One action per system call of `create()` and of the destructors, since an old publisher's end may fall
between any two of a new one's. A name refers to the publisher that made it, whoever unlinks it. `iox` chooses the build; the
library is modelled by what the code asks of it (one publisher, the newest sample, a history of one). `overtaken` and
`overlapped` are history.

**Realtime.** `limit` is the sysfs value of a CPU that all processes share, `refs` the processes that have a description of
`/dev/cpu_dma_latency` open, `holds` the objects, copied by `Fork`. `Released` and `Acquired` transform the system as one
record, so `MoveAssign`, `SetUp` and `Exit` compose them. The write that restores a CPU's limit may fail, and `release()` ignores
that (`written`). `nest` has the holds in force on each CPU with their levels, the nesting that `rt.h` asks for: a new hold is one level
inside all others. A release from further out, or one whose write failed, is remembered in `crossed`.

**OffloadStream.** One module for four applications, chosen in `Init`, since they share the pool in which frame s goes to
buffer s modulo n. Buffers are written and read in two parts. `queue` is the topic (bounded, drops the oldest, may lose any) or
the spike's socket (blocking). `ImageBegin` makes a new `Producer` before the old one's destructor unlinks the path of both.

## Runs

| Run | Instance | What it shows |
|---|---|---|
| `seqlock` | 1 reader, 3 words, 3 publishes, 0 or 2 retries, both load orders | no torn read, hits and misses have a cause, every read returns, refinement of the register |
| `wait_streams` | 1 thread on 2 streams, 2 publishes each, with and without `futex_waitv` and notify words | no frame overlooked, sleepers announced, timed and polling waits return |
| `wait_shared` | 2 threads on 1 stream, 2 publishes | with one waiter flag shared by two threads, an announced sleeper is woken |
| `lost_wakeup` | 1 thread, 1 stream, 3 publishes | *violated*: a publisher delayed between bump and exchange takes the flag of a waiter about to sleep; the next publish does not wake it |
| `fence` | 1 consumer, 3 frames, 3 connections, sockets and rings of 2 | fences in reach, in order, not leaked, not closed while borrowed; the publisher's calls return and frames reach a consumer that ticks |
| `stream` | 1 consumer, 2 buffers, 5 frames, 3 generations, 2 queued messages | views intact, never dangling, never going back; retired pools untouched |
| `pool` | 5 backends, 2 buffers, 2 generations, 2 frames in hand of the owning thread | owner and subscriber hold exactly what they will give back; flags are raised for the buffers in hand, each in hand once, but for a stale release; no free buffer passed over |
| `publisher` | 6-bit words, pages of 4, 2 generations, frames of 5 shapes | the check is exact but for a product that wraps; views end in their buffers unless the pool shrank; handshakes are current |
| `lifecycle` | 2 publishers, 1 frame and 2 generations each, both channels | names of a live publisher, frames in their own buffers, a subscriber that keeps asking attaches |
| `sidecar` | 4 messages, blobs of 2 units, pools too big for one message | the stream stays framed, fences are true, pools are attached whole |
| `rt` | parent and child, 1 CPU, 2 holds of a caller and the setup's, clock of 2 | limits follow nesting, requests live as long as their holds, setup's hold stays, sleeps return and not early |
| `offload` | 4 applications, 2 buffers, 4 frames, 2 instances, queues of 1 or 2 | a wrong payload is a lap or another pool's, the watchdog is truthful, a consumer attaches |

The violated property states what a comment of the code says; `PROJECT.json` quotes it under `findings`.

### Further configurations

These check statements that the code does not keep, or a larger instance, and are kept for whoever changes that code.
Each is run as `tlc -config X.cfg M`.

| Configuration | Module | Result |
|---|---|---|
| `MCSeqlockLate.cfg` | `MCSeqlock` | `NoDataIsFalse` *violated*: on a CPU that reorders loads `read_latest()` may return true for the zeroed slot (`ready` is plain); `latest_view()` rejects it by its generation |
| `MCSpuriousReturn.cfg` | `MCWaitNotify` | `ReturnMeansNewFrame` *violated*: `wait_any()` returns an index with nothing newer than the frame in hand |
| `MCBlockedPublish.cfg` | `MCFenceStream` | `PublishNeverBlocks` *violated*: a consumer that stops draining blocks `publish()` for ever |
| `MCLateFence.cfg` | `MCFenceStream` | `FenceReachableByAll` *violated*: a consumer accepted after the broadcast never gets that frame's fence |
| `MCRetiredWrite.cfg` | `MCAxonStream` | `ViewIntact` *violated* for a producer that does not re-announce: payload goes to the old pool, the descriptor names the new one |
| `MCFenceTwo.cfg` | `MCFenceStream` | two consumers, no error: the safety part of `fence` and the type invariant |

The modules also define statements that hold in none of these runs and explain the exceptions in the properties above:
`PoolPublisher!PublishedFramesFit` (a pool that shrank makes the size check look at the old size), `Realtime!SuccessMeansLocked`
(`mlockall()` refused with `EPERM` or `ENOMEM` is not an error), `Lifecycle!ViewsOfOnePublisher` (a restarted publisher's
generation is 1 again) and `Lifecycle!NewestKeepsItsNames` (an old publisher's destructor unlinks the new one's names).

**Bounds.** Three publishes let a reader meet one publish before, one during and one after its copy, with the
guard moving twice under it; three words give every partial copy. Two publishes wrap the flag protocol (one takes the
flag, the next finds it 0), three are needed for a lost wakeup that the publisher itself does not repair. Three
fences wrap a ring of two and overfill a socket of two. Five frames go twice round two buffers, with a retire possible on
each lap, and three generations give a pool before, during and after a re-handshake. Readers of the seqlock and consumers
of the stream store nothing another one reads, so one is as good as many in those runs; the proofs hold for any number.
Bounded counters are guards of the acting operation: `MaxPublish`, `MaxFrame`, `MaxConn`,
`MaxGen`, `MaxQueued`. They end activity, so `TimedWaitReturns` and its like are checked with publishers that stop as well as
with ones that go on.

One reallocation (`MaxGen` 2) gives `TensorPool` an old and a new generation at once, which is what a stale release, a second
attachment and a failed reallocation need; two buffers make an allocation fail before, between and after them. Words of 6 bits
hold three dimensions of 3 bits, so that products of the same number of factors wrap as in the code; the frames include
an offset next to the word's end, a size larger than any buffer and a pitch on either side of a row. Four messages put a fence and a pool
between two handshakes, and a blob of two units is cut in its middle. Two publishers meet in every order of
their calls, and what one unlinks can hurt only another that has started, whom the second shows. Two
levels of holds nest and cross. Four frames go twice round two buffers of a bridge, and two instances are one that is
replaced. The bounds are `MaxPubs`, `MaxFrames`, `MaxGen`, `MaxMsgs`, `Depth`, `Deadline`, `MaxFrame`, `MaxInstances`.

Deadlock is checked where the protocol must always have a step: `seqlock`, the waits, `fence`, `stream` and `pool`. The other
systems may really end (every publisher gone, a process dead, a server crashed with its stream read) and their runs
say `CHECK_DEADLOCK FALSE`.

**Fairness.** `Seqlock`: a thread inside `read_latest()` is scheduled; the publisher owes nothing and may die.
`WaitNotify`: a publish that has begun finishes, a thread in `wait_any()` that is not asleep is scheduled,
and time passes; nobody owes another publish, a signal or another call. `FenceStream`: `PublisherFair` asks only that
the publisher's thread runs on while `sendmsg()` lets it. `TickingFair` adds what the documentation asks of consumers: they
call `drain_fences()` on every tick, finish a handshake they began, and call `latest_view()` on every tick; strong
fairness there, because a frame whose fence is not drained yet disables it again and again. `FrameReachesClient`
assumes the producer re-announces its pool finitely often: `drain_fences()` loops while messages arrive, so a producer
that sends for ever can keep it from returning. `Lifecycle`: the subscriber's caller calls `wait_handshake()` again and again,
and a live publisher, which polls for consumers at each publish, accepts one that is waiting (strong: the wait may time out in
between). Nobody owes a start, a stop or a frame. `OffloadStream`: a node goes on with its loop, a consumer with what
it has begun; `connect()` and the handshake fail only when nobody answers, since their timeouts are seconds and a producer's tick
milliseconds. `Realtime`: the clock advances while a call sleeps or spins. `TensorPool`, `PoolPublisher` and
`SidecarFraming` are safety only.

### What the properties exempt

Some properties hold only with a case set apart, because the code does not keep them there. The case is named in the property by a
history variable or a condition, and a hazard that consists of it is listed in `PROJECT.json` without a property.

| Property | Exempt | So it would not notice |
|---|---|---|
| `HitIsPublished` | `loadOrder = "late"` | a zeroed slot returned by a CPU that reorders loads (`MCSeqlockLate.cfg`) |
| `FenceReachable` | consumers accepted after the broadcast | the fence they never get (`MCLateFence.cfg`) |
| `PublisherReturns` | consumers that stop draining | a publisher blocked on a full socket (`MCBlockedPublish.cfg`) |
| `ViewIntact`, `RetiredFramesKept` | `~ReannouncesFirst` | frames written into a retired pool (`MCRetiredWrite.cfg`) |
| `FlagsFollowLeases` | `stale` | a flag of the new generation cleared by a release of an old index |
| `VerdictsExact` | `wraps` | a footprint that wraps to a small one |
| `ViewsInsideBuffers` | pools that shrank | frames and views past the end of the smaller buffers |
| `LivePublisherIsNamed` | publishers that overlap in time | the names of the new one unlinked by the old one's destructor |
| `ViewsMatchPool` | `overlapped`; `overtaken` (a slot made in the middle of a handshake); the same generation over iceoryx2 | a restarted publisher's frames looked up in the old one's buffers |
| `StreamStaysFramed`, `FencesAreTrue` | `cut` | messages misread after a handshake given up inside its blob |
| `LimitFollowsNesting` | `crossed` | a limit left by holds released out of order or by a restoring write that failed |
| `SetupHoldStays` | says nothing of `locked` | a refused `mlockall()` that setup does not report |
| `PayloadErrorsAreLaps` | `lapped`, `foreign` | pixels of a later frame after a whole ring; frames of a replaced producer's pool |
| `WatchdogTruthful` | `changed` | a silent watchdog, or a false warning, when the producer is replaced |
| `ConsumerAttaches` | `replaced` | a path unlinked by the `Producer` that was replaced |

## Proofs

All for every value of the constants.

* `SeqlockProofs`: the inductive invariant `IInv` is `TypeOK`, what guard, `ready` and words say about
  the publish in progress (`WriterInv`), and per reader what its copy says about the guard it was taken under
  (`CopyInv`: while the guard still has the value loaded before the copy, all copied words belong to the
  publish that value counts). `NoTornRead` alone is not inductive: it says nothing of a copy in progress. From `IInv`
  follow `NoTornReads`, `HitsArePublished`, `MissesNeedWriter`, and, with the mapping in `Seqlock`, `ImplementsRegister`.
* `AxonStreamProofs`: `TypeCorrectness`, `NoDanglingFallbacks` and `ViewsAdvance` hold for every producer; the last from
  `OrderInv` (slot, descriptor in hand and acquire counter are ordered, and a view is the last good one). `ViewsStayIntact`
  and `RetiredFramesStay` assume `Disciplined`, a caller that re-announces before it acquires again and retires with
  nothing in hand; `MCRetiredWrite.cfg` shows that the assumption is needed. Their invariant `RingInv` says of every
  descriptor around (slot, last good, view): its buffer is its frame modulo the ring, the frame is older than
  the one in hand, and the buffer holds it or was lapped. The only step that could break it is `FillBuffer`, and
  `SameBufferLapped` is why it does not: two frames of one buffer are a whole ring apart.
* `WaitNotifyProofs`: `CountInv` ties a notify word to the frames stored, minus the one between its store and its bump;
  `SeenInv` says that a subscriber never has seen more bumps than frames, since `latest_view()` loads the word before it reads
  the slot: from both follows `NoFramesOverlooked`. `FlagInv` follows a raised flag through the loops of `wait_any()` (`LoopInv`)
  until a publisher takes it; it is the strengthening of `SleepersAnnounced` to the steps before a waiter sleeps.
* `FenceStreamProofs`: `LinkInv` and `ListInv` keep connections apart (each is one consumer's, in the backlog or accepted once),
  `PhaseInv` relates counter, slot and broadcast. `QueueInv` and `RingInv` order the fences of a socket and say that a ring is
  older than its socket, hence `FencesStayInOrder`. `AgeInv` says that the ring, counted from the slot to be taken next, ages by one per
  slot, hence `BorrowedFencesOpen`: the oldest fence is the one that goes. `ReachInv` splits `FencesReachable` into the
  frame in the slot and the one whose broadcast is under way; `AwaitInv` (a consumer that waits for its pool finds it
  first) is needed because `detach()` empties the ring in between. `NoFenceLeaks` follows from how ring and descriptors change together.
* `TensorPoolProofs`: `OwnersHoldTheirPool` and `SubscribersHoldTheirViews` for every backend, number of buffers and failing call; they need
  `PhaseInv` (what each phase of a pool's life has made) and `ImportInv`. `FlagsFollowTheLeases` needs `FlagInv` (a raised flag belongs to
  a buffer in hand) and `LeaseInv` (a buffer in hand of the present generation has its flag set, and is in hand once, unless a stale
  release cleared it), `NoFreeBufferIsPassedOver` needs `RoundInv`, a measure: what a
  free buffer was passed over, plus its distance from the ring's head, is less than the ring.
* `PoolPublisherProofs`: the lemmas about `Times` and `Product` show, for every word and rank, that what `descriptor_error()` computes
  modulo the word is the true number modulo the word, and so is the true number when that fits. From them `VerdictsAreExact`; from it, and
  from who knows which size (`BundleInv`, `ClientInv`, `FrameInv`), `ViewsStayInsideBuffers`. `HandshakesStayCurrent` is an
  action property: `handshake_pool()` compares the generation before it uses the bundle it cached (`BundleInv`).
* `SidecarFramingProofs`: a stream is `Framed` when every header in it is whole and is followed by its blob, as far as that was sent, and
  then by another header. Sending (`SentHeader`, `SentBlob`) and reading any number of units (`UnitsRead`) preserve that. `SendInv` says
  that only the last message is incomplete, by what the server is about to send; `FrontInv` says how much of which
  message the consumer has before it, until `cut`. `StreamsStayFramed`, `FencesStayTrue` and `PoolsAttachedWhole` follow, for every
  length of blobs and any interleaving with timeouts, deaths and reconnects. `TakenIs` and `HeaderReceived` are about `recvmsg()`.
* `LifecycleProofs`: `StartInv` and `HoldInv` say who is alive and has made what; `NameInv`, that a publisher alone has
  the names of what it made, is what `LivePublishersAreNamed` needs in the middle of `create()`. `ViewsMatchTheirPool` needs what
  the handshake has found (`HandshakeInv`) and whose frames a channel can bring after it (`ChannelInv`).
* `LifecycleProofs`, about `Realtime`: `LatencyInv` speaks of the system and the table of holds as two values, so that a call made of
  several steps (`MoveAssign`, `SetUp`, `Exit`) is followed through its intermediate states. `LimitFollowsNesting` alone does not survive
  a release: what the released hold puts back must be the limit of the next one out, which `WellNested` says of every level. `Kept` (what
  a process acquired itself is in force, and in one variable only) and `Inherited` (only a child has holds of another process) are why a
  release cannot undo another hold's request. `RequestsStayHeld` adds `Requested`, `SetupHoldsStay` adds `SetupInv`.
* `TensorPoolProofs`, about `OffloadStream`: `PayloadErrorsStayLaps` needs to know of every message on its way that its frame, or a later one
  of the same buffer, is there in both parts (`Told`), whatever happens to its producer; `TellsOn` shows that every step of a producer
  keeps this, from how a producer may follow another (`Leads`). For that, `PoolsAgree` keeps frames in their places and stamps ahead of
  pixels, `LiveAgrees` ties the ring to the counters, and `ReadInv` holds between the two parts of a read. `SlotLapped` turns a later frame of the same
  buffer into a lap. That a copy stays inside the mapping rests on `SizeInv` and the sizes in `Announced`.
  `WatchdogsAreTruthful` needs that messages come in the order of producers and frames (`OrderInv`): two equal numbers of
  one producer then mean that nothing came (`WatchInv`).

Each inductive invariant was model-checked on its module's run instance before it was proved. The type invariants are theorems and
in none of the runs (`MCFenceTwo.cfg` checks one).

The proofs rest on the named assumptions of the modules and on nothing else. Beyond the types of the constants these ask for a fence
ring of two or more slots, wait lists that are not empty, a pool of at least one buffer, words of at least 2 and
pages no longer than a word, for the five known backends, frames of at least one byte, CPUs and latencies that are natural numbers, and that every descriptor, array and
configuration a caller fills in has fields of its type. `SetupHoldIsPrivate` says that the hold of `rt_setup` is none of the caller's
variables: it is static in `rt.cpp`. TLC evaluates them in every run.

Every safety property of the passing runs is a theorem. Only model-checked is all liveness (`ReadsReturn`,
`TimedWaitReturns`, `PollingWaitReturns`, `AnnouncedSleeperWakes`, `PublisherReturns`, `FrameReachesClient`, `SubscriberAttaches`, `ConsumerAttaches`, `SleepReturns`): liveness under fairness and `ENABLED` are out of
the prover's reach.

The library's induction theorems take an operator as a parameter, which the installed provers cannot instantiate. `Product` is therefore a
recursive function over the prefixes of a shape, and `PoolPublisherProofs` proves that it exists and what it returns by a least
counterexample (`Numbers`, `ProductsExist`). No module declares a `RECURSIVE` operator.

## Not modelled

Left out of the models:

* Calls of `acquire_next()` and `release()` by two threads at once (`src/src/pool.cpp:327`): a data race the library does not guard
  against and no caller in `src/` provokes.
* `seen_notify` and `seen_seqno` across a re-handshake to another slot (`src/src/subscriber.cpp:226`): the old slot's counters are kept, and
  may coincide with the new one's. `WaitNotify` has one slot per stream, `Lifecycle` has no counters, no property speaks of it.
* The half-open connection to a server whose pool has more descriptors than one message carries (`src/src/sidecar.cpp:74`): `sidecar` has
  such pools, and shows that none is attached in part, not what becomes of the connection.
* Processes built with different back ends (one with iceoryx2, one without); the iceoryx2 library itself.
* The contents of NvBufSurface import blobs and the Jetson library; whether V4L2 fills buffers in the order they were queued.
* Page prefaulting, clocks and the parsing of CPU lists in `src/src/rt.cpp`: single system calls, or text without state.
* Argument conversion in the Python bindings: each of the other functions calls one C++ function.
* Staleness statistics of the ROS nodes, the demo, benchmarks and probes: they measure the library and keep none of its state.
* The claims "slot is locked while the AcquiredDescriptor is alive" (`src/include/axon/publisher.h:14`), "every consumer must detach"
  (`src/include/axon/pool.h:81`) and the acknowledgements of the design document have no code behind them and no definition here.
