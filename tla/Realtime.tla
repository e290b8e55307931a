------------------------------ MODULE Realtime ------------------------------
(***************************************************************************)
(* Real-time support (src/src/rt.cpp): CpuLatencyHold, which limits the    *)
(* idle states of one CPU through sysfs or of all through an open          *)
(* descriptor, rt_setup_memory_and_sched(), which keeps a hold for the     *)
(* rest of the process, and rt_sleep_until_prewarmed().                    *)
(*                                                                         *)
(* The sysfs attribute is one value per CPU that every process shares, so  *)
(* a hold writes its limit over the previous one and puts that back when   *)
(* released.  A process may fork(): the child has copies of the holds and  *)
(* of the descriptors.  rt.h asks that holds on one CPU nest: the history  *)
(* `nest` has those in force with their levels and `crossed` remembers a   *)
(* release out of order, one whose write was refused, or a death without   *)
(* unwinding.                                                              *)
(***************************************************************************)
EXTENDS Integers, Sequences, SequencesExt

CONSTANTS Parent, Child, Cpus,
          Limits,   \* the latencies asked for
          Names,    \* the caller's variables of type optional<CpuLatencyHold>
          Fds,      \* /dev/cpu_dma_latency descriptions
          Depth,    \* bound on the levels of a CPU's nest
          Configs,  \* RtSetupConfigs; cpu and us are -1 where it asks for none
          Deadline, \* bound on the clock of a sleep
          Word      \* 2^64

Procs == {Parent, Child}
Setup == "g_setup_latency_hold"
Holders == Names \cup {Setup}

ASSUME ProcessesDiffer == Parent # Child
ASSUME SetupHoldIsPrivate == Setup \notin Names
ASSUME RequestTypes ==
  /\ Cpus \subseteq Nat /\ Limits \subseteq Nat
  /\ Configs \subseteq [lock : BOOLEAN, cpu : Cpus \cup {-1}, us : Nat \cup {-1}, fifo : BOOLEAN]
ASSUME RealtimeBounds ==
  Depth \in Nat \ {0} /\ Deadline \in Nat /\ Word \in Nat /\ Word > Deadline

VARIABLES
  alive,    \* processes that run
  limit,    \* pm_qos_resume_latency_us per CPU; -1 is no limit ("0" in sysfs)
  refs,     \* refs[f]: the processes that have description f open
  holds,    \* holds[p][h]: the hold in h
  nest,     \* nest[c]: the holds in force on CPU c
  crossed,
  rt,       \* the last rt_setup call that returned 0: process, config, what it did
  nap       \* a call of rt_sleep_until_prewarmed()

rtVars == <<alive, limit, refs, holds, nest, crossed, rt, nap>>

NoLimit == -1
NoHold == [kind |-> "none"]
NotSetUp == [by |-> "none"]
Awake == [pc |-> "awake", deadline |-> 0, spin |-> 0, now |-> 0]

CpuHolds == [kind : {"cpu"}, owner : Procs, cpu : Cpus, us : Nat,
             restore : Nat \cup {NoLimit}, level : 1..Depth]
AllHolds == [kind : {"all"}, owner : Procs, fd : Fds, us : Nat]

RtTypeOK ==
  /\ alive \subseteq Procs
  /\ limit \in [Cpus -> Nat \cup {NoLimit}]
  /\ refs \in [Fds -> SUBSET Procs]
  /\ holds \in [Procs -> [Holders -> {NoHold} \cup CpuHolds \cup AllHolds]]
  /\ nest \in [Cpus -> SUBSET CpuHolds]
  /\ crossed \in [Cpus -> BOOLEAN]
  /\ rt \in {NotSetUp} \cup [by : Procs, cfg : Configs, locked : BOOLEAN]
  /\ nap \in [pc : {"awake", "asleep", "spins", "returned"},
              deadline : 0..Deadline, spin : 0..Deadline, now : 0..Deadline]

RtInit ==
  /\ alive = {Parent} /\ limit = [c \in Cpus |-> NoLimit] /\ refs = [f \in Fds |-> {}]
  /\ holds = [p \in Procs |-> [h \in Holders |-> NoHold]]
  /\ nest = [c \in Cpus |-> {}] /\ crossed = [c \in Cpus |-> FALSE]
  /\ rt = NotSetUp /\ nap = Awake

-----------------------------------------------------------------------------
(* The system: limits, open descriptions and the nesting of holds, as one  *)
(* record that acquire() and release() transform.                          *)

Kernel == [limit |-> limit, refs |-> refs, nest |-> nest, crossed |-> crossed]
SetKernel(k) == /\ limit' = k.limit /\ refs' = k.refs
                /\ nest' = k.nest /\ crossed' = k.crossed

\* Mutant of Released: a forked child's copy is undone as well.
ReleasedByAnyone(k, p, h, written) ==
  CASE h.kind = "all" -> [k EXCEPT !.refs[h.fd] = @ \ {p}]
    [] h.kind = "cpu" ->
         [k EXCEPT !.limit[h.cpu] = h.restore,
                   !.nest[h.cpu] = @ \ {h}]
    [] OTHER -> k

\* release() by process p of hold h: only the acquiring process undoes it.  The
\* write that restores the limit may fail, which nobody is told.
Released(k, p, h, written) ==
  CASE h.kind = "all" /\ h.owner = p -> [k EXCEPT !.refs[h.fd] = @ \ {p}]
    [] h.kind = "cpu" /\ h.owner = p ->
         [k EXCEPT !.limit[h.cpu] = IF written THEN h.restore ELSE @,
                   !.nest[h.cpu] = @ \ {h},
                   !.crossed[h.cpu] = @ \/ ~written
                                        \/ \E x \in k.nest[h.cpu] : x.level > h.level]
    [] OTHER -> k

\* The holds acquire(us, cpu) may return, with the system after it; a failed
\* acquire() leaves the system as it was.
CpuHold(k, p, us, c, n) == [kind |-> "cpu", owner |-> p, cpu |-> c, us |-> us,
                            restore |-> k.limit[c], level |-> n]
AcquiredCpu(k, p, us, c, n) ==
  <<CpuHold(k, p, us, c, n),
    [k EXCEPT !.limit[c] = us, !.nest[c] = @ \cup {CpuHold(k, p, us, c, n)}]>>
AcquiredAll(k, p, us, f) ==
  <<[kind |-> "all", owner |-> p, fd |-> f, us |-> us], [k EXCEPT !.refs[f] = {p}]>>

\* A new hold is inside all those in force.
NextLevels(S) == {n \in 1..Depth : (\A x \in S : x.level < n)
                                   /\ (n = 1 \/ \E x \in S : x.level = n - 1)}
FreeFds(k) == {f \in Fds : k.refs[f] = {}}
Acquired(k, p, us, c) ==
  {<<NoHold, k>>} \cup
  (IF c = -1 THEN {AcquiredAll(k, p, us, f) : f \in FreeFds(k)}
   ELSE {AcquiredCpu(k, p, us, c, n) : n \in NextLevels(k.nest[c])})

-----------------------------------------------------------------------------
(* Holds of the caller.                                                    *)

\* auto h = CpuLatencyHold::acquire(us, cpu).
Acquire(p, h, us, c) ==
  /\ p \in alive /\ holds[p][h] = NoHold
  /\ \E a \in Acquired(Kernel, p, us, c) :
       SetKernel(a[2]) /\ holds' = [holds EXCEPT ![p][h] = a[1]]
  /\ UNCHANGED <<alive, rt, nap>>

\* h.reset(), or the end of h's scope.
Release(p, h) ==
  /\ p \in alive /\ holds[p][h] # NoHold
  /\ \E written \in BOOLEAN : SetKernel(Released(Kernel, p, holds[p][h], written))
  /\ holds' = [holds EXCEPT ![p][h] = NoHold]
  /\ UNCHANGED <<alive, rt, nap>>

\* Mutant of MoveAssign: h is not released first.
MoveAssignOver(p, h, g) ==
  /\ p \in alive /\ h # g /\ holds[p][g] # NoHold
  /\ holds' = [holds EXCEPT ![p][h] = holds[p][g], ![p][g] = NoHold]
  /\ UNCHANGED <<alive, limit, refs, nest, crossed, rt, nap>>

\* *h = std::move(*g): h is released, g is left empty.
MoveAssign(p, h, g) ==
  /\ p \in alive /\ h # g /\ holds[p][g] # NoHold
  /\ \E written \in BOOLEAN : SetKernel(Released(Kernel, p, holds[p][h], written))
  /\ holds' = [holds EXCEPT ![p][h] = holds[p][g], ![p][g] = NoHold]
  /\ UNCHANGED <<alive, rt, nap>>

-----------------------------------------------------------------------------
(* rt_setup_memory_and_sched(cfg) as its steps, of which the one called    *)
(* `failed` returns -1; "none": the call succeeds.                         *)

Steps == <<"mlockall", "heap", "affinity", "hold", "scheduler">>
Reached(failed, step) ==
  \/ failed = "none"
  \/ \E i, j \in 1..Len(Steps) : Steps[i] = step /\ Steps[j] = failed /\ i < j

\* Mutant of SetUp: a hold that is there, inherited or not, is kept.
SetUpKeeping(p, cfg, failed, locked) ==
  /\ p \in alive
  /\ failed = "none" /\ (locked => cfg.lock)
  /\ rt' = [by |-> p, cfg |-> cfg, locked |-> locked]
  /\ IF cfg.us >= 0 /\ holds[p][Setup] = NoHold
     THEN \E a \in Acquired(Kernel, p, cfg.us, cfg.cpu) :
            a[1] # NoHold /\ SetKernel(a[2]) /\ holds' = [holds EXCEPT ![p][Setup] = a[1]]
     ELSE UNCHANGED <<limit, refs, nest, crossed, holds>>
  /\ UNCHANGED <<alive, nap>>

\* mlockall() may be refused without the call failing: only EINVAL twice does.
SetUp(p, cfg, failed, locked) ==
  /\ p \in alive
  /\ failed = "mlockall" => cfg.lock /\ ~locked
  /\ locked => cfg.lock
  /\ failed = "affinity" => cfg.cpu >= 0
  /\ failed = "hold" => cfg.us >= 0
  /\ failed = "scheduler" => cfg.fifo
  /\ rt' = IF failed = "none" THEN [by |-> p, cfg |-> cfg, locked |-> locked] ELSE NotSetUp
  /\ IF cfg.us >= 0 /\ (failed = "hold" \/ Reached(failed, "hold"))
     THEN \E written \in BOOLEAN :
          \E a \in Acquired(Released(Kernel, p, holds[p][Setup], written), p, cfg.us, cfg.cpu) :
            /\ (a[1] = NoHold) <=> (failed = "hold")
            /\ SetKernel(a[2])
            /\ holds' = [holds EXCEPT ![p][Setup] = a[1]]
     ELSE UNCHANGED <<limit, refs, nest, crossed, holds>>
  /\ UNCHANGED <<alive, nap>>

-----------------------------------------------------------------------------
(* Processes.                                                              *)

Fork ==
  /\ alive = {Parent}
  /\ alive' = Procs
  /\ holds' = [holds EXCEPT ![Child] = holds[Parent]]
  /\ refs' = [f \in Fds |-> IF Parent \in refs[f] THEN Procs ELSE refs[f]]
  /\ UNCHANGED <<limit, nest, crossed, rt, nap>>

\* What the death of p closes, and the holds in force that nobody will undo.
Closed(k, p) == [k EXCEPT !.refs = [f \in Fds |-> @[f] \ {p}]]
Abandoned(k, p) ==
  [k EXCEPT !.crossed = [c \in Cpus |-> @[c] \/ \E x \in k.nest[c] : x.owner = p],
            !.nest = [c \in Cpus |-> {x \in @[c] : x.owner # p}]]

\* main() returns: the caller's holds are gone, the static one is destroyed.
Exit(p) ==
  /\ p \in alive /\ \A h \in Names : holds[p][h] = NoHold
  /\ \E written \in BOOLEAN :
       SetKernel(Closed(Released(Kernel, p, holds[p][Setup], written), p))
  /\ holds' = [holds EXCEPT ![p] = [h \in Holders |-> NoHold]]
  /\ alive' = alive \ {p} /\ rt' = IF rt.by = p THEN NotSetUp ELSE rt
  /\ UNCHANGED nap

\* A process that is killed unwinds nothing.
Kill(p) ==
  /\ p \in alive
  /\ SetKernel(Closed(Abandoned(Kernel, p), p))
  /\ holds' = [holds EXCEPT ![p] = [h \in Holders |-> NoHold]]
  /\ alive' = alive \ {p} /\ rt' = IF rt.by = p THEN NotSetUp ELSE rt
  /\ UNCHANGED nap

-----------------------------------------------------------------------------
(* rt_sleep_until_prewarmed(deadline, spin), on a clock that starts at 0.  *)

\* Mutant of Sleeps: spin may exceed the deadline, and the difference wraps.
SleepsUnguarded(n) == n.now < (n.deadline - n.spin) % Word

Sleeps(n) == n.deadline > n.spin /\ n.now < (n.deadline - n.spin) % Word
AfterSleep(n) == [n EXCEPT !.pc = IF Sleeps(n) THEN "asleep" ELSE "spins"]

BeginSleep ==
  /\ nap.pc = "awake" /\ alive = {Parent}
  /\ \E d, s \in 0..Deadline :
       nap' = AfterSleep([Awake EXCEPT !.deadline = d, !.spin = s])
  /\ UNCHANGED <<alive, limit, refs, holds, nest, crossed, rt>>

\* clock_nanosleep() ends: on time, late, or early for a signal; then the loop tests.
Wake ==
  /\ nap.pc = "asleep"
  /\ \E t \in (nap.now + 1)..Deadline : nap' = AfterSleep([nap EXCEPT !.now = t])
  /\ UNCHANGED <<alive, limit, refs, holds, nest, crossed, rt>>

Spin ==
  /\ nap.pc = "spins"
  /\ IF nap.now < nap.deadline
     THEN \E t \in (nap.now + 1)..Deadline : nap' = [nap EXCEPT !.now = t]
     ELSE nap' = [nap EXCEPT !.pc = "returned"]
  /\ UNCHANGED <<alive, limit, refs, holds, nest, crossed, rt>>

EndSleep ==
  /\ nap.pc = "returned" /\ nap' = Awake
  /\ UNCHANGED <<alive, limit, refs, holds, nest, crossed, rt>>

HoldStep(p) ==
  \/ \E h \in Names : \/ \E us \in Limits, c \in Cpus \cup {-1} : Acquire(p, h, us, c)
                       \/ Release(p, h)
                       \/ \E g \in Names : MoveAssign(p, h, g)
  \/ \E cfg \in Configs, failed \in {"none"} \cup ToSet(Steps), locked \in BOOLEAN :
       SetUp(p, cfg, failed, locked)
  \/ Exit(p) \/ Kill(p)

\* One thread of a process has its holds, and here it is the one that sleeps.
RtNext ==
  \/ nap.pc = "awake" /\ (Fork \/ \E p \in Procs : HoldStep(p))
  \/ BeginSleep \/ Wake \/ Spin \/ EndSleep

\* The clock goes on while a call sleeps or spins.
RtFairness == WF_rtVars(Wake) /\ WF_rtVars(Spin)
RtSpec == RtInit /\ [][RtNext]_rtVars /\ RtFairness

-----------------------------------------------------------------------------
(* Properties.                                                             *)

\* While holds on a CPU nest, as rt.h asks, and their limits could be put back, the
\* innermost is in force, and when the last is gone the CPU has its own limit again:
\* through moves, a second rt_setup, one that fails half-way, and a forked child that
\* drops its copies.
Innermost(S) == {x \in S : \A y \in S : y.level =< x.level}
LimitFollowsNesting ==
  \A c \in Cpus : ~crossed[c] =>
    limit[c] \in IF nest[c] = {} THEN {NoLimit} ELSE {x.us : x \in Innermost(nest[c])}

\* The parent has /dev/cpu_dma_latency open exactly for its holds: no failed
\* acquire() and no replaced hold keeps a system-wide request alive, and none is
\* dropped while its hold lives.
RequestsAreHeld ==
  {f \in Fds : Parent \in refs[f]} =
  {holds[Parent][h].fd : h \in {g \in Holders : holds[Parent][g].kind = "all"}}

\* After rt_setup_memory_and_sched() has returned 0, the hold it was asked for is
\* the one the process keeps, whatever it held before and inherited, and it is
\* in the nest of its CPU or has its request open.
SetupHoldStays ==
  rt # NotSetUp /\ rt.cfg.us >= 0 =>
    LET h == holds[rt.by][Setup] IN
    /\ h # NoHold /\ h.owner = rt.by /\ h.us = rt.cfg.us
    /\ IF h.kind = "cpu" THEN h.cpu = rt.cfg.cpu /\ h \in nest[h.cpu]
                         ELSE rt.cfg.cpu = -1 /\ rt.by \in refs[h.fd]

\* rt.h: on success all current pages are wired.
SuccessMeansLocked == rt # NotSetUp /\ rt.cfg.lock => rt.locked

\* rt_sleep_until_prewarmed() keeps the core busy for at most spin_us.
SpinsBriefly == nap.pc = "spins" => nap.now + nap.spin >= nap.deadline

\* It returns, and never before the deadline, whatever the deadline and the spin.
SleepReturns == (nap.pc # "awake") ~> (nap.pc = "returned" /\ nap.now >= nap.deadline)
=============================================================================
