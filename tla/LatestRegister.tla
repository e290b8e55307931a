--------------------------- MODULE LatestRegister ---------------------------
(***************************************************************************)
(* What the metadata plane promises: a register that holds the newest      *)
(* frame, written by one publisher and read by many subscribers, where     *)
(* every read that succeeds returns the frame that was newest at one       *)
(* instant between the call and the return (metadata_channel.h:            *)
(* "Single-producer / multi-consumer latest value wins").  A read may      *)
(* also fail.  A frame is the number of the publish that wrote it; 0 is    *)
(* the register's initial content, written by no publish.                  *)
(***************************************************************************)
EXTENDS Naturals

CONSTANTS Readers,    \* the subscribers' read_latest() calls, one at a time each
          MaxPublish  \* bound on the number of publishes

VARIABLES latest,  \* the newest frame
          phase,   \* phase[r]: where reader r's call is, or how its last one ended
          sample,  \* sample[r]: the frame the call has taken, while it is "sampled"
          frame    \* frame[r]: what r's last call returned, 0 while it is not a hit
vars == <<latest, phase, sample, frame>>

Frames == 0..MaxPublish
Returned == {"idle", "hit", "miss"}
Phases == Returned \cup {"called", "sampled"}

TypeOK == /\ latest \in Frames
          /\ phase \in [Readers -> Phases]
          /\ sample \in [Readers -> Frames]
          /\ frame \in [Readers -> Frames]

Init == /\ latest = 0
        /\ phase = [r \in Readers |-> "idle"]
        /\ sample = [r \in Readers |-> 0]
        /\ frame = [r \in Readers |-> 0]

Publish == /\ latest < MaxPublish
           /\ latest' = latest + 1
           /\ UNCHANGED <<phase, sample, frame>>

Call(r) == /\ phase[r] \in Returned
           /\ phase' = [phase EXCEPT ![r] = "called"]
           /\ frame' = [frame EXCEPT ![r] = 0]
           /\ UNCHANGED <<latest, sample>>

\* The instant at which the read takes effect, if it is the call's last sample.
Sample(r) == /\ phase[r] = "called"
             /\ phase' = [phase EXCEPT ![r] = "sampled"]
             /\ sample' = [sample EXCEPT ![r] = latest]
             /\ UNCHANGED <<latest, frame>>

\* The call drops its sample and will take another.
Discard(r) == /\ phase[r] = "sampled"
              /\ phase' = [phase EXCEPT ![r] = "called"]
              /\ UNCHANGED <<latest, sample, frame>>

Hit(r) == /\ phase[r] = "sampled"
          /\ phase' = [phase EXCEPT ![r] = "hit"]
          /\ frame' = [frame EXCEPT ![r] = sample[r]]
          /\ UNCHANGED <<latest, sample>>

Miss(r) == /\ phase[r] \in {"called", "sampled"}
           /\ phase' = [phase EXCEPT ![r] = "miss"]
           /\ UNCHANGED <<latest, sample, frame>>

Next == \/ Publish
        \/ \E r \in Readers : \/ Call(r) \/ Sample(r) \/ Discard(r)
                              \/ Hit(r) \/ Miss(r)

Spec == Init /\ [][Next]_vars
=============================================================================
