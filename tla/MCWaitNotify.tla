---------------------------- MODULE MCWaitNotify ----------------------------
(* Subscriber threads that wait on one stream, on two streams, and on the   *)
(* same stream as another thread.                                           *)
EXTENDS WaitNotify, TLC

CONSTANTS a, b, t1, t2

OneStream == {a}
TwoStreams == {a, b}
OneWaiter == {t1}
TwoWaiters == {t1, t2}
ListA == t1 :> <<a>>
ListAB == t1 :> <<a, b>>
ListsAandA == (t1 :> <<a>>) @@ (t2 :> <<a>>)
AllOrA == {TwoStreams, OneStream}
Two == (a :> 2) @@ (b :> 2)
OneSlot == {OneStream}
OneTwo == a :> 2
OneThree == a :> 3
=============================================================================
