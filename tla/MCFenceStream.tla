---------------------------- MODULE MCFenceStream ---------------------------
(* Consumers of a publisher of fence-gated frames. *)
EXTENDS FenceStream, TLC

CONSTANTS c1, c2

OneConsumer == {c1}
TwoConsumers == {c1, c2}
=============================================================================
