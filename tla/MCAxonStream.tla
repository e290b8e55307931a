---------------------------- MODULE MCAxonStream ----------------------------
(* A pool of two buffers and one consumer that comes, drains and            *)
(* re-handshakes.  The producer waits for nobody and consumers share no     *)
(* state: one is as good as many.                                           *)
EXTENDS AxonStream, TLC

CONSTANTS c1

OneConsumer == {c1}
=============================================================================
