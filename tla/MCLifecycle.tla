----------------------------- MODULE MCLifecycle -----------------------------
(* Two publishers of one service, the second at any moment of the first. *)
EXTENDS Lifecycle
=============================================================================
