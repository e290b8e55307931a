--------------------------- MODULE MCOffloadStream ---------------------------
(* Every application, two buffers, frames that lap them, one more instance. *)
EXTENDS OffloadStream

MCDepth == [ros1 |-> 2, ros2 |-> 1, image |-> 2, spike |-> 1]
=============================================================================
