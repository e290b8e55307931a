---------------------------- MODULE MCTensorPool ----------------------------
(* Every backend, two buffers, one reallocation, two buffers in hand at once. *)
EXTENDS TensorPool

CONSTANTS c1, c2

MCBackends == {"Custom", "UDMABUF", "V4L2", "Accelerator", "NvBufSurface"}
MCHolders == {c1, c2}
=============================================================================
