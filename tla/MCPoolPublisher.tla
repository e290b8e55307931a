-------------------------- MODULE MCPoolPublisher --------------------------
(* A machine of 6-bit words (3-bit halves) and pages of 4 bytes. *)
EXTENDS PoolPublisher

MCSizes == {0, 1, 7, 62}
MCSurfaces == {7}

Shapes == {<<>>, <<2>>, <<3, 2>>, <<7, 7, 2>>, <<1, 1, 1, 1>>}
MCFrames ==
  [shape : Shapes, dtype : {0, 2}, offset : {0, 2, 63}, size : {0, 4, 62}, pitch : {0, 2, 4}]
MCArrays == [shape : Shapes, itemsize : {1, 2}, dtype : {1, 2}]
=============================================================================
