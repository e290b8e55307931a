----------------------------- MODULE MCRealtime -----------------------------
EXTENDS Realtime
CONSTANTS parent, child

MCConfigs == {[lock |-> TRUE, cpu |-> 0, us |-> 0, fifo |-> TRUE],
              [lock |-> FALSE, cpu |-> -1, us |-> 0, fifo |-> FALSE]}
=============================================================================
