--------------------------- MODULE MCSidecarFraming ---------------------------
EXTENDS SidecarFraming

MCPools == {[buffers |-> 1, blob |-> 0], [buffers |-> 2, blob |-> BlobLen],
            [buffers |-> 1, blob |-> MaxExt + 1], [buffers |-> MaxFds + 1, blob |-> 0]}
=============================================================================
