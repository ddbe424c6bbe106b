----------------------------- MODULE MCPcmStream -----------------------------
(* Instances of PcmStream for TLC.                                         *)
EXTENDS PcmStream

CONSTANTS in1, in2, none

\* Two buffers each way: one can be in use while the other waits.
TwoPlayback == {0, 1}
TwoCapture == {in1, in2}
=============================================================================
