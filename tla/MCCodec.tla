------------------------------ MODULE MCCodec ------------------------------
(* Boundary values on both sides of every clamp and threshold of the code.  *)
EXTENDS Codec

MCNumbers == {-1, 0, 1, 2, 90, 255, 256, 360, 361, 65535, 65536}
MCTimeouts == {0, 20}
MCIds == -1 .. 330
MCDurations == {-1, 0, 999, 1000, 65535, 70000}
MCAngles == {-2100000, -180000, 179500, 0, 180001, 181000, 500500, 1000000}
MCWholes == {-5, -1, 0, 2, 4, 8}
MCAddresses == {0, 9, 10, 255, 256, 4096, 4660, 6425, 39321, 43707, 65535}
MCOffsets == -30 .. 30
=============================================================================
