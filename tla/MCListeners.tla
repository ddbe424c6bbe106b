----------------------------- MODULE MCListeners -----------------------------
(* Instances of Listeners for TLC.                                         *)
EXTENDS Listeners, TLC

CONSTANTS notify, io

\* A thread of the BLE handlers and the io thread of the WebSocket host.
TwoDispatchers == {notify, io}
Interchangeable == Permutations(TwoDispatchers)
=============================================================================
