------------------------------ MODULE MCBleLink ------------------------------
(* Instances of BleLink for TLC.                                           *)
EXTENDS BleLink

CONSTANTS user, other, null

\* The thread that uses the dog and one that may interfere.
TwoCallers == {user, other}

\* Once a connect overlaps another call the properties claim nothing more, and
\* overlapped never falls: nothing is lost by not going on.
WhileApart == ~overlapped
=============================================================================
