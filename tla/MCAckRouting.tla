---------------------------- MODULE MCAckRouting ----------------------------
(* Instances of AckRouting for TLC.                                        *)
EXTENDS AckRouting

CONSTANTS user, heartbeat, edu, move, ear

AllKinds == {edu, move, ear}
EarPercentage == {ear}

\* A user thread that moves the dog and its ears and may exit EDU mode, beside
\* the heartbeat: both send "dog-edu-<n>".
TwoThreads == {user, heartbeat}
TwoThreadsKinds ==
    [t \in TwoThreads |-> IF t = user THEN AllKinds ELSE {edu}]
=============================================================================
