---------------------------- MODULE MCEduSession ----------------------------
(* Instances of EduSession for TLC.                                        *)
EXTENDS EduSession

CONSTANTS user, other, host

\* One thread enters; a second one exits and shuts down; a detached thread of
\* the WebSocket host reports that the robot is gone.
OneEntererCallers == {user, other, host}
OneEntererMay ==
    [c \in OneEntererCallers |->
        CASE c = user  -> {"enter", "exit", "shutdown"}
          [] c = other -> {"exit", "shutdown"}
          [] c = host  -> {"robot_gone"}]

\* The user's thread and the detached thread of a robot that connects.
TwoEnterersCallers == {user, host}
TwoEnterersMay == [c \in TwoEnterersCallers |-> {"enter"}]

\* A robot connects, and its detached thread enters EDU mode.
RobotConnectsCallers == {host}
RobotConnectsMay == [c \in RobotConnectsCallers |-> {"enter"}]

\* One thread calls everything, one call at a time.
SequentialCallers == {user}
SequentialMay == [c \in SequentialCallers |-> {"enter", "exit", "shutdown"}]

\* The user exits while the robot's connection enters.
StaleExitCallers == {user, host}
StaleExitMay ==
    [c \in StaleExitCallers |->
        IF c = user THEN {"exit"} ELSE {"enter"}]

HostThreads == {host}
NoThreads == {}

AllOutcomes == Outcome
Reliable == {"ok"}
=============================================================================
