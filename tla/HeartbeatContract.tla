------------------------- MODULE HeartbeatContract --------------------------
(***************************************************************************)
(* What AiDog promises about the heartbeat of its EDU sessions, whatever   *)
(* its threads do (src/src/aidog.cpp, enter_edu_mode and exit_edu_mode).   *)
(* There is at most one current session, and it has a running heartbeat    *)
(* for as long as it is current.  A session that was given up stops at     *)
(* some later time, is closed only after it stopped, and never comes back. *)
(***************************************************************************)
EXTENDS Naturals

None == 0

VARIABLES
    current,   \* the session AiDog keeps alive, or None
    running,   \* the sessions whose heartbeat thread runs
    closed     \* the sessions whose exit was sent to the robot

vars == <<current, running, closed>>

Init ==
    /\ current = None
    /\ running = {}
    /\ closed = {}

\* A session that is new becomes current and starts to run.
Open ==
    /\ current = None
    /\ current' # None
    /\ current' \notin running \cup closed
    /\ running' = running \cup {current'}
    /\ UNCHANGED closed

\* The current session is given up; its heartbeat may still run.
Release ==
    /\ current # None
    /\ current' = None
    /\ UNCHANGED <<running, closed>>

\* A heartbeat ends, never the current one.
Stop ==
    /\ \E s \in running \ {current} : running' = running \ {s}
    /\ UNCHANGED <<current, closed>>

\* The exit of a session that no longer runs.
Close ==
    /\ closed \subseteq closed'
    /\ \A s \in closed' \ closed : s \notin running /\ s # current
    /\ UNCHANGED <<current, running>>

Next == Open \/ Release \/ Stop \/ Close

Spec == Init /\ [][Next]_vars

\* A session whose exit was sent sends no heartbeat again.
ClosedIsOver == closed \cap running = {}
=============================================================================
