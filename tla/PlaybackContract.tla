--------------------------- MODULE PlaybackContract ---------------------------
(***************************************************************************)
(* What WaveOutput promises to the code that writes chunks to it           *)
(* (src/examples/05_audio/bidirectional_pcm_ws_host.cpp), whatever its     *)
(* worker and the device do.  Chunks start to play in the order in which   *)
(* they arrived, and what has started is not touched until it has been     *)
(* played.  At most Limit + 2 chunks wait; one that arrives when more than *)
(* Limit wait may push out the one that has waited longest, or the next    *)
(* when the longest is about to start.  Once the output is told to stop    *)
(* nothing is taken in and at most one chunk more starts, and when it is   *)
(* closed nothing plays.                                                   *)
(***************************************************************************)
EXTENDS Naturals, Sequences

CONSTANT Limit   \* how many chunks may wait before one is pushed out

VARIABLES
    last,      \* the number of the chunk that arrived last
    waiting,   \* the chunks that have not started, the oldest first
    playing,   \* the chunks that have started, the oldest first
    phase      \* "on"; told to stop with a chunk still to start ("draining") or
               \* without ("stopped"); "closed"

vars == <<last, waiting, playing, phase>>

Init ==
    /\ last = 0
    /\ waiting = <<>>
    /\ playing = <<>>
    /\ phase = "on"

\* A chunk joins those that wait.
Join ==
    /\ Len(waiting) <= Limit + 1
    /\ waiting' = Append(waiting, last')

\* It joins them and the oldest of them is lost.
PushOutOldest ==
    /\ Len(waiting) > Limit
    /\ waiting' = Append(Tail(waiting), last')

\* The oldest is about to start: the second oldest is lost.
PushOutSecond ==
    /\ Len(waiting) > Limit + 1
    /\ waiting' = <<Head(waiting)>> \o Append(Tail(Tail(waiting)), last')

Arrive ==
    /\ last' = last + 1
    /\ IF phase = "on" THEN Join \/ PushOutOldest \/ PushOutSecond ELSE UNCHANGED waiting
    /\ UNCHANGED <<playing, phase>>

\* The oldest that waits starts to play, or the device refuses it and it is lost.
Start ==
    /\ phase \in {"on", "draining"}
    /\ waiting # <<>>
    /\ waiting' = Tail(waiting)
    /\ playing' \in {Append(playing, Head(waiting)), playing}
    /\ phase' = IF phase = "draining" THEN "stopped" ELSE phase
    /\ UNCHANGED last

\* The oldest that plays has been played.
Finish ==
    /\ playing # <<>>
    /\ playing' = Tail(playing)
    /\ UNCHANGED <<last, waiting, phase>>

Stop ==
    /\ phase = "on"
    /\ phase' \in {"draining", "stopped"}
    /\ UNCHANGED <<last, waiting, playing>>

Close ==
    /\ phase = "stopped"
    /\ phase' = "closed"
    /\ playing' = <<>>
    /\ UNCHANGED <<last, waiting>>

Next == Arrive \/ Start \/ Finish \/ Stop \/ Close

Spec == Init /\ [][Next]_vars
=============================================================================
