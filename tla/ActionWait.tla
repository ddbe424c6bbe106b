----------------------------- MODULE ActionWait -----------------------------
(***************************************************************************)
(* AiDog::perform_action and wait_interaction_ready against the            *)
(* interaction_task_status reports of the robot (src/src/aidog.cpp).  The  *)
(* caller's thread sleeps on stateCv_ and samples the last status when it  *)
(* wakes; the notify thread overwrites that status with every report.      *)
(*                                                                         *)
(* Abstracted: the clock (a wait may end or time out at any time), the     *)
(* action's parameter and link.  The robot is external: it starts an       *)
(* action late or never, finishes it, kills it, repeats its status at any  *)
(* time, and a report can be lost.                                         *)
(***************************************************************************)
EXTENDS Integers, Sequences

CONSTANTS
    Callers,      \* threads that call perform_action
    MaxActions,   \* bound: actions sent in one behaviour
    MaxReports    \* bound: status reports of the robot

ASSUME ActionAssumption == MaxActions \in Nat /\ MaxReports \in Nat

\* interaction_task_status
Idle     == 0
Running  == 1
Killed   == 2
NoStatus == -1     \* lastInteractionTaskStatus_ is empty

VARIABLES
    lastInteractionTaskStatus,   \* the last status dispatched
    interactionStatusNotifySeq,  \* how many statuses were dispatched
    pc,           \* where each caller is
    require,      \* options.requireRunningState of the call
    startSeq,     \* local "startStatusSeq"
    seenRunning, started,        \* locals of the same names
    result,       \* how the last call ended
    act,          \* history: number of the caller's action
    pending,      \* external: actions the robot received and did not start
    task,         \* external: the action the robot performs, or 0
    over,         \* external: actions that ended, finished or killed
    channel,      \* external: the reports on their way, oldest first
    gaveUp,       \* history: some call may have stopped listening too early
    actions, reports             \* bounds: actions sent, reports made

stateVars  == <<lastInteractionTaskStatus, interactionStatusNotifySeq>>
callerVars == <<pc, require, startSeq, seenRunning, started, result, act>>
robotVars  == <<pending, task, over, channel, reports>>
vars == <<stateVars, callerVars, robotVars, gaveUp, actions>>

CallerPc == {"idle", "wait_idle", "capture", "send", "wait_done", "wait_ready"}
Result == {"none", "true", "false", "threw"}

Init ==
    /\ lastInteractionTaskStatus = NoStatus
    /\ interactionStatusNotifySeq = 0
    /\ pc = [c \in Callers |-> "idle"]
    /\ require = [c \in Callers |-> TRUE]
    /\ startSeq = [c \in Callers |-> 0]
    /\ seenRunning = [c \in Callers |-> FALSE]
    /\ started = [c \in Callers |-> FALSE]
    /\ result = [c \in Callers |-> "none"]
    /\ act = [c \in Callers |-> 0]
    /\ pending = {}
    /\ task = 0
    /\ over = {}
    /\ channel = <<>>
    /\ reports = 0
    /\ gaveUp = FALSE
    /\ actions = 0

-----------------------------------------------------------------------------
(* perform_action                                                          *)

Perform(c) ==
    /\ pc[c] = "idle"
    /\ actions < MaxActions
    /\ actions' = actions + 1
    /\ act' = [act EXCEPT ![c] = actions + 1]
    /\ \E r \in BOOLEAN : require' = [require EXCEPT ![c] = r]
    /\ result' = [result EXCEPT ![c] = "none"]
    /\ pc' = [pc EXCEPT ![c] = "wait_idle"]
    /\ UNCHANGED <<stateVars, startSeq, seenRunning, started, robotVars, gaveUp>>

\* Mutant: only a running action is waited for.
WaitIdleUnlessRunning(c) ==
    /\ pc[c] = "wait_idle"
    /\ \/ lastInteractionTaskStatus # Running /\ UNCHANGED gaveUp
       \/ gaveUp' = TRUE
    /\ pc' = [pc EXCEPT ![c] = "capture"]
    /\ UNCHANGED <<stateVars, require, startSeq, seenRunning, started, result, act,
                   robotVars, actions>>

\* wait_until_interaction_idle(6.0): its result is dropped, so the call goes
\* on after a timeout too.
WaitIdle(c) ==
    /\ pc[c] = "wait_idle"
    /\ \/ lastInteractionTaskStatus \in {NoStatus, Idle} /\ UNCHANGED gaveUp
       \/ gaveUp' = TRUE
    /\ pc' = [pc EXCEPT ![c] = "capture"]
    /\ UNCHANGED <<stateVars, require, startSeq, seenRunning, started, result, act,
                   robotVars, actions>>

\* The notify number is read before the action is sent.
Capture(c) ==
    /\ pc[c] = "capture"
    /\ startSeq' = [startSeq EXCEPT ![c] = interactionStatusNotifySeq]
    /\ pc' = [pc EXCEPT ![c] = "send"]
    /\ UNCHANGED <<stateVars, require, seenRunning, started, result, act,
                   robotVars, gaveUp, actions>>

\* send_interaction returns, or throws out of perform_action.
Send(c) ==
    /\ pc[c] = "send"
    /\ pending' = pending \cup {act[c]}
    /\ seenRunning' = [seenRunning EXCEPT ![c] = FALSE]
    /\ started' = [started EXCEPT ![c] = FALSE]
    /\ pc' = [pc EXCEPT ![c] = "wait_done"]
    /\ UNCHANGED <<stateVars, require, startSeq, result, act, task, over,
                   channel, reports, gaveUp, actions>>

\* The robot may or may not have received the action.
SendThrows(c) ==
    /\ pc[c] = "send"
    /\ pending' \in {pending, pending \cup {act[c]}}
    /\ result' = [result EXCEPT ![c] = "threw"]
    /\ gaveUp' = TRUE
    /\ pc' = [pc EXCEPT ![c] = "idle"]
    /\ UNCHANGED <<stateVars, require, startSeq, seenRunning, started, act,
                   task, over, channel, reports, actions>>

\* Mutant: the running state is not required even if the options ask for it.
SampleAnyIdle(c) ==
    LET status == lastInteractionTaskStatus
        done   == status = Idle /\ interactionStatusNotifySeq > startSeq[c]
    IN /\ pc[c] = "wait_done"
       /\ IF done \/ status = Killed
          THEN /\ result' = [result EXCEPT ![c] = IF done THEN "true" ELSE "false"]
               /\ pc' = [pc EXCEPT ![c] = "idle"]
               /\ gaveUp' = (gaveUp \/ ~require[c] \/ act[c] \notin over)
          ELSE UNCHANGED <<result, pc, gaveUp>>
       /\ UNCHANGED <<stateVars, require, startSeq, seenRunning, started, act,
                      robotVars, actions>>

\* One turn of the loop: wait_for ended, by a report, by its 200 ms or
\* spuriously, and the last status is sampled.
Sample(c) ==
    LET status      == lastInteractionTaskStatus
        tickChanged == interactionStatusNotifySeq > startSeq[c]
        seen        == seenRunning[c] \/ status = Running
        begun       == started[c] \/ status \notin {NoStatus, Idle}
        done        == status = Idle /\ tickChanged
                         /\ (~require[c] \/ seen \/ begun)
    IN /\ pc[c] = "wait_done"
       /\ seenRunning' = [seenRunning EXCEPT ![c] = seen]
       /\ started' = [started EXCEPT ![c] = begun]
       /\ IF done \/ status = Killed
          THEN /\ result' = [result EXCEPT ![c] = IF done THEN "true" ELSE "false"]
               /\ pc' = [pc EXCEPT ![c] = "idle"]
               /\ gaveUp' = (gaveUp \/ ~require[c] \/ act[c] \notin over)
          ELSE UNCHANGED <<result, pc, gaveUp>>
       /\ UNCHANGED <<stateVars, require, startSeq, act, robotVars, actions>>

\* Mutant: the deadline counts from the first running state.
DeadlineOnceStarted(c) ==
    /\ pc[c] = "wait_done"
    /\ started[c]
    /\ result' = [result EXCEPT ![c] = "false"]
    /\ pc' = [pc EXCEPT ![c] = "idle"]
    /\ gaveUp' = TRUE
    /\ UNCHANGED <<stateVars, require, startSeq, seenRunning, started, act,
                   robotVars, actions>>

Deadline(c) ==
    /\ pc[c] = "wait_done"
    /\ result' = [result EXCEPT ![c] = "false"]
    /\ pc' = [pc EXCEPT ![c] = "idle"]
    /\ gaveUp' = TRUE
    /\ UNCHANGED <<stateVars, require, startSeq, seenRunning, started, act,
                   robotVars, actions>>

-----------------------------------------------------------------------------
\* wait_interaction_ready: some status was reported and the last one is idle;
\* looked at once more after the deadline.
Ready == interactionStatusNotifySeq > 0 /\ lastInteractionTaskStatus = Idle

CallWaitReady(c) ==
    /\ pc[c] = "idle"
    /\ pc' = [pc EXCEPT ![c] = "wait_ready"]
    /\ result' = [result EXCEPT ![c] = "none"]
    /\ UNCHANGED <<stateVars, require, startSeq, seenRunning, started, act,
                   robotVars, gaveUp, actions>>

WaitReadyReturns(c) ==
    /\ pc[c] = "wait_ready"
    /\ pc' = [pc EXCEPT ![c] = "idle"]
    /\ result' = [result EXCEPT ![c] = IF Ready THEN "true" ELSE "false"]
    /\ UNCHANGED <<stateVars, require, startSeq, seenRunning, started, act,
                   robotVars, gaveUp, actions>>

-----------------------------------------------------------------------------
\* dispatch_parsed_notify of a report that carries a status.
Dispatch ==
    /\ channel # <<>>
    /\ lastInteractionTaskStatus' = Head(channel)
    /\ interactionStatusNotifySeq' = interactionStatusNotifySeq + 1
    /\ channel' = Tail(channel)
    /\ UNCHANGED <<callerVars, pending, task, over, reports, gaveUp, actions>>

(* The robot (external).                                                   *)

Report(s) ==
    /\ reports < MaxReports
    /\ reports' = reports + 1
    /\ channel' = Append(channel, s)

RobotStarts(a) ==
    /\ task = 0
    /\ task' = a
    /\ pending' = pending \ {a}
    /\ Report(Running)
    /\ UNCHANGED <<stateVars, callerVars, over, gaveUp, actions>>

RobotIgnores(a) ==
    /\ pending' = pending \ {a}
    /\ UNCHANGED <<stateVars, callerVars, task, over, channel, reports, gaveUp, actions>>

RobotEnds ==
    /\ task # 0
    /\ task' = 0
    /\ over' = over \cup {task}
    /\ \E s \in {Idle, Killed} : Report(s)
    /\ UNCHANGED <<stateVars, callerVars, pending, gaveUp, actions>>

RobotRepeats ==
    /\ Report(IF task = 0 THEN Idle ELSE Running)
    /\ UNCHANGED <<stateVars, callerVars, pending, task, over, gaveUp, actions>>

ReportLost ==
    /\ channel # <<>>
    /\ channel' = Tail(channel)
    /\ UNCHANGED <<stateVars, callerVars, pending, task, over, reports, gaveUp, actions>>

Step(c) ==
    \/ WaitIdle(c) \/ Capture(c) \/ Send(c) \/ SendThrows(c)
    \/ Sample(c) \/ Deadline(c) \/ WaitReadyReturns(c)

Next ==
    \/ \E c \in Callers : Perform(c) \/ CallWaitReady(c) \/ Step(c)
    \/ Dispatch
    \/ \E a \in pending : RobotStarts(a) \/ RobotIgnores(a)
    \/ RobotEnds \/ RobotRepeats \/ ReportLost

\* A caller's thread is scheduled, its sends return, and its deadlines come:
\* sampling for ever is not going on.
Fairness ==
    \A c \in Callers :
        /\ WF_vars(WaitIdle(c) \/ Capture(c) \/ Send(c) \/ WaitReadyReturns(c))
        /\ WF_vars(Deadline(c))

Spec == Init /\ [][Next]_vars /\ Fairness

-----------------------------------------------------------------------------
(* Properties                                                              *)

Status == {NoStatus, Idle, Running, Killed}

\* Every variable holds a value of its kind.
TypeOK ==
    /\ lastInteractionTaskStatus \in Status
    /\ interactionStatusNotifySeq \in Nat
    /\ pc \in [Callers -> CallerPc]
    /\ require \in [Callers -> BOOLEAN]
    /\ startSeq \in [Callers -> Nat]
    /\ seenRunning \in [Callers -> BOOLEAN]
    /\ started \in [Callers -> BOOLEAN]
    /\ result \in [Callers -> Result]
    /\ act \in [Callers -> Nat]
    /\ pending \subseteq Nat
    /\ task \in Nat
    /\ over \subseteq Nat
    /\ channel \in Seq(Status)
    /\ gaveUp \in BOOLEAN
    /\ actions \in Nat
    /\ reports \in Nat

Returned(c) == pc[c] = "wait_done" /\ pc'[c] = "idle"

\* When perform_action returns true with requireRunningState, the robot is
\* done with that very action: repeated or late reports of idle never pass for
\* its end, whatever is lost.  For one caller, as long as no call was left
\* before the robot's last report of its action (by a timeout, an exception, or
\* because it did not ask for the running state): late reports of that action
\* could be taken for this one's.
TrueMeansOver ==
    [][\A c \in Callers :
          Returned(c) /\ result'[c] = "true" /\ require[c] /\ ~gaveUp
              => act[c] \in over]_vars

\* A killed status that ends a call is that of its own action.  The code compares
\* no notify number there (aidog.cpp 152): it relies on the wait before, which
\* lets no call begin upon the killed status of an earlier action, and on the
\* order of the reports.  With the same condition: once that wait timed out, the
\* new action is sent upon the old status, which ends the call at once.
KilledIsOwn ==
    [][\A c \in Callers :
          Returned(c) /\ lastInteractionTaskStatus = Killed /\ ~gaveUp
              => act[c] \in over]_vars

\* Every call returns, whether the robot reports anything or not.
EveryCallReturns == \A c \in Callers : pc[c] # "idle" ~> pc[c] = "idle"
=============================================================================
