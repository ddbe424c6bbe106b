----------------------------- MODULE EduSession -----------------------------
(***************************************************************************)
(* The EDU session of AiDog (src/src/aidog.cpp): enter_edu_mode,           *)
(* exit_edu_mode, shutdown, on_ws_robot_connected/_disconnected and the    *)
(* heartbeat thread, as called by several threads at once: the user's      *)
(* threads and the detached threads of the WebSocket host.                 *)
(*                                                                         *)
(* Abstracted: the lease length and the heartbeat period (a heartbeat      *)
(* thread that sleeps may wake at any time), the JSON of the messages and  *)
(* the ids of the acknowledgements (see AckRouting).  A send is one step:  *)
(* both links deliver in order, so what matters is when the robot gets the *)
(* message and whether the caller sees an error.                           *)
(***************************************************************************)
EXTENDS Integers, FiniteSets, Sequences, Functions

CONSTANTS
    Callers,     \* threads that call into AiDog
    May,         \* May[c]: the operations thread c calls
    Detached,    \* the detached threads of the WebSocket host among them
    Outcomes,    \* what can become of a send
    MaxCalls     \* bound: calls started in one behaviour

Operation == {"enter", "exit", "robot_gone", "shutdown"}

\* The two links send_edu_session knows.
Transport == {"ble", "ws"}

\* "ok": delivered and accepted.  "late": delivered, but the caller gets an
\* exception (no ack within 1.2 s, or the robot refused).  "lost": an
\* exception and nothing delivered.
Outcome == {"ok", "late", "lost"}

ASSUME CallersAssumption ==
    /\ May \in [Callers -> SUBSET Operation]
    /\ Detached \subseteq Callers
    /\ Outcomes \subseteq Outcome
    /\ MaxCalls \in Nat

Nobody == "nobody"      \* eduMutex_ is free
None   == 0             \* no thread; sessions are numbered from 1

ASSUME NobodyAssumption == Nobody \notin Callers

VARIABLES
    eduMutex,        \* the caller that holds eduMutex_, or Nobody
    eduSessionSeq,   \* eduSessionSeq_
    eduTransport,    \* eduTransport_
    eduMaybeActive,  \* eduMaybeActive_
    eduStop,         \* eduStop_
    eduThread,       \* session of the thread eduThread_ holds, or None
    shutdownDone,    \* shutdownDone_
    hb,              \* where each live heartbeat thread is, by its session
    pc, op, arg,     \* each caller: where it is, in which call, for which link
    moved,           \* local "thread" of exit_edu_mode
    sendExit,        \* locals "shouldSendExit" and "transport": the links to
                     \* send an exit to (at most one)
    robotEdu,        \* external: the links over which the robot is in EDU mode
    closed,          \* history: sessions whose exit has been sent
    exitLost,        \* history: links over which an exit got lost
    terminated,      \* std::terminate was called
    calls            \* bound: calls started

eduVars   == <<eduSessionSeq, eduTransport, eduMaybeActive, eduStop, eduThread>>
callVars  == <<pc, op, arg, moved, sendExit>>
robotVars == <<robotEdu, closed, exitLost>>
vars == <<eduMutex, eduVars, shutdownDone, hb, callVars, robotVars, terminated,
          calls>>

CallerPc == {"idle", "exit_lock", "exit_join", "exit_send",
             "enter_lock", "enter_send", "enter_spawn"}
HbPc == {"check", "sleep", "lock", "send"}

Init ==
    /\ eduMutex = Nobody
    /\ eduSessionSeq = 0
    /\ eduTransport = "ble"
    /\ eduMaybeActive = FALSE
    /\ eduStop = FALSE
    /\ eduThread = None
    /\ shutdownDone = FALSE
    /\ hb = [s \in {} |-> "check"]
    /\ pc = [c \in Callers |-> "idle"]
    /\ op = [c \in Callers |-> "exit"]
    /\ arg = [c \in Callers |-> "ble"]
    /\ moved = [c \in Callers |-> None]
    /\ sendExit = [c \in Callers |-> {}]
    /\ robotEdu = {}
    /\ closed = {}
    /\ exitLost = {}
    /\ terminated = FALSE
    /\ calls = 0

-----------------------------------------------------------------------------
(* The calls.  Each one starts with exit_edu_mode, after what the caller   *)
(* tests before.                                                           *)

\* Thread c is at l, in a process that std::terminate has not ended.
At(c, l) == ~terminated /\ pc[c] = l

\* What every call does on entry; f is the operation, t its transport.
Begin(c, f, t) ==
    /\ f \in May[c]
    /\ At(c, "idle")
    /\ calls < MaxCalls
    /\ calls' = calls + 1
    /\ op' = [op EXCEPT ![c] = f]
    /\ arg' = [arg EXCEPT ![c] = t]
    /\ pc' = [pc EXCEPT ![c] = "exit_lock"]
    /\ UNCHANGED <<eduMutex, eduVars, hb, moved, sendExit, robotVars, terminated>>

\* enter_edu_mode, from the user, from connect ("ble") or from
\* on_ws_robot_connected ("ws").
CallEnter(c) ==
    /\ \E t \in Transport : (c \in Detached => t = "ws") /\ Begin(c, "enter", t)
    /\ UNCHANGED shutdownDone

\* exit_edu_mode, from the user or from disconnect.
CallExit(c) ==
    /\ Begin(c, "exit", arg[c])
    /\ UNCHANGED shutdownDone

\* on_ws_robot_disconnected reads eduTransport_ without eduMutex_.
CallRobotGone(c) ==
    /\ eduTransport = "ws"
    /\ Begin(c, "robot_gone", arg[c])
    /\ UNCHANGED shutdownDone

CallShutdown(c) ==
    /\ ~shutdownDone
    /\ shutdownDone' = TRUE
    /\ Begin(c, "shutdown", arg[c])

\* A second shutdown returns at once.
ShutdownAgain(c) ==
    /\ "shutdown" \in May[c]
    /\ At(c, "idle")
    /\ calls < MaxCalls
    /\ shutdownDone
    /\ calls' = calls + 1
    /\ op' = [op EXCEPT ![c] = "shutdown"]
    /\ UNCHANGED <<eduMutex, eduVars, shutdownDone, hb, pc, arg, moved, sendExit,
                   robotVars, terminated>>

-----------------------------------------------------------------------------
(* exit_edu_mode                                                           *)

\* Where a call goes when its exit_edu_mode returns.
AfterExit(c) == IF op[c] = "enter" THEN "enter_lock" ELSE "idle"

\* Mutant: eduThread_ is not moved from, so it still holds the thread.
ExitLockCopies(c) ==
    /\ At(c, "exit_lock")
    /\ eduMutex = Nobody
    /\ sendExit' = [sendExit EXCEPT ![c] = IF eduMaybeActive THEN {eduTransport} ELSE {}]
    /\ eduSessionSeq' = eduSessionSeq + 1
    /\ eduStop' = TRUE
    /\ moved' = [moved EXCEPT ![c] = eduThread]
    /\ eduMaybeActive' = FALSE
    /\ pc' = [pc EXCEPT ![c] = "exit_join"]
    /\ UNCHANGED <<eduMutex, eduTransport, eduThread, shutdownDone, hb, op, arg,
                   robotVars, terminated, calls>>

\* The critical section: end the session, take its thread.
ExitLock(c) ==
    /\ At(c, "exit_lock")
    /\ eduMutex = Nobody
    /\ sendExit' = [sendExit EXCEPT ![c] = IF eduMaybeActive THEN {eduTransport} ELSE {}]
    /\ eduSessionSeq' = eduSessionSeq + 1
    /\ eduStop' = TRUE
    /\ moved' = [moved EXCEPT ![c] = eduThread]
    /\ eduThread' = None
    /\ eduMaybeActive' = FALSE
    /\ pc' = [pc EXCEPT ![c] = "exit_join"]
    /\ UNCHANGED <<eduMutex, eduTransport, shutdownDone, hb, op, arg, robotVars,
                   terminated, calls>>

\* Mutant: the thread is detached instead of joined.
ExitJoinDetaches(c) ==
    /\ At(c, "exit_join")
    /\ pc' = [pc EXCEPT ![c] = IF sendExit[c] = {} THEN AfterExit(c) ELSE "exit_send"]
    /\ UNCHANGED <<eduMutex, eduVars, shutdownDone, hb, op, arg, moved, sendExit,
                   robotVars, terminated, calls>>

\* thread.join() returns when the heartbeat thread has returned.
ExitJoin(c) ==
    /\ At(c, "exit_join")
    /\ moved[c] \notin DOMAIN hb
    /\ pc' = [pc EXCEPT ![c] = IF sendExit[c] = {} THEN AfterExit(c) ELSE "exit_send"]
    /\ UNCHANGED <<eduMutex, eduVars, shutdownDone, hb, op, arg, moved, sendExit,
                   robotVars, terminated, calls>>

\* The exit message; its errors are swallowed.
ExitSend(c) ==
    /\ At(c, "exit_send")
    /\ \E o \in Outcomes :
         IF o = "lost"
         THEN exitLost' = exitLost \cup sendExit[c] /\ UNCHANGED robotEdu
         ELSE robotEdu' = robotEdu \ sendExit[c] /\ UNCHANGED exitLost
    /\ closed' = closed \cup ({moved[c]} \ {None})
    /\ pc' = [pc EXCEPT ![c] = AfterExit(c)]
    /\ UNCHANGED <<eduMutex, eduVars, shutdownDone, hb, op, arg, moved, sendExit,
                   terminated, calls>>

-----------------------------------------------------------------------------
(* enter_edu_mode, after its exit_edu_mode                                 *)

\* Take eduMutex_ and keep it; record the new session.
EnterLock(c) ==
    /\ At(c, "enter_lock")
    /\ eduMutex = Nobody
    /\ eduMutex' = c
    /\ eduSessionSeq' = eduSessionSeq + 1
    /\ eduTransport' = arg[c]
    /\ eduMaybeActive' = TRUE
    /\ pc' = [pc EXCEPT ![c] = "enter_send"]
    /\ UNCHANGED <<eduStop, eduThread, shutdownDone, hb, op, arg, moved, sendExit,
                   robotVars, terminated, calls>>

\* Mutant: a failed enter is taken for one the robot did not get.
EnterSendForgets(c) ==
    /\ At(c, "enter_send")
    /\ \E o \in Outcomes :
         /\ robotEdu' = IF o = "lost" THEN robotEdu ELSE robotEdu \cup {eduTransport}
         /\ eduMaybeActive' = (o = "ok")
         /\ IF o = "ok"
            THEN /\ pc' = [pc EXCEPT ![c] = "enter_spawn"]
                 /\ UNCHANGED <<eduMutex, terminated>>
            ELSE /\ pc' = [pc EXCEPT ![c] = "idle"]
                 /\ eduMutex' = Nobody
                 /\ terminated' = (c \in Detached)
    /\ UNCHANGED <<eduSessionSeq, eduTransport, eduStop, eduThread, shutdownDone, hb, op,
                   arg, moved, sendExit, closed, exitLost, calls>>

\* The enter message, sent with eduMutex_ held.  On an error the exception
\* leaves enter_edu_mode: no thread, and eduMaybeActive_ stays true.  A user's
\* thread can catch it; out of a detached thread, whose lambda has no handler,
\* it calls std::terminate.
EnterSend(c) ==
    /\ At(c, "enter_send")
    /\ \E o \in Outcomes :
         /\ robotEdu' = IF o = "lost" THEN robotEdu ELSE robotEdu \cup {eduTransport}
         /\ IF o = "ok"
            THEN /\ pc' = [pc EXCEPT ![c] = "enter_spawn"]
                 /\ UNCHANGED <<eduMutex, terminated>>
            ELSE /\ pc' = [pc EXCEPT ![c] = "idle"]
                 /\ eduMutex' = Nobody
                 /\ terminated' = (c \in Detached)
    /\ UNCHANGED <<eduVars, shutdownDone, hb, op, arg, moved, sendExit, closed,
                   exitLost, calls>>

\* Mutant: the stop flag of the last session is not reset.
EnterSpawnStopped(c) ==
    /\ At(c, "enter_spawn")
    /\ hb' = [s \in DOMAIN hb \cup {eduSessionSeq} |->
                IF s = eduSessionSeq THEN "check" ELSE hb[s]]
    /\ terminated' = (eduThread # None)
    /\ eduThread' = eduSessionSeq
    /\ eduMutex' = Nobody
    /\ pc' = [pc EXCEPT ![c] = "idle"]
    /\ UNCHANGED <<eduSessionSeq, eduTransport, eduMaybeActive, eduStop, shutdownDone, op,
                   arg, moved, sendExit, robotVars, calls>>

\* eduThread_ = std::thread(...): assigning to a joinable std::thread calls
\* std::terminate.
EnterSpawn(c) ==
    /\ At(c, "enter_spawn")
    /\ eduStop' = FALSE
    /\ hb' = [s \in DOMAIN hb \cup {eduSessionSeq} |->
                IF s = eduSessionSeq THEN "check" ELSE hb[s]]
    /\ terminated' = (eduThread # None)
    /\ eduThread' = eduSessionSeq
    /\ eduMutex' = Nobody
    /\ pc' = [pc EXCEPT ![c] = "idle"]
    /\ UNCHANGED <<eduSessionSeq, eduTransport, eduMaybeActive, shutdownDone, op,
                   arg, moved, sendExit, robotVars, calls>>

-----------------------------------------------------------------------------
(* edu_heartbeat_loop of session s                                         *)

HbAt(s, l) == ~terminated /\ hb[s] = l

HbGoto(s, l) == hb' = [hb EXCEPT ![s] = l]

\* The thread returns: it can be joined.
HbReturn(s) == hb' = Restrict(hb, DOMAIN hb \ {s})

\* while (!eduStop_)
HbCheck(s) ==
    /\ HbAt(s, "check")
    /\ IF eduStop THEN HbReturn(s) ELSE HbGoto(s, "sleep")

\* The test after the sleep.
HbWake(s) ==
    /\ HbAt(s, "sleep")
    /\ IF eduStop THEN HbReturn(s) ELSE HbGoto(s, "lock")

\* Mutant: the loop looks at its stop flag only.
HbLockAnySession(s) ==
    /\ HbAt(s, "lock")
    /\ eduMutex = Nobody
    /\ HbGoto(s, "send")

\* The critical section: is this still the current session?
HbLock(s) ==
    /\ HbAt(s, "lock")
    /\ eduMutex = Nobody
    /\ IF s # eduSessionSeq THEN HbReturn(s) ELSE HbGoto(s, "send")

\* The heartbeat message, outside the lock; its errors are swallowed.  It
\* renews the robot's lease (see LeaseExpires) and changes nothing else.
HbSend(s) ==
    /\ HbAt(s, "send")
    /\ HbGoto(s, "check")

Heartbeat(s) ==
    /\ s \in DOMAIN hb
    /\ HbCheck(s) \/ HbWake(s) \/ HbLock(s) \/ HbSend(s)
    /\ UNCHANGED <<eduMutex, eduVars, shutdownDone, callVars, robotVars, terminated,
                   calls>>

-----------------------------------------------------------------------------
\* External: the robot leaves EDU mode when its lease runs out.  Heartbeats
\* are sent every third of the lease, so a lease runs out only when no thread
\* sends them or when they can be lost.  (A lease lasts a second at least: it
\* does not run out before the thread of a new session has started.)
LeaseExpires(t) ==
    /\ t \in robotEdu
    /\ \/ DOMAIN hb = {} /\ \A c \in Callers : pc[c] # "enter_spawn"
       \/ "lost" \in Outcomes
    /\ robotEdu' = robotEdu \ {t}
    /\ UNCHANGED <<eduMutex, eduVars, shutdownDone, hb, callVars, closed, exitLost,
                   terminated, calls>>

Call(c) ==
    \/ CallEnter(c) \/ CallExit(c) \/ CallRobotGone(c)
    \/ CallShutdown(c) \/ ShutdownAgain(c)

Continue(c) ==
    \/ ExitLock(c) \/ ExitJoin(c) \/ ExitSend(c)
    \/ EnterLock(c) \/ EnterSend(c) \/ EnterSpawn(c)

Next ==
    \/ \E c \in Callers : Call(c) \/ Continue(c)
    \/ \E s \in DOMAIN hb : Heartbeat(s)
    \/ \E t \in Transport : LeaseExpires(t)

Spec == Init /\ [][Next]_vars

\* A started call goes on, and so does a heartbeat thread: the operating
\* system schedules every thread, every send returns (1.2 s at most) and the
\* sleep of the loop is finite.  Nobody has to start a call.
Fairness ==
    /\ \A c \in Callers : WF_vars(Continue(c))
    /\ \A s \in 1..2 * MaxCalls : WF_vars(Heartbeat(s))

FairSpec == Spec /\ Fairness

-----------------------------------------------------------------------------
(* Properties                                                              *)

\* Every variable holds a value of its kind; a caller never keeps more than
\* one link to send an exit to.
TypeOK ==
    /\ eduMutex \in Callers \cup {Nobody}
    /\ eduSessionSeq \in Nat
    /\ eduTransport \in Transport
    /\ eduMaybeActive \in BOOLEAN
    /\ eduStop \in BOOLEAN
    /\ eduThread \in Nat
    /\ shutdownDone \in BOOLEAN
    /\ DOMAIN hb \subseteq Nat /\ hb \in [DOMAIN hb -> HbPc]
    /\ pc \in [Callers -> CallerPc]
    /\ op \in [Callers -> Operation]
    /\ arg \in [Callers -> Transport]
    /\ moved \in [Callers -> Nat]
    /\ sendExit \in [Callers -> SUBSET Transport]
    /\ robotEdu \subseteq Transport
    /\ closed \subseteq Nat
    /\ exitLost \subseteq Transport
    /\ terminated \in BOOLEAN
    /\ calls \in Nat

\* At most one thread calls enter_edu_mode (itself, through connect or through
\* on_ws_robot_connected): what the code needs of its callers and nowhere says.
SingleEnterer ==
    \A c, d \in Callers : "enter" \in May[c] /\ "enter" \in May[d] => c = d

\* The callers that wait in thread.join() for session s.
Joiners(s) == {c \in Callers : pc[c] = "exit_join" /\ moved[c] = s}

\* No enter that can fail runs on a detached thread.
DetachedEntersReliably ==
    Outcomes \subseteq {"ok"} \/ \A c \in Detached : "enter" \notin May[c]

\* The process is never killed, neither by an assignment to a joinable
\* eduThread_ nor by an exception that leaves a detached thread.
NoTerminate == ~terminated

\* Every running heartbeat thread has exactly one owner: eduThread_ or one
\* call of exit_edu_mode that is joining it.  So no thread is joined twice
\* (undefined) and none is leaked.
OneOwner ==
    \A s \in DOMAIN hb :
        /\ eduThread = s \/ Joiners(s) # {}
        /\ eduThread = s => Joiners(s) = {}
        /\ \A c, d \in Joiners(s) : c = d

\* Once the exit of a session has been sent, its heartbeat thread is gone: no
\* heartbeat can renew a session the robot was told to leave.
NoHeartbeatAfterExit == closed \cap DOMAIN hb = {}

\* As long as eduThread_ holds a thread, that thread runs and keeps the current
\* session alive: no stop flag meant for an older session and no newer session
\* number ends it before exit_edu_mode has taken it.
CurrentKeptAlive ==
    eduThread # None =>
        /\ eduThread \in DOMAIN hb
        /\ ~eduStop
        /\ eduMaybeActive
        /\ eduThread = eduSessionSeq

\* The host never forgets a session: if the robot is in EDU mode over a link,
\* eduMaybeActive_ says so, or a call is about to send the exit, or an exit
\* got lost.  So an enter whose answer came too late is still undone by the next
\* exit.
NoForgottenSession ==
    \A t \in robotEdu \ exitLost :
        \/ eduMaybeActive /\ eduTransport = t
        \/ \E c \in Callers : pc[c] \in {"exit_join", "exit_send"} /\ t \in sendExit[c]

\* Every call returns: exit_edu_mode lets go of eduMutex_ before it joins, and
\* a thread whose stop flag was reset by the next enter still leaves its loop.
EveryCallReturns == \A c \in Callers : pc[c] # "idle" ~> pc[c] = "idle"

\* The heartbeat threads, seen from outside: see HeartbeatContract.
Contract == INSTANCE HeartbeatContract
              WITH current <- eduThread, running <- DOMAIN hb

\* Every behaviour of the code is one the contract allows.
ContractSpec == Contract!Spec

-----------------------------------------------------------------------------
(* The inductive invariant behind NoTerminate, OneOwner,                   *)
(* NoHeartbeatAfterExit, CurrentKeptAlive and NoForgottenSession, when     *)
(* SingleEnterer and DetachedEntersReliably hold.                          *)

\* eduMutex_ is held exactly while its owner enters a session.
MutexInv ==
    \A c \in Callers :
        eduMutex = c <=> pc[c] \in {"enter_send", "enter_spawn"}

\* What a caller past the critical section of exit_edu_mode can rely on.
CallerInv ==
    \A c \in Callers :
        /\ pc[c] \in {"enter_lock", "enter_send", "enter_spawn"} => op[c] = "enter"
        /\ op[c] = "enter" /\ pc[c] # "idle" => "enter" \in May[c]
        /\ op[c] = "enter" /\ pc[c] \notin {"idle", "exit_lock"} => eduThread = None
        /\ op[c] = "enter" /\ pc[c] \in {"exit_join", "exit_send", "enter_lock"} =>
             ~eduMaybeActive
        /\ pc[c] \in {"enter_send", "enter_spawn"} => eduMaybeActive
        /\ moved[c] = None \/ moved[c] < eduSessionSeq
        /\ pc[c] = "exit_send" => moved[c] \notin DOMAIN hb

\* Every session that has a thread or was closed got its number from
\* eduSessionSeq_, and the one being entered has neither yet.
SessionInv ==
    /\ DOMAIN hb \subseteq 1..eduSessionSeq
    /\ \A s \in closed : s < eduSessionSeq
    /\ \A c \in Callers :
          pc[c] \in {"enter_send", "enter_spawn"} =>
              eduSessionSeq # None /\ eduSessionSeq \notin DOMAIN hb

IInv ==
    /\ TypeOK
    /\ MutexInv
    /\ CallerInv
    /\ SessionInv
    /\ NoTerminate
    /\ OneOwner
    /\ NoHeartbeatAfterExit
    /\ CurrentKeptAlive
    /\ NoForgottenSession

-----------------------------------------------------------------------------
(* What does not hold (see the README).                                    *)

\* When a call of shutdown returns, no heartbeat thread runs.
ShutdownStopsHeartbeat ==
    [][\A c \in Callers :
          \/ ShutdownAgain(c)
          \/ op[c] = "shutdown" /\ pc[c] # "idle" /\ pc'[c] = "idle"
          => DOMAIN hb' = {}]_vars

\* With messages that are never lost, once no call is in progress and a
\* heartbeat thread keeps the session alive, the robot is in EDU mode.
RobotInSession ==
    (\A c \in Callers : pc[c] = "idle") /\ eduThread # None
        => eduTransport \in robotEdu
=============================================================================
