-------------------------- MODULE EduSession_proofs --------------------------
(***************************************************************************)
(* Proofs about EduSession: for every set of callers, every choice of      *)
(* operations and outcomes, and every bound.  Everything but the type      *)
(* invariant assumes SingleEnterer and DetachedEntersReliably.             *)
(***************************************************************************)
EXTENDS EduSession, TLAPS

\* The domain and the values of the heartbeat map after a thread returns.
LEMMA HbReturnFacts ==
    ASSUME NEW s, DOMAIN hb \subseteq Nat, hb \in [DOMAIN hb -> HbPc], HbReturn(s)
    PROVE  /\ DOMAIN hb' = DOMAIN hb \ {s}
           /\ hb' \in [DOMAIN hb' -> HbPc]
BY DEF HbReturn, Restrict

\* A heartbeat thread that moves on stays in the map.
LEMMA HbGotoFacts ==
    ASSUME NEW s \in DOMAIN hb, NEW l \in HbPc,
           hb \in [DOMAIN hb -> HbPc], HbGoto(s, l)
    PROVE  /\ DOMAIN hb' = DOMAIN hb
           /\ hb' \in [DOMAIN hb' -> HbPc]
BY DEF HbGoto

\* A heartbeat thread is created under a session number.
LEMMA HbSpawnFacts ==
    ASSUME NEW n \in Nat, DOMAIN hb \subseteq Nat, hb \in [DOMAIN hb -> HbPc],
           hb' = [s \in DOMAIN hb \cup {n} |-> IF s = n THEN "check" ELSE hb[s]]
    PROVE  /\ DOMAIN hb' = DOMAIN hb \cup {n}
           /\ hb' \in [DOMAIN hb' -> HbPc]
BY DEF HbPc

\* What a step of a heartbeat thread does, whichever it is: it stays, or it
\* returns because it saw the stop flag or a newer session.
LEMMA HeartbeatStep ==
    ASSUME TypeOK, NEW s \in DOMAIN hb, Heartbeat(s)
    PROVE  /\ hb' \in [DOMAIN hb' -> HbPc]
           /\ \/ DOMAIN hb' = DOMAIN hb
              \/ /\ DOMAIN hb' = DOMAIN hb \ {s}
                 /\ eduStop \/ s # eduSessionSeq
<1> USE DEF TypeOK
<1>1. CASE HbCheck(s)
  <2>1. CASE eduStop
    BY <1>1, <2>1, HbReturnFacts DEF HbCheck
  <2>2. CASE ~eduStop
    <3>1. HbGoto(s, "sleep")
      BY <1>1, <2>2 DEF HbCheck
    <3>2. QED
      BY <3>1, HbGotoFacts DEF HbPc
  <2>3. QED BY <2>1, <2>2
<1>2. CASE HbWake(s)
  <2>1. CASE eduStop
    BY <1>2, <2>1, HbReturnFacts DEF HbWake
  <2>2. CASE ~eduStop
    <3>1. HbGoto(s, "lock")
      BY <1>2, <2>2 DEF HbWake
    <3>2. QED
      BY <3>1, HbGotoFacts DEF HbPc
  <2>3. QED BY <2>1, <2>2
<1>3. CASE HbLock(s)
  <2>1. CASE s # eduSessionSeq
    BY <1>3, <2>1, HbReturnFacts DEF HbLock
  <2>2. CASE s = eduSessionSeq
    <3>1. HbGoto(s, "send")
      BY <1>3, <2>2 DEF HbLock
    <3>2. QED
      BY <3>1, HbGotoFacts DEF HbPc
  <2>3. QED BY <2>1, <2>2
<1>4. CASE HbSend(s)
  <2>1. HbGoto(s, "check")
    BY <1>4 DEF HbSend
  <2>2. QED
    BY <2>1, HbGotoFacts DEF HbPc
<1>5. QED
  BY <1>1, <1>2, <1>3, <1>4 DEF Heartbeat

-----------------------------------------------------------------------------
\* Every step keeps every variable in its type.
LEMMA TypeStep ==
    ASSUME TypeOK, [Next]_vars
    PROVE  TypeOK'
<1> USE CallersAssumption, NobodyAssumption
    DEF TypeOK, callVars, eduVars, robotVars, CallerPc, Operation, Transport, At
<1>1. ASSUME NEW c \in Callers, CallEnter(c) PROVE TypeOK'
  BY <1>1 DEF CallEnter, Begin
<1>2. ASSUME NEW c \in Callers, CallExit(c) PROVE TypeOK'
  BY <1>2 DEF CallExit, Begin
<1>3. ASSUME NEW c \in Callers, CallRobotGone(c) PROVE TypeOK'
  BY <1>3 DEF CallRobotGone, Begin
<1>4. ASSUME NEW c \in Callers, CallShutdown(c) PROVE TypeOK'
  BY <1>4 DEF CallShutdown, Begin
<1>5. ASSUME NEW c \in Callers, ShutdownAgain(c) PROVE TypeOK'
  BY <1>5 DEF ShutdownAgain
<1>6. ASSUME NEW c \in Callers, ExitLock(c) PROVE TypeOK'
  <2>1. sendExit' \in [Callers -> SUBSET Transport]
    BY <1>6 DEF ExitLock
  <2>2. moved' \in [Callers -> Nat] /\ pc' \in [Callers -> CallerPc]
    BY <1>6 DEF ExitLock
  <2>3. eduSessionSeq' \in Nat /\ eduThread' \in Nat
    BY <1>6 DEF ExitLock, None
  <2>4. QED
    BY <1>6, <2>1, <2>2, <2>3 DEF ExitLock
<1>7. ASSUME NEW c \in Callers, ExitJoin(c) PROVE TypeOK'
  BY <1>7 DEF ExitJoin, AfterExit
<1>8. ASSUME NEW c \in Callers, ExitSend(c) PROVE TypeOK'
  BY <1>8 DEF ExitSend, AfterExit
<1>9. ASSUME NEW c \in Callers, EnterLock(c) PROVE TypeOK'
  BY <1>9 DEF EnterLock
<1>10. ASSUME NEW c \in Callers, EnterSend(c) PROVE TypeOK'
  <2>1. pc' \in [Callers -> CallerPc]
    BY <1>10 DEF EnterSend
  <2>2. eduMutex' \in Callers \cup {Nobody}
    BY <1>10 DEF EnterSend
  <2>3. terminated' \in BOOLEAN
    <3>1. \/ UNCHANGED terminated
          \/ terminated' = (c \in Detached)
      BY <1>10 DEF EnterSend
    <3>2. (c \in Detached) \in BOOLEAN
      OBVIOUS
    <3>3. QED
      BY <3>1, <3>2
  <2>4. robotEdu' \subseteq Transport
    BY <1>10 DEF EnterSend
  <2>5. QED
    BY <1>10, <2>1, <2>2, <2>3, <2>4 DEF EnterSend
<1>11. ASSUME NEW c \in Callers, EnterSpawn(c) PROVE TypeOK'
  <2>1. /\ DOMAIN hb' = DOMAIN hb \cup {eduSessionSeq}
        /\ hb' \in [DOMAIN hb' -> HbPc]
    BY <1>11, HbSpawnFacts DEF EnterSpawn
  <2>2. QED
    BY <1>11, <2>1 DEF EnterSpawn
<1>12. ASSUME NEW s \in DOMAIN hb, Heartbeat(s) PROVE TypeOK'
  <2>1. DOMAIN hb' \subseteq Nat /\ hb' \in [DOMAIN hb' -> HbPc]
    BY <1>12, HeartbeatStep
  <2>2. QED
    BY <1>12, <2>1 DEF Heartbeat
<1>13. ASSUME NEW t \in Transport, LeaseExpires(t) PROVE TypeOK'
  BY <1>13 DEF LeaseExpires
<1>14. CASE UNCHANGED vars
  BY <1>14 DEF vars
<1>15. QED
  BY <1>1, <1>2, <1>3, <1>4, <1>5, <1>6, <1>7, <1>8, <1>9, <1>10, <1>11, <1>12,
     <1>13, <1>14 DEF Next, Call, Continue

\* The initial values are of their types.
LEMMA InitType == Init => TypeOK
<1> SUFFICES ASSUME Init PROVE TypeOK
  OBVIOUS
<1>1. DOMAIN hb = {} /\ hb \in [DOMAIN hb -> HbPc]
  BY DEF Init
<1>2. /\ pc \in [Callers -> CallerPc] /\ op \in [Callers -> Operation]
      /\ arg \in [Callers -> Transport] /\ moved \in [Callers -> Nat]
      /\ sendExit \in [Callers -> SUBSET Transport]
  BY DEF Init, CallerPc, Operation, Transport, None
<1>3. QED
  BY <1>1, <1>2 DEF Init, TypeOK, Transport, None

\* Type correctness of the session's state, in the host and in the robot.
THEOREM TypeCorrect == Spec => []TypeOK
<1>1. Init => TypeOK
  BY InitType
<1>2. TypeOK /\ [Next]_vars => TypeOK'
  BY TypeStep
<1>3. QED
  BY <1>1, <1>2, PTL DEF Spec

-----------------------------------------------------------------------------
\* The start of a call changes no more than where the caller is.
LEMMA BeginStep ==
    ASSUME IInv, NEW c \in Callers, NEW f \in Operation, NEW t \in Transport,
           Begin(c, f, t), TypeOK'
    PROVE  IInv'
<1> USE DEF IInv, TypeOK, Begin, At, eduVars, robotVars
<1>1. MutexInv'
  BY NobodyAssumption DEF MutexInv
<1>2. CallerInv'
  BY DEF CallerInv
<1>3. SessionInv'
  BY DEF SessionInv
<1>4. OneOwner'
  <2>1. \A s : Joiners(s)' = Joiners(s)
    BY DEF Joiners
  <2>2. QED
    BY <2>1 DEF OneOwner
<1>5. QED
  BY <1>1, <1>2, <1>3, <1>4
  DEF NoTerminate, NoHeartbeatAfterExit, CurrentKeptAlive, NoForgottenSession

\* The critical section of exit_edu_mode: the thread changes its owner.
LEMMA ExitLockStep ==
    ASSUME IInv, NEW c \in Callers, ExitLock(c), TypeOK'
    PROVE  IInv'
<1> USE DEF IInv, TypeOK, ExitLock, At, robotVars
<1>1. MutexInv'
  BY NobodyAssumption DEF MutexInv
<1>2. CallerInv'
  BY NobodyAssumption DEF CallerInv, MutexInv, CurrentKeptAlive, None
<1>3. SessionInv'
  BY NobodyAssumption DEF SessionInv, MutexInv
<1>4. OneOwner'
  <2>1. \A s : Joiners(s)' = IF s = eduThread THEN Joiners(s) \cup {c} ELSE Joiners(s)
    BY DEF Joiners
  <2>2. \A s \in DOMAIN hb : s # None
    BY DEF SessionInv, None
  <2>3. QED
    BY <2>1, <2>2 DEF OneOwner
<1>5. NoForgottenSession'
  <2>1. ASSUME NEW t \in robotEdu' \ exitLost', eduMaybeActive, eduTransport = t
        PROVE  pc'[c] = "exit_join" /\ t \in sendExit'[c]
    BY <2>1
  <2>2. ASSUME NEW t \in robotEdu' \ exitLost', NEW d \in Callers,
               pc[d] \in {"exit_join", "exit_send"} /\ t \in sendExit[d]
        PROVE  pc'[d] \in {"exit_join", "exit_send"} /\ t \in sendExit'[d]
    BY <2>2
  <2>3. QED
    BY <2>1, <2>2 DEF NoForgottenSession
<1>6. QED
  BY <1>1, <1>2, <1>3, <1>4, <1>5 DEF NoTerminate, NoHeartbeatAfterExit, CurrentKeptAlive

\* The join returns: the thread it waited for is gone.
LEMMA ExitJoinStep ==
    ASSUME IInv, NEW c \in Callers, ExitJoin(c), TypeOK'
    PROVE  IInv'
<1> USE DEF IInv, TypeOK, ExitJoin, At, AfterExit, eduVars, robotVars
<1>1. MutexInv'
  BY NobodyAssumption DEF MutexInv
<1>2. CallerInv'
  BY DEF CallerInv
<1>3. SessionInv'
  BY DEF SessionInv
<1>4. OneOwner'
  <2>1. \A s \in DOMAIN hb : Joiners(s)' = Joiners(s)
    BY DEF Joiners
  <2>2. QED
    BY <2>1 DEF OneOwner
<1>5. NoForgottenSession'
  BY DEF NoForgottenSession
<1>6. QED
  BY <1>1, <1>2, <1>3, <1>4, <1>5 DEF NoTerminate, NoHeartbeatAfterExit, CurrentKeptAlive

\* The exit message closes a session that has no thread.
LEMMA ExitSendStep ==
    ASSUME IInv, NEW c \in Callers, ExitSend(c), TypeOK'
    PROVE  IInv'
<1> USE DEF IInv, TypeOK, ExitSend, At, AfterExit, eduVars
<1>1. MutexInv'
  BY NobodyAssumption DEF MutexInv
<1>2. CallerInv'
  BY DEF CallerInv
<1>3. SessionInv'
  BY DEF SessionInv, CallerInv
<1>4. OneOwner'
  <2>1. \A s : Joiners(s)' = Joiners(s)
    BY DEF Joiners
  <2>2. QED
    BY <2>1 DEF OneOwner
<1>5. NoHeartbeatAfterExit'
  BY DEF NoHeartbeatAfterExit, CallerInv
<1>6. NoForgottenSession'
  BY DEF NoForgottenSession
<1>7. QED
  BY <1>1, <1>2, <1>3, <1>4, <1>5, <1>6 DEF NoTerminate, CurrentKeptAlive

\* A new session number, with the mutex held.
LEMMA EnterLockStep ==
    ASSUME SingleEnterer, IInv, NEW c \in Callers, EnterLock(c), TypeOK'
    PROVE  IInv'
<1> USE DEF IInv, TypeOK, EnterLock, At, robotVars
<1>1. MutexInv'
  BY NobodyAssumption DEF MutexInv
<1>2. CallerInv'
  <2>1. \A d \in Callers : d # c => ~(op[d] = "enter" /\ pc[d] # "idle")
    BY DEF CallerInv, SingleEnterer
  <2>2. \A d \in Callers : d # c => pc'[d] = pc[d] /\ op'[d] = op[d]
    OBVIOUS
  <2>3. pc'[c] = "enter_send" /\ op'[c] = "enter" /\ eduThread' = None
    BY DEF CallerInv
  <2>4. QED
    BY <2>1, <2>2, <2>3 DEF CallerInv
<1>3. SessionInv'
  <2>1. eduSessionSeq' # None /\ eduSessionSeq' \notin DOMAIN hb
    BY DEF SessionInv, None
  <2>2. DOMAIN hb \subseteq 1..eduSessionSeq' /\ \A s \in closed : s < eduSessionSeq'
    BY DEF SessionInv
  <2>3. QED
    BY <2>1, <2>2 DEF SessionInv
<1>4. OneOwner'
  <2>1. \A s : Joiners(s)' = Joiners(s)
    BY DEF Joiners
  <2>2. QED
    BY <2>1 DEF OneOwner
<1>5. CurrentKeptAlive'
  BY DEF CurrentKeptAlive, CallerInv
<1>6. NoForgottenSession'
  BY DEF NoForgottenSession, CallerInv
<1>7. QED
  BY <1>1, <1>2, <1>3, <1>4, <1>5, <1>6 DEF NoTerminate, NoHeartbeatAfterExit

\* The enter message changes only the robot and where the caller is.
LEMMA EnterSendStep ==
    ASSUME DetachedEntersReliably, IInv, NEW c \in Callers, EnterSend(c), TypeOK'
    PROVE  IInv'
<1> USE DEF IInv, TypeOK, EnterSend, At, eduVars
<1>1. MutexInv'
  BY NobodyAssumption DEF MutexInv
<1>2. CallerInv'
  BY DEF CallerInv
<1>3. SessionInv'
  BY DEF SessionInv
<1>4. OneOwner'
  <2>1. \A s : Joiners(s)' = Joiners(s)
    BY DEF Joiners
  <2>2. QED
    BY <2>1 DEF OneOwner
<1>5. NoForgottenSession'
  BY DEF NoForgottenSession, CallerInv
<1>6. NoTerminate'
  BY DEF NoTerminate, DetachedEntersReliably, CallerInv
<1>7. QED
  BY <1>1, <1>2, <1>3, <1>4, <1>5, <1>6 DEF NoHeartbeatAfterExit, CurrentKeptAlive

\* A new thread, owned by eduThread_, which was empty.
LEMMA EnterSpawnStep ==
    ASSUME SingleEnterer, IInv, NEW c \in Callers, EnterSpawn(c), TypeOK'
    PROVE  IInv'
<1> USE DEF IInv, TypeOK, EnterSpawn, At, robotVars
<1>1. DOMAIN hb' = DOMAIN hb \cup {eduSessionSeq}
  BY HbSpawnFacts
<1>2. eduThread = None /\ eduMaybeActive /\ eduSessionSeq \notin DOMAIN hb
  BY DEF CallerInv, SessionInv
<1>3. MutexInv'
  BY NobodyAssumption DEF MutexInv
<1>4. eduSessionSeq # None
  BY DEF SessionInv
<1>5. CallerInv'
  <2>1. \A d \in Callers : d # c => ~(op[d] = "enter" /\ pc[d] # "idle")
    BY DEF CallerInv, SingleEnterer
  <2>2. \A d \in Callers : d # c => pc[d] \notin {"enter_lock", "enter_send", "enter_spawn"}
    BY <2>1 DEF CallerInv
  <2>3. ASSUME NEW d \in Callers, d # c PROVE pc'[d] = pc[d] /\ op'[d] = op[d]
    BY <2>3
  <2>4. pc'[c] = "idle"
    OBVIOUS
  <2>5. \A d \in Callers : moved[d] # eduSessionSeq
    BY <1>4 DEF CallerInv, None
  <2>6. QED
    BY <1>1, <2>1, <2>2, <2>3, <2>4, <2>5 DEF CallerInv
<1>6. SessionInv'
  BY <1>1, <1>4 DEF SessionInv, MutexInv, None
<1>7. OneOwner'
  <2>1. \A s : Joiners(s)' = Joiners(s)
    BY DEF Joiners
  <2>2. Joiners(eduSessionSeq) = {}
    BY <1>4 DEF Joiners, CallerInv
  <2>3. \A s \in DOMAIN hb : s # None /\ s # eduSessionSeq
    BY <1>2 DEF SessionInv, None
  <2>4. ASSUME NEW s \in DOMAIN hb
        PROVE  Joiners(s) # {} /\ \A d, e \in Joiners(s) : d = e
    BY <1>2, <2>3 DEF OneOwner
  <2>5. eduThread' = eduSessionSeq
    OBVIOUS
  <2> HIDE DEF IInv, TypeOK, EnterSpawn
  <2>6. QED
    BY <1>1, <2>1, <2>2, <2>3, <2>4, <2>5 DEF OneOwner
<1>8. NoHeartbeatAfterExit'
  BY <1>1 DEF NoHeartbeatAfterExit, SessionInv
<1>9. NoTerminate' /\ CurrentKeptAlive'
  BY <1>1, <1>2 DEF NoTerminate, CurrentKeptAlive
<1>10. NoForgottenSession'
  BY DEF NoForgottenSession
<1>11. QED
  BY <1>3, <1>5, <1>6, <1>7, <1>8, <1>9, <1>10

\* A heartbeat thread that returns is not the one eduThread_ holds.
LEMMA HeartbeatInv ==
    ASSUME IInv, NEW s \in DOMAIN hb, Heartbeat(s), TypeOK'
    PROVE  IInv'
<1> USE DEF IInv, eduVars, callVars, robotVars
<1>1. DOMAIN hb' \subseteq DOMAIN hb
  BY HeartbeatStep
<1>2. eduThread \in DOMAIN hb => eduThread \in DOMAIN hb'
  <2>1. CASE DOMAIN hb' = DOMAIN hb
    BY <2>1
  <2>2. CASE DOMAIN hb' = DOMAIN hb \ {s} /\ (eduStop \/ s # eduSessionSeq)
    <3>1. eduThread # None => eduThread # s
      BY <2>2 DEF CurrentKeptAlive
    <3>2. s # None
      BY DEF SessionInv, TypeOK, None
    <3>3. QED
      BY <2>2, <3>1, <3>2
  <2>3. QED
    BY <2>1, <2>2, HeartbeatStep
<1>3. MutexInv' /\ NoTerminate'
  BY DEF Heartbeat, MutexInv, NoTerminate
<1>4. CallerInv'
  BY <1>1 DEF Heartbeat, CallerInv
<1>5. SessionInv'
  BY <1>1 DEF Heartbeat, SessionInv
<1>6. OneOwner'
  <2>1. \A r : Joiners(r)' = Joiners(r)
    BY DEF Heartbeat, Joiners
  <2>2. QED
    BY <1>1, <2>1 DEF Heartbeat, OneOwner
<1>7. NoHeartbeatAfterExit'
  BY <1>1 DEF Heartbeat, NoHeartbeatAfterExit
<1>8. CurrentKeptAlive'
  BY <1>2 DEF Heartbeat, CurrentKeptAlive
<1>9. NoForgottenSession'
  BY DEF Heartbeat, NoForgottenSession
<1>10. QED
  BY <1>3, <1>4, <1>5, <1>6, <1>7, <1>8, <1>9

\* A step that leaves alone everything the invariant is about.
LEMMA FrameStep ==
    ASSUME IInv, TypeOK',
           UNCHANGED <<eduMutex, eduVars, hb, pc, moved, sendExit, closed, exitLost,
                       terminated>>,
           robotEdu' \subseteq robotEdu,
           \A c \in Callers : pc[c] # "idle" => op'[c] = op[c]
    PROVE  IInv'
<1> USE DEF IInv, eduVars
<1>1. MutexInv' /\ SessionInv' /\ NoTerminate'
  BY DEF MutexInv, SessionInv, NoTerminate
<1>2. CallerInv'
  BY DEF CallerInv
<1>3. OneOwner'
  <2>1. \A s : Joiners(s)' = Joiners(s)
    BY DEF Joiners
  <2>2. QED
    BY <2>1 DEF OneOwner
<1>4. NoHeartbeatAfterExit' /\ CurrentKeptAlive' /\ NoForgottenSession'
  BY DEF NoHeartbeatAfterExit, CurrentKeptAlive, NoForgottenSession
<1>5. QED
  BY <1>1, <1>2, <1>3, <1>4

\* The inductive step.
LEMMA InvStep ==
    ASSUME SingleEnterer, DetachedEntersReliably, IInv, [Next]_vars
    PROVE  IInv'
<1>1. TypeOK'
  BY TypeStep DEF IInv
<1>2. ASSUME NEW c \in Callers, Call(c) PROVE IInv'
  <2> USE DEF Operation
  <2>1. CASE CallEnter(c)
    BY <1>1, <2>1, BeginStep DEF CallEnter
  <2>2. CASE CallExit(c)
    BY <1>1, <2>2, BeginStep DEF CallExit, IInv, TypeOK
  <2>3. CASE CallRobotGone(c)
    BY <1>1, <2>3, BeginStep DEF CallRobotGone, IInv, TypeOK
  <2>4. CASE CallShutdown(c)
    BY <1>1, <2>4, BeginStep DEF CallShutdown, IInv, TypeOK
  <2>5. CASE ShutdownAgain(c)
    <3>1. \A d \in Callers : pc[d] # "idle" => op'[d] = op[d]
      BY <2>5 DEF ShutdownAgain, At, IInv, TypeOK
    <3>2. QED
      BY <1>1, <2>5, <3>1, FrameStep DEF ShutdownAgain, robotVars
  <2>6. QED
    BY <1>2, <2>1, <2>2, <2>3, <2>4, <2>5 DEF Call
<1>3. ASSUME NEW c \in Callers, Continue(c) PROVE IInv'
  BY <1>1, <1>3, ExitLockStep, ExitJoinStep, ExitSendStep, EnterLockStep,
     EnterSendStep, EnterSpawnStep DEF Continue
<1>4. ASSUME NEW s \in DOMAIN hb, Heartbeat(s) PROVE IInv'
  BY <1>1, <1>4, HeartbeatInv
<1>5. ASSUME NEW t \in Transport, LeaseExpires(t) PROVE IInv'
  BY <1>1, <1>5, FrameStep DEF LeaseExpires, callVars
<1>6. CASE UNCHANGED vars
  BY <1>1, <1>6, FrameStep DEF vars, callVars, robotVars
<1>7. QED
  BY <1>2, <1>3, <1>4, <1>5, <1>6 DEF Next

\* The invariant holds in every state.
LEMMA Invariance ==
    ASSUME SingleEnterer, DetachedEntersReliably
    PROVE  Spec => []IInv
<1>1. Init => IInv
  <2> SUFFICES ASSUME Init PROVE IInv
    OBVIOUS
  <2>1. DOMAIN hb = {}
    BY DEF Init
  <2>2. MutexInv /\ CallerInv /\ SessionInv
    BY <2>1, NobodyAssumption DEF Init, MutexInv, CallerInv, SessionInv
  <2>3. QED
    BY <2>1, <2>2, InitType
    DEF Init, IInv, NoTerminate, OneOwner, NoHeartbeatAfterExit, CurrentKeptAlive,
        NoForgottenSession
<1>2. IInv /\ [Next]_vars => IInv'
  BY InvStep
<1>3. QED
  BY <1>1, <1>2, PTL DEF Spec

\* If one thread at most enters EDU mode and no enter fails on a detached thread,
\* std::terminate is not called: enter_edu_mode never assigns to a joinable
\* eduThread_, and no exception is left unhandled.
THEOREM NeverTerminates ==
    ASSUME SingleEnterer, DetachedEntersReliably
    PROVE  Spec => []NoTerminate
<1>1. IInv => NoTerminate
  BY DEF IInv
<1>2. QED
  BY <1>1, Invariance, PTL

\* Every heartbeat thread is owned by eduThread_ or by exactly one call that
\* joins it.
THEOREM HeartbeatsAreOwned ==
    ASSUME SingleEnterer, DetachedEntersReliably
    PROVE  Spec => []OneOwner
<1>1. IInv => OneOwner
  BY DEF IInv
<1>2. QED
  BY <1>1, Invariance, PTL

\* No heartbeat of a session is sent after the exit of that session.
THEOREM ExitIsFinal ==
    ASSUME SingleEnterer, DetachedEntersReliably
    PROVE  Spec => []NoHeartbeatAfterExit
<1>1. IInv => NoHeartbeatAfterExit
  BY DEF IInv
<1>2. QED
  BY <1>1, Invariance, PTL

\* The heartbeat of the current session runs until exit_edu_mode takes it.
THEOREM CurrentSessionIsKept ==
    ASSUME SingleEnterer, DetachedEntersReliably
    PROVE  Spec => []CurrentKeptAlive
<1>1. IInv => CurrentKeptAlive
  BY DEF IInv
<1>2. QED
  BY <1>1, Invariance, PTL

\* A session the robot may be in is never forgotten: the next exit ends it.
THEOREM SessionsAreRemembered ==
    ASSUME SingleEnterer, DetachedEntersReliably
    PROVE  Spec => []NoForgottenSession
<1>1. IInv => NoForgottenSession
  BY DEF IInv
<1>2. QED
  BY <1>1, Invariance, PTL

-----------------------------------------------------------------------------
\* Every step of the code is a step of HeartbeatContract or changes nothing
\* the contract speaks of.
LEMMA ContractStep ==
    ASSUME IInv, IInv', [Next]_vars
    PROVE  [Contract!Next]_(Contract!vars)
<1> USE DEF Contract!vars, Contract!Next
<1>1. ASSUME UNCHANGED <<eduThread, hb, closed>>
      PROVE  [Contract!Next]_(Contract!vars)
  BY <1>1
<1>2. ASSUME NEW c \in Callers, Call(c) PROVE [Contract!Next]_(Contract!vars)
  BY <1>1, <1>2
  DEF Call, CallEnter, CallExit, CallRobotGone, CallShutdown, ShutdownAgain, Begin,
      eduVars, robotVars
<1>3. ASSUME NEW c \in Callers, ExitLock(c) PROVE [Contract!Next]_(Contract!vars)
  <2>1. CASE eduThread = None
    BY <1>1, <1>3, <2>1 DEF ExitLock, robotVars
  <2>2. CASE eduThread # None
    BY <1>3, <2>2 DEF ExitLock, robotVars, Contract!Release, Contract!None, None
  <2>3. QED BY <2>1, <2>2
<1>4. ASSUME NEW c \in Callers, ExitJoin(c) PROVE [Contract!Next]_(Contract!vars)
  BY <1>1, <1>4 DEF ExitJoin, eduVars, robotVars
<1>5. ASSUME NEW c \in Callers, ExitSend(c) PROVE [Contract!Next]_(Contract!vars)
  <2>1. moved[c] \notin DOMAIN hb /\ (moved[c] # None => moved[c] # eduThread)
    BY <1>5 DEF ExitSend, At, IInv, CallerInv, CurrentKeptAlive
  <2>2. Contract!Close
    BY <1>5, <2>1 DEF ExitSend, eduVars, Contract!Close
  <2>3. QED
    BY <2>2
<1>6. ASSUME NEW c \in Callers, EnterLock(c) PROVE [Contract!Next]_(Contract!vars)
  BY <1>1, <1>6 DEF EnterLock, robotVars
<1>7. ASSUME NEW c \in Callers, EnterSend(c) PROVE [Contract!Next]_(Contract!vars)
  BY <1>1, <1>7 DEF EnterSend, eduVars
<1>8. ASSUME NEW c \in Callers, EnterSpawn(c) PROVE [Contract!Next]_(Contract!vars)
  <2>1. DOMAIN hb' = DOMAIN hb \cup {eduSessionSeq}
    BY <1>8, HbSpawnFacts DEF EnterSpawn, IInv, TypeOK
  <2>2. eduThread = None /\ eduSessionSeq # None /\ eduSessionSeq \notin DOMAIN hb
    BY <1>8 DEF EnterSpawn, At, IInv, CallerInv, SessionInv
  <2>3. eduSessionSeq \notin closed
    BY DEF IInv, TypeOK, SessionInv
  <2>4. Contract!Open
    BY <1>8, <2>1, <2>2, <2>3 DEF EnterSpawn, robotVars, Contract!Open, Contract!None, None
  <2>5. QED
    BY <2>4
<1>9. ASSUME NEW s \in DOMAIN hb, Heartbeat(s) PROVE [Contract!Next]_(Contract!vars)
  <2>1. UNCHANGED <<eduThread, closed>>
    BY <1>9 DEF Heartbeat, eduVars, robotVars
  <2>2. CASE DOMAIN hb' = DOMAIN hb
    BY <2>1, <2>2
  <2>3. CASE DOMAIN hb' = DOMAIN hb \ {s} /\ (eduStop \/ s # eduSessionSeq)
    <3>1. s # eduThread
      BY <2>3 DEF IInv, CurrentKeptAlive, SessionInv, TypeOK, None
    <3>2. Contract!Stop
      BY <2>1, <2>3, <3>1 DEF Contract!Stop
    <3>3. QED
      BY <3>2
  <2>4. QED
    BY <1>9, <2>2, <2>3, HeartbeatStep DEF IInv
<1>10. ASSUME NEW t \in Transport, LeaseExpires(t) PROVE [Contract!Next]_(Contract!vars)
  BY <1>1, <1>10 DEF LeaseExpires, eduVars
<1>11. CASE UNCHANGED vars
  BY <1>1, <1>11 DEF vars, eduVars, robotVars
<1>12. QED
  BY <1>2, <1>3, <1>4, <1>5, <1>6, <1>7, <1>8, <1>9, <1>10, <1>11 DEF Next, Continue

\* The threads of AiDog implement the contract.
THEOREM ImplementsContract ==
    ASSUME SingleEnterer, DetachedEntersReliably
    PROVE  Spec => ContractSpec
<1>1. Init => Contract!Init
  BY DEF Init, Contract!Init, Contract!None, None
<1>2. IInv /\ IInv' /\ [Next]_vars => [Contract!Next]_(Contract!vars)
  BY ContractStep
<1>3. QED
  BY <1>1, <1>2, Invariance, PTL DEF Spec, ContractSpec, Contract!Spec
=============================================================================
