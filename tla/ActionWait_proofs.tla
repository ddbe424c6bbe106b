-------------------------- MODULE ActionWait_proofs --------------------------
(***************************************************************************)
(* Proofs about ActionWait, for any number of actions and reports: the     *)
(* types, and TrueMeansOver and KilledIsOwn for one caller.                *)
(*                                                                         *)
(* The argument of both: as long as no call stopped listening early,       *)
(* every earlier action is over and the reports on their way are those of  *)
(* the caller's own action, in the order idle* running* (killed or idle)   *)
(* idle*.  A caller that saw it run and then sees idle is past the end.    *)
(***************************************************************************)
EXTENDS ActionWait, TLAPS

-----------------------------------------------------------------------------
(* Sequences of reports.                                                   *)

AllIdle(q)    == \A i \in 1..Len(q) : q[i] = Idle
AllRunning(q) == \A i \in 1..Len(q) : q[i] = Running
NoneKilled(q) == \A i \in 1..Len(q) : q[i] # Killed

\* After the first running only running; after the first idle only idle; a killed
\* is followed by idle only; an idle after a running is followed by idle only.
RunningStays(q)    == \A i, j \in 1..Len(q) : i < j /\ q[i] = Running => q[j] = Running
IdleStays(q)       == \A i, j \in 1..Len(q) : i < j /\ q[i] = Idle => q[j] = Idle
IdleAfterKilled(q) == \A i, j \in 1..Len(q) : i < j /\ q[i] = Killed => q[j] = Idle
OneEnd(q) ==
    \A i, j, k \in 1..Len(q) :
        i < j /\ j < k /\ q[i] = Running /\ q[j] = Idle => q[k] = Idle

-----------------------------------------------------------------------------
(* The invariant of one caller c.                                          *)

Waiting(c) == pc[c] = "wait_done"
Began(c)   == seenRunning[c] \/ started[c]

\* The caller's action was not sent, not started or ignored.
NotStarted(c) ==
    /\ task = 0
    /\ AllIdle(channel)
    /\ lastInteractionTaskStatus # Running
    /\ pc[c] \in {"capture", "send", "wait_done"} => lastInteractionTaskStatus # Killed
    /\ Waiting(c) => ~Began(c)

\* The robot performs it.
Performing(c) ==
    /\ Waiting(c)
    /\ task = act[c] /\ task # 0
    /\ lastInteractionTaskStatus # Killed
    /\ NoneKilled(channel) /\ RunningStays(channel)
    /\ lastInteractionTaskStatus = Running \/ Began(c) =>
         lastInteractionTaskStatus = Running /\ AllRunning(channel)

\* It is over and the caller does not know yet.
Ended(c) ==
    /\ Waiting(c)
    /\ task = 0
    /\ IdleAfterKilled(channel) /\ OneEnd(channel)
    /\ lastInteractionTaskStatus = Killed => AllIdle(channel)
    /\ lastInteractionTaskStatus = Running \/ Began(c) => IdleStays(channel)
    /\ Began(c) /\ lastInteractionTaskStatus = Idle => AllIdle(channel)

\* Numbers are given out once, and only the caller's action can still start.
Numbers(c) ==
    /\ over \subseteq 1..actions /\ act[c] \in 0..actions
    /\ pending \subseteq {act[c]}
    /\ pending # {} => Waiting(c) /\ task = 0 /\ act[c] \notin over /\ act[c] # 0
    /\ pc[c] \in {"wait_idle", "capture", "send"} => act[c] \notin over
    /\ pc[c] \in {"wait_idle", "capture", "send", "wait_done"} => act[c] # 0

Whereabouts(c) ==
    \/ NotStarted(c) /\ (Waiting(c) => act[c] \notin over)
    \/ Performing(c) /\ act[c] \notin over
    \/ Ended(c) /\ act[c] \in over

WaitInv == ~gaveUp => \A c \in Callers : Numbers(c) /\ Whereabouts(c)

SingleCaller == \A c, d \in Callers : c = d

-----------------------------------------------------------------------------
\* A report is taken off the front, read or lost.
LEMMA TakenReport ==
    ASSUME NEW q \in Seq(Status), q # <<>>
    PROVE  /\ Head(q) \in Status /\ Tail(q) \in Seq(Status)
           /\ AllIdle(q) => Head(q) = Idle /\ AllIdle(Tail(q))
           /\ AllRunning(q) => Head(q) = Running /\ AllRunning(Tail(q))
           /\ NoneKilled(q) => Head(q) # Killed /\ NoneKilled(Tail(q))
           /\ RunningStays(q) => /\ RunningStays(Tail(q))
                                 /\ Head(q) = Running => AllRunning(Tail(q))
           /\ IdleStays(q) => /\ IdleStays(Tail(q))
                              /\ Head(q) = Idle => AllIdle(Tail(q))
           /\ IdleAfterKilled(q) => /\ IdleAfterKilled(Tail(q))
                                    /\ Head(q) = Killed => AllIdle(Tail(q))
           /\ OneEnd(q) => /\ OneEnd(Tail(q))
                           /\ Head(q) = Running => IdleStays(Tail(q))
<1> DEFINE r == Tail(q)
<1>1. Head(q) \in Status /\ r \in Seq(Status)
  OBVIOUS
<1>2. /\ Len(q) \in Nat \ {0} /\ Len(r) = Len(q) - 1 /\ Head(q) = q[1]
      /\ \A i \in 1..Len(r) : i + 1 \in 1..Len(q) /\ r[i] = q[i + 1]
  OBVIOUS
<1> HIDE DEF r
<1>3. AllIdle(q) => Head(q) = Idle /\ AllIdle(r)
  BY <1>2 DEF AllIdle
<1>4. AllRunning(q) => Head(q) = Running /\ AllRunning(r)
  BY <1>2 DEF AllRunning
<1>5. NoneKilled(q) => Head(q) # Killed /\ NoneKilled(r)
  BY <1>2 DEF NoneKilled
<1>6. RunningStays(q) => RunningStays(r) /\ (Head(q) = Running => AllRunning(r))
  BY <1>2 DEF RunningStays, AllRunning
<1>7. IdleStays(q) => IdleStays(r) /\ (Head(q) = Idle => AllIdle(r))
  BY <1>2, SMTT(30) DEF IdleStays, AllIdle
<1>8. IdleAfterKilled(q) => IdleAfterKilled(r) /\ (Head(q) = Killed => AllIdle(r))
  BY <1>2 DEF IdleAfterKilled, AllIdle
<1>9. OneEnd(q) => OneEnd(r) /\ (Head(q) = Running => IdleStays(r))
  BY <1>2, SMTT(30) DEF OneEnd, IdleStays
<1>10. QED
  BY <1>1, <1>3, <1>4, <1>5, <1>6, <1>7, <1>8, <1>9 DEF r

\* The robot adds a report.
LEMMA AddedReport ==
    ASSUME NEW q \in Seq(Status), NEW s \in Status
    PROVE  LET a == Append(q, s) IN
           /\ a \in Seq(Status)
           /\ AllIdle(q) /\ s = Idle => AllIdle(a)
           /\ AllIdle(q) /\ s = Running => NoneKilled(a) /\ RunningStays(a)
           /\ AllRunning(q) /\ s = Running => AllRunning(a)
           /\ RunningStays(q) /\ NoneKilled(q) =>
                /\ s = Running => NoneKilled(a) /\ RunningStays(a)
                /\ s \in {Idle, Killed} => IdleAfterKilled(a) /\ OneEnd(a)
           /\ AllRunning(q) => IdleStays(a)
           /\ IdleStays(q) /\ s = Idle => IdleStays(a)
           /\ IdleAfterKilled(q) /\ s = Idle => IdleAfterKilled(a)
           /\ OneEnd(q) /\ s = Idle => OneEnd(a)
<1> DEFINE a == Append(q, s)
<1>1. a \in Seq(Status)
  OBVIOUS
<1>2. /\ Len(q) \in Nat /\ Len(a) = Len(q) + 1 /\ a[Len(q) + 1] = s
      /\ \A i \in 1..Len(q) : a[i] = q[i]
  OBVIOUS
<1> HIDE DEF a
<1>3. Idle # Running /\ Idle # Killed /\ Running # Killed
  BY DEF Idle, Running, Killed
<1>4. AllIdle(q) /\ s = Idle => AllIdle(a)
  BY <1>2 DEF AllIdle
<1>5. AllIdle(q) /\ s = Running => NoneKilled(a) /\ RunningStays(a)
  BY <1>2, <1>3 DEF AllIdle, NoneKilled, RunningStays
<1>6. AllRunning(q) /\ s = Running => AllRunning(a)
  BY <1>2 DEF AllRunning
<1>7. RunningStays(q) /\ NoneKilled(q) /\ s = Running => NoneKilled(a) /\ RunningStays(a)
  BY <1>2, <1>3 DEF RunningStays, NoneKilled
<1>8. NoneKilled(q) /\ s \in {Idle, Killed} => IdleAfterKilled(a)
  BY <1>2, <1>3 DEF NoneKilled, IdleAfterKilled
<1>9. RunningStays(q) /\ s \in {Idle, Killed} => OneEnd(a)
  BY <1>2, <1>3 DEF RunningStays, OneEnd
<1>10. AllRunning(q) => IdleStays(a)
  BY <1>2, <1>3 DEF AllRunning, IdleStays
<1>11. IdleStays(q) /\ s = Idle => IdleStays(a)
  BY <1>2 DEF IdleStays
<1>12. IdleAfterKilled(q) /\ s = Idle => IdleAfterKilled(a)
  BY <1>2 DEF IdleAfterKilled
<1>13. OneEnd(q) /\ s = Idle => OneEnd(a)
  BY <1>2 DEF OneEnd
<1>14. QED
  BY <1>1, <1>4, <1>5, <1>6, <1>7, <1>8, <1>9, <1>10, <1>11, <1>12, <1>13 DEF a

-----------------------------------------------------------------------------
\* Every step keeps every variable in its type.
LEMMA TypeStep ==
    ASSUME TypeOK, [Next]_vars
    PROVE  TypeOK'
<1> USE DEF TypeOK, stateVars, robotVars
<1>1. Idle \in Status /\ Running \in Status /\ Killed \in Status
  BY DEF Status
<1>2. \A s \in Status : Append(channel, s) \in Seq(Status)
  BY AddedReport
<1>3. ASSUME NEW c \in Callers, Perform(c) PROVE TypeOK'
  BY <1>3 DEF Perform, CallerPc, Result
<1>4. ASSUME NEW c \in Callers, CallWaitReady(c) PROVE TypeOK'
  BY <1>4 DEF CallWaitReady, CallerPc, Result
<1>5. ASSUME NEW c \in Callers, WaitIdle(c) PROVE TypeOK'
  BY <1>5 DEF WaitIdle, CallerPc
<1>6. ASSUME NEW c \in Callers, Capture(c) PROVE TypeOK'
  BY <1>6 DEF Capture, CallerPc
<1>7. ASSUME NEW c \in Callers, Send(c) PROVE TypeOK'
  BY <1>7 DEF Send, CallerPc
<1>8. ASSUME NEW c \in Callers, SendThrows(c) PROVE TypeOK'
  <2>1. pending' \subseteq Nat
    BY <1>8 DEF SendThrows
  <2>2. QED
    BY <1>8, <2>1 DEF SendThrows, CallerPc, Result
<1>9. ASSUME NEW c \in Callers, Sample(c) PROVE TypeOK'
  <2>1. seenRunning' \in [Callers -> BOOLEAN] /\ started' \in [Callers -> BOOLEAN]
    BY <1>9 DEF Sample
  <2>2. /\ result' \in [Callers -> Result] /\ pc' \in [Callers -> CallerPc]
        /\ gaveUp' \in BOOLEAN
    BY <1>9 DEF Sample, CallerPc, Result
  <2>3. QED
    BY <1>9, <2>1, <2>2 DEF Sample
<1>10. ASSUME NEW c \in Callers, Deadline(c) PROVE TypeOK'
  BY <1>10 DEF Deadline, CallerPc, Result
<1>11. ASSUME NEW c \in Callers, WaitReadyReturns(c) PROVE TypeOK'
  BY <1>11 DEF WaitReadyReturns, CallerPc, Result
<1>12. CASE Dispatch
  BY <1>12, TakenReport DEF Dispatch, callerVars
<1>13. ASSUME NEW a \in pending, RobotStarts(a) PROVE TypeOK'
  BY <1>1, <1>2, <1>13 DEF RobotStarts, Report, callerVars
<1>14. ASSUME NEW a \in pending, RobotIgnores(a) PROVE TypeOK'
  BY <1>14 DEF RobotIgnores, callerVars
<1>15. CASE RobotEnds
  BY <1>1, <1>2, <1>15 DEF RobotEnds, Report, callerVars
<1>16. CASE RobotRepeats
  BY <1>1, <1>2, <1>16 DEF RobotRepeats, Report, callerVars
<1>17. CASE ReportLost
  BY <1>17, TakenReport DEF ReportLost, callerVars
<1>18. CASE UNCHANGED vars
  BY <1>18 DEF vars, callerVars
<1>19. QED
  BY <1>3, <1>4, <1>5, <1>6, <1>7, <1>8, <1>9, <1>10, <1>11, <1>12, <1>13, <1>14, <1>15,
     <1>16, <1>17, <1>18 DEF Next, Step

LEMMA InitType == Init => TypeOK
<1>1. <<>> \in Seq(Status)
  OBVIOUS
<1> SUFFICES ASSUME Init PROVE TypeOK
  OBVIOUS
<1>2. lastInteractionTaskStatus \in Status /\ channel \in Seq(Status)
  BY <1>1 DEF Init, Status
<1>3. QED
  BY <1>2 DEF Init, TypeOK, CallerPc, Result

\* Every variable of the callers, the report channel and the robot keeps its type.
THEOREM TypeCorrect == Spec => []TypeOK
<1>1. TypeOK /\ [Next]_vars => TypeOK'
  BY TypeStep
<1>2. QED
  BY InitType, <1>1, PTL DEF Spec

-----------------------------------------------------------------------------
\* What a sample that ends the call has seen.
LEMMA SampleReturns ==
    ASSUME TypeOK, NEW c \in Callers, Sample(c), pc'[c] = "idle"
    PROVE  /\ pc' = [pc EXCEPT ![c] = "idle"]
           /\ gaveUp' = (gaveUp \/ ~require[c] \/ act[c] \notin over)
           /\ \/ lastInteractionTaskStatus = Killed /\ result'[c] = "false"
              \/ /\ lastInteractionTaskStatus = Idle
                 /\ interactionStatusNotifySeq > startSeq[c]
                 /\ require[c] => Began(c)
<1> DEFINE status == lastInteractionTaskStatus
           seen   == seenRunning[c] \/ status = Running
           begun  == started[c] \/ status \notin {NoStatus, Idle}
           done   == status = Idle /\ interactionStatusNotifySeq > startSeq[c]
                       /\ (~require[c] \/ seen \/ begun)
<1>1. done \/ status = Killed
  BY DEF Sample, TypeOK
<1>2. /\ pc' = [pc EXCEPT ![c] = "idle"]
      /\ gaveUp' = (gaveUp \/ ~require[c] \/ act[c] \notin over)
      /\ result' = [result EXCEPT ![c] = IF done THEN "true" ELSE "false"]
  BY <1>1 DEF Sample
<1>3. done /\ require[c] => Began(c)
  BY DEF Began, Idle, Running
<1>4. ~done => result'[c] = "false"
  BY <1>2 DEF TypeOK
<1>5. QED
  BY <1>1, <1>2, <1>3, <1>4

\* perform_action returns from its last wait only by a sample or at the deadline.
LEMMA OnlyTheseReturn ==
    ASSUME TypeOK, [Next]_vars, NEW c \in Callers, Returned(c)
    PROVE  Sample(c) \/ Deadline(c)
<1> USE DEF Returned, TypeOK
<1>1. ASSUME NEW d \in Callers,
             \/ Perform(d) \/ CallWaitReady(d) \/ WaitIdle(d) \/ Capture(d)
             \/ Send(d) \/ SendThrows(d) \/ WaitReadyReturns(d)
      PROVE  FALSE
  BY <1>1 DEF Perform, CallWaitReady, WaitIdle, Capture, Send, SendThrows, WaitReadyReturns
<1>2. ASSUME NEW d \in Callers, d # c, Sample(d) \/ Deadline(d)
      PROVE  FALSE
  BY <1>2 DEF Sample, Deadline
<1>3. ASSUME \/ Dispatch \/ RobotEnds \/ RobotRepeats \/ ReportLost \/ UNCHANGED vars
             \/ \E a \in pending : RobotStarts(a) \/ RobotIgnores(a)
      PROVE  FALSE
  <2>1. UNCHANGED pc
    BY <1>3 DEF Dispatch, RobotEnds, RobotRepeats, ReportLost, RobotStarts, RobotIgnores,
       vars, callerVars
  <2>2. QED
    BY <2>1
<1>4. QED
  BY <1>1, <1>2, <1>3 DEF Next, Step

-----------------------------------------------------------------------------
\* What the caller's sample decides, wherever its action is: true is the end of it
\* or makes the history say so, and whatever ends the call leaves only idle reports.
LEMMA SampleStep ==
    ASSUME TypeOK, NEW c \in Callers, Numbers(c), Whereabouts(c), Sample(c), ~gaveUp'
    PROVE  Numbers(c)' /\ Whereabouts(c)'
<1> DEFINE status == lastInteractionTaskStatus
<1>1. /\ Waiting(c) /\ UNCHANGED <<stateVars, act, robotVars, actions>>
      /\ Idle # Running /\ Idle # Killed /\ Running # Killed
  BY DEF Sample, Waiting, Idle, Running, Killed
<1>2. CASE UNCHANGED pc
  <2>1. /\ seenRunning'[c] => seenRunning[c] \/ status = Running
        /\ started'[c] => started[c] \/ status \notin {NoStatus, Idle}
    BY DEF Sample, TypeOK
  <2>2. status # Killed
    <3> SUFFICES ASSUME status = Killed PROVE FALSE
      OBVIOUS
    <3>1. pc' = [pc EXCEPT ![c] = "idle"] /\ pc[c] = "wait_done"
      BY DEF Sample
    <3>2. QED
      BY <1>2, <3>1 DEF TypeOK
  <2>3. /\ Waiting(c)' /\ status # Killed
        /\ Began(c)' => \/ Began(c)
                        \/ status \notin {NoStatus, Idle}
    BY <1>1, <1>2, <2>1, <2>2 DEF Waiting, Began, Running, NoStatus, Idle
  <2>4. Numbers(c)'
    BY <1>1, <1>2 DEF Numbers, stateVars, robotVars, Waiting
  <2>5. Began(c)' => Began(c) \/ status = Running
    BY <2>3 DEF TypeOK, Status
  <2>6. NotStarted(c) => NotStarted(c)'
    BY <1>1, <1>2, <2>5 DEF NotStarted, stateVars, robotVars, Waiting
  <2>7. Performing(c) => Performing(c)'
    BY <1>1, <1>2, <2>5 DEF Performing, stateVars, robotVars, Waiting
  <2>8. Ended(c) => Ended(c)'
    BY <1>1, <1>2, <2>5 DEF Ended, stateVars, robotVars, Waiting
  <2>9. QED
    BY <1>1, <1>2, <2>4, <2>6, <2>7, <2>8 DEF Whereabouts, robotVars, Waiting
<1>3. CASE ~UNCHANGED pc
  <2>1. pc'[c] = "idle"
    BY <1>3 DEF Sample, TypeOK
  <2>2. /\ pc' = [pc EXCEPT ![c] = "idle"] /\ act[c] \in over
        /\ \/ status = Killed
           \/ status = Idle /\ Began(c)
    BY <2>1, SampleReturns
  <2>3. Ended(c)
    BY <1>1, <2>2 DEF Whereabouts, NotStarted
  <2>4. pc'[c] = "idle" /\ AllIdle(channel) /\ status # Running /\ task = 0
    BY <1>1, <2>2, <2>3 DEF Ended, TypeOK
  <2>5. NotStarted(c)'
    BY <1>1, <2>4 DEF NotStarted, stateVars, robotVars, Waiting
  <2>6. Numbers(c)'
    BY <1>1, <2>2, <2>4 DEF Numbers, stateVars, robotVars, Waiting
  <2>7. QED
    BY <2>4, <2>5, <2>6 DEF Whereabouts, Waiting
<1>4. QED
  BY <1>2, <1>3

\* Every step keeps the invariant of a single caller.
LEMMA WaitStep ==
    ASSUME SingleCaller, TypeOK, WaitInv, [Next]_vars
    PROVE  WaitInv'
<1> SUFFICES ASSUME ~gaveUp', NEW c \in Callers
             PROVE  Numbers(c)' /\ Whereabouts(c)'
  BY DEF WaitInv
<1> USE DEF stateVars, robotVars, callerVars, TypeOK
<1>1. \A d \in Callers : d = c
  BY DEF SingleCaller
<1>2. ~gaveUp
  BY DEF Next, Step, Perform, CallWaitReady, WaitIdle, Capture, Send, SendThrows, Sample,
     Deadline, WaitReadyReturns, Dispatch, RobotStarts, RobotIgnores, RobotEnds,
     RobotRepeats, ReportLost, vars
<1>3. Numbers(c) /\ Whereabouts(c)
  BY <1>2 DEF WaitInv
<1>4. /\ Idle # Running /\ Idle # Killed /\ Running # Killed
      /\ NoStatus \notin {Running, Killed}
  BY DEF Idle, Running, Killed, NoStatus
<1>5. CASE Perform(c)
  <2>1. NotStarted(c)
    BY <1>3, <1>5 DEF Perform, Whereabouts, Performing, Ended, Waiting
  <2>2. pc'[c] = "wait_idle" /\ act'[c] = actions + 1 /\ pending = {}
    BY <1>3, <1>5 DEF Perform, Numbers, Waiting
  <2>3. NotStarted(c)' /\ ~Waiting(c)'
    BY <1>5, <2>1, <2>2 DEF Perform, NotStarted, Waiting
  <2>4. Numbers(c)'
    BY <1>3, <1>5, <2>2 DEF Perform, Numbers, Waiting
  <2>5. QED
    BY <2>3, <2>4 DEF Whereabouts
<1>6. CASE CallWaitReady(c) \/ WaitReadyReturns(c)
  <2>1. /\ NotStarted(c) /\ pc'[c] \in {"wait_ready", "idle"}
        /\ UNCHANGED <<act, actions, stateVars, robotVars>> /\ pending = {}
    BY <1>3, <1>6 DEF CallWaitReady, WaitReadyReturns, Whereabouts, Performing, Ended,
       Waiting, Numbers
  <2>2. QED
    BY <1>3, <2>1 DEF Numbers, Whereabouts, NotStarted, Waiting
<1>7. CASE WaitIdle(c)
  <2>1. /\ NotStarted(c) /\ pc'[c] = "capture" /\ lastInteractionTaskStatus # Killed
        /\ UNCHANGED <<act, actions, stateVars, robotVars>> /\ pending = {}
        /\ pc[c] = "wait_idle"
    BY <1>3, <1>4, <1>7 DEF WaitIdle, Whereabouts, Performing, Ended, Waiting, Numbers
  <2>2. QED
    BY <1>3, <2>1 DEF Numbers, Whereabouts, NotStarted, Waiting
<1>8. CASE Capture(c)
  <2>1. /\ NotStarted(c) /\ pc'[c] = "send" /\ pc[c] = "capture"
        /\ UNCHANGED <<act, actions, stateVars, robotVars>> /\ pending = {}
    BY <1>3, <1>8 DEF Capture, Whereabouts, Performing, Ended, Waiting, Numbers
  <2>2. QED
    BY <1>3, <2>1 DEF Numbers, Whereabouts, NotStarted, Waiting
<1>9. CASE Send(c)
  <2>1. /\ NotStarted(c) /\ pc'[c] = "wait_done" /\ pc[c] = "send" /\ ~Began(c)'
        /\ UNCHANGED <<act, actions, stateVars, task, over, channel>>
        /\ pending' = {act[c]}
    BY <1>3, <1>9 DEF Send, Whereabouts, Performing, Ended, Waiting, Numbers, Began
  <2>2. QED
    BY <1>3, <2>1 DEF Numbers, Whereabouts, NotStarted, Waiting
<1>10. CASE SendThrows(c) \/ Deadline(c)
  BY <1>10 DEF SendThrows, Deadline
<1>11. CASE Sample(c)
  BY <1>3, <1>11, SampleStep
\* The caller does nothing in the other steps.
<1>12. ASSUME UNCHANGED <<callerVars, actions>>, UNCHANGED <<pending, over, task>>
       PROVE  Numbers(c)'
  BY <1>3, <1>12 DEF Numbers, Waiting
<1>13. ASSUME channel # <<>>, channel' = Tail(channel),
              UNCHANGED <<callerVars, pending, task, over>>,
              lastInteractionTaskStatus' \in {Head(channel), lastInteractionTaskStatus}
       PROVE  Whereabouts(c)'
  <2>1. NotStarted(c) => NotStarted(c)'
    BY <1>4, <1>13, TakenReport DEF NotStarted, Waiting, Began
  <2>2. Performing(c) => Performing(c)'
    BY <1>4, <1>13, TakenReport DEF Performing, Waiting, Began
  <2>3. Ended(c) => Ended(c)'
    BY <1>4, <1>13, TakenReport DEF Ended, Waiting, Began
  <2>4. QED
    BY <1>3, <1>13, <2>1, <2>2, <2>3 DEF Whereabouts, Waiting
<1>14. CASE Dispatch
  BY <1>12, <1>13, <1>14 DEF Dispatch
<1>15. CASE ReportLost
  BY <1>12, <1>13, <1>15 DEF ReportLost
<1>16. ASSUME NEW a \in pending, RobotStarts(a) PROVE Numbers(c)' /\ Whereabouts(c)'
  <2>1. /\ a = act[c] /\ act[c] # 0 /\ act[c] \notin over /\ NotStarted(c) /\ Waiting(c)
        /\ pending' = {} /\ task' = act[c] /\ channel' = Append(channel, Running)
        /\ UNCHANGED <<callerVars, actions, over, lastInteractionTaskStatus>>
    BY <1>3, <1>16 DEF RobotStarts, Report, Numbers, Whereabouts, Performing
  <2>2. Performing(c)'
    BY <1>4, <2>1, AddedReport DEF NotStarted, Performing, Waiting, Began, Status
  <2>3. Numbers(c)'
    BY <1>3, <2>1 DEF Numbers, Waiting
  <2>4. QED
    BY <2>1, <2>2, <2>3 DEF Whereabouts
<1>17. ASSUME NEW a \in pending, RobotIgnores(a) PROVE Numbers(c)' /\ Whereabouts(c)'
  <2>1. /\ UNCHANGED <<callerVars, actions, over, task, channel, stateVars>>
        /\ pending' \subseteq pending
    BY <1>17 DEF RobotIgnores
  <2>2. Numbers(c)'
    BY <1>3, <2>1 DEF Numbers, Waiting
  <2>3. QED
    BY <1>3, <2>1, <2>2 DEF Whereabouts, NotStarted, Performing, Ended, Waiting, Began
<1>18. CASE RobotEnds
  <2>1. PICK s \in {Idle, Killed} : channel' = Append(channel, s)
    BY <1>18 DEF RobotEnds, Report
  <2>2. /\ Performing(c) /\ task' = 0 /\ over' = over \cup {act[c]} /\ pending = {}
        /\ UNCHANGED <<callerVars, actions, lastInteractionTaskStatus, pending>>
    BY <1>3, <1>18 DEF RobotEnds, Whereabouts, NotStarted, Ended, Performing, Numbers
  <2>3. Ended(c)'
    BY <1>4, <2>1, <2>2, AddedReport DEF Performing, Ended, Waiting, Began, Status
  <2>4. Numbers(c)'
    <3>1. act[c] \in 1..actions /\ pc[c] = "wait_done" /\ over \subseteq 1..actions
      BY <1>3, <2>2 DEF Numbers, Performing, Waiting
    <3>2. QED
      BY <1>3, <2>2, <3>1 DEF Numbers, Waiting
  <2>5. QED
    BY <2>2, <2>3, <2>4 DEF Whereabouts
<1>19. CASE RobotRepeats
  <2>1. /\ channel' = Append(channel, IF task = 0 THEN Idle ELSE Running)
        /\ UNCHANGED <<callerVars, actions, lastInteractionTaskStatus, pending, over, task>>
    BY <1>19 DEF RobotRepeats, Report
  <2>2. NotStarted(c) => NotStarted(c)'
    BY <2>1, AddedReport DEF NotStarted, Waiting, Began, Status
  <2>3. Performing(c) => Performing(c)'
    BY <2>1, AddedReport DEF Performing, Waiting, Began, Status
  <2>4. Ended(c) => Ended(c)'
    BY <2>1, AddedReport DEF Ended, Waiting, Began, Status
  <2>5. QED
    BY <1>3, <1>12, <2>1, <2>2, <2>3, <2>4 DEF Whereabouts, Waiting
<1>20. CASE UNCHANGED vars
  BY <1>3, <1>20 DEF vars, Numbers, Whereabouts, NotStarted, Performing, Ended, Waiting,
     Began
<1>21. QED
  BY <1>1, <1>5, <1>6, <1>7, <1>8, <1>9, <1>10, <1>11, <1>14, <1>15, <1>16, <1>17, <1>18,
     <1>19, <1>20 DEF Next, Step

LEMMA InitWait == Init => WaitInv
<1> SUFFICES ASSUME Init, NEW c \in Callers PROVE Numbers(c) /\ Whereabouts(c)
  BY DEF WaitInv
<1>1. pc[c] = "idle" /\ act[c] = 0
  BY DEF Init
<1>2. Numbers(c)
  BY <1>1 DEF Init, Numbers
<1>3. AllIdle(channel)
  BY DEF Init, AllIdle
<1>4. NotStarted(c) /\ ~Waiting(c)
  BY <1>1, <1>3 DEF Init, NotStarted, Waiting, Running, NoStatus
<1>5. QED
  BY <1>2, <1>4 DEF Whereabouts

\* With one caller, true of a call that asks for the running state means that the
\* robot is done with this very action, for any number of actions and reports and
\* whatever is lost, as long as no call was left early.
THEOREM TrueMeansOverHolds == ASSUME SingleCaller PROVE Spec => TrueMeansOver
<1>1. TypeOK /\ WaitInv /\ [Next]_vars => WaitInv'
  BY WaitStep
<1>2. ASSUME TypeOK, WaitInv, [Next]_vars
      PROVE  [\A c \in Callers :
                Returned(c) /\ result'[c] = "true" /\ require[c] /\ ~gaveUp
                    => act[c] \in over]_vars
  <2> SUFFICES ASSUME NEW c \in Callers, Returned(c), result'[c] = "true", require[c],
                      ~gaveUp
               PROVE  act[c] \in over
    OBVIOUS
  <2>1. Whereabouts(c) /\ Waiting(c)
    BY <1>2 DEF WaitInv, Returned, Waiting
  <2>2. Sample(c) \/ Deadline(c)
    BY <1>2, OnlyTheseReturn
  <2>3. lastInteractionTaskStatus = Idle /\ Began(c)
    <3>1. Sample(c) /\ pc'[c] = "idle"
      BY <1>2, <2>2 DEF Deadline, Returned, TypeOK
    <3>2. QED
      BY <1>2, <3>1, SampleReturns
  <2>4. QED
    BY <2>1, <2>3 DEF Whereabouts, NotStarted, Performing, Idle, Running
<1>3. QED
  BY <1>1, <1>2, InitWait, TypeCorrect, PTL DEF Spec, TrueMeansOver

\* With one caller, the killed status that ends a call is that of its own action, for
\* any number of actions and reports and whatever is lost, as long as no call was
\* left early: a status left by an earlier action never passes the wait before.
THEOREM KilledIsOwnHolds == ASSUME SingleCaller PROVE Spec => KilledIsOwn
<1>1. TypeOK /\ WaitInv /\ [Next]_vars => WaitInv'
  BY WaitStep
<1>2. ASSUME WaitInv, NEW c \in Callers, Returned(c),
             lastInteractionTaskStatus = Killed, ~gaveUp
      PROVE  act[c] \in over
  <2>1. Whereabouts(c) /\ Waiting(c)
    BY <1>2 DEF WaitInv, Returned, Waiting
  <2>2. QED
    BY <1>2, <2>1 DEF Whereabouts, NotStarted, Performing, Waiting
<1>3. WaitInv => [\A c \in Callers :
                     Returned(c) /\ lastInteractionTaskStatus = Killed /\ ~gaveUp
                         => act[c] \in over]_vars
  BY <1>2
<1>4. QED
  BY <1>1, <1>3, InitWait, TypeCorrect, PTL DEF Spec, KilledIsOwn
=============================================================================
