------------------------- MODULE ControlPanel_proofs -------------------------
(***************************************************************************)
(* Proofs about ControlPanel, for any set of movements and any number of   *)
(* events.                                                                 *)
(***************************************************************************)
EXTENDS ControlPanel, TLAPS

\* Where a task begins.
LEMMA FirstStepType ==
    ASSUME NEW kind
    PROVE  /\ FirstStep(kind) \in {"reset", "send_stop", "run"}
           /\ kind = "shutdown" => FirstStep(kind) = "send_stop"
BY DEF FirstStep

\* A queue that got a task ends with it.
LEMMA PostedLast ==
    ASSUME NEW S, NEW q \in Seq(S), NEW t \in S
    PROVE  /\ Append(q, t) \in Seq(S)
           /\ Append(q, t) # <<>>
           /\ Append(q, t)[Len(Append(q, t))] = t
OBVIOUS

\* Taking the head of a queue keeps its last task, unless it was the only one.
LEMMA TakenFirst ==
    ASSUME NEW S, NEW q \in Seq(S), q # <<>>
    PROVE  /\ Head(q) \in S
           /\ Tail(q) \in Seq(S)
           /\ Tail(q) = <<>> => Head(q) = q[Len(q)]
           /\ Tail(q) # <<>> => Tail(q)[Len(Tail(q))] = q[Len(q)]
<1>1. Len(q) \in Nat \ {0} /\ Head(q) = q[1] /\ q[1] \in S
  OBVIOUS
<1>2. Tail(q) \in Seq(S) /\ Len(Tail(q)) = Len(q) - 1
  OBVIOUS
<1>3. Tail(q) = <<>> => Len(q) = 1
  BY <1>1, <1>2
<1>4. ASSUME Tail(q) # <<>>
      PROVE  Tail(q)[Len(Tail(q))] = q[Len(q)]
  <2>1. Len(Tail(q)) \in 1..Len(q) - 1
    BY <1>1, <1>2, <1>4
  <2>2. \A i \in 1..Len(q) - 1 : Tail(q)[i] = q[i + 1]
    OBVIOUS
  <2>3. QED
    BY <1>1, <1>2, <2>1, <2>2
<1>5. QED
  BY <1>1, <1>2, <1>3, <1>4

\* The invariant holds at first.
LEMMA InitInv == Init => IInv
<1> SUFFICES ASSUME Init PROVE IInv
  OBVIOUS
<1>1. task \in Task /\ command \in Order
  BY DEF Init, Task, Order, Plain, Motion
<1>2. tasks \in Seq(Task)
  BY DEF Init
<1>3. TypeOK
  BY <1>1, <1>2 DEF Init, TypeOK, Motion
<1>4. ShutdownInv
  BY DEF Init, ShutdownInv
<1>5. QED
  BY <1>3, <1>4 DEF IInv

\* Every step keeps every variable in its type.
LEMMA TypeStep ==
    ASSUME TypeOK, [Next]_vars
    PROVE  TypeOK'
<1> USE DEF TypeOK, uiVars, earVars, robotVars, At
<1>1. \A m \in Motion : [kind |-> "drive", to |-> m] \in Order
  BY DEF Order
<1>2. \A v \in Percent : [kind |-> "ears", to |-> v] \in Order
  BY DEF Order
<1>3. \A o \in Order : o \in Task /\ o.kind \in Upset
  BY DEF Order, Task, Upset
<1>4. ASSUME NEW m \in Movement, StartMovement(m) PROVE TypeOK'
  BY <1>1, <1>4 DEF StartMovement, Command, Event, Motion
<1>26. ASSUME NEW m \in Movement, TestMovement(m) PROVE TypeOK'
  BY <1>1, <1>26 DEF TestMovement, Event, Motion
<1>27. CASE CompareMovement
  <2>1. activeMovement' \in Motion
    BY <1>27 DEF CompareMovement, Motion
  <2>2. QED
    BY <1>27, <2>1 DEF CompareMovement
<1>5. CASE StopMovement
  BY <1>1, <1>5 DEF StopMovement, Command, Event, Motion
<1>6. ASSUME NEW v \in Percent, MoveSlider(v) PROVE TypeOK'
  <2>1. upset' \subseteq Upset
    BY <1>6 DEF MoveSlider, Upset
  <2>2. /\ ui' \in {"ready", "post"} /\ command' \in Order
        /\ lastEarPercent' \in Percent \cup {NoPercent}
        /\ sinceEar' \in {"short", "middle", "long"}
        /\ pendingEarPercent' \in Percent \cup {NoPercent}
    BY <1>2, <1>6 DEF MoveSlider, SendEarPercent, Command, Event
  <2>3. QED
    BY <1>6, <2>1, <2>2 DEF MoveSlider, Event
<1>7. CASE FlushEarPercent
  BY <1>2, <1>7 DEF FlushEarPercent, SendEarPercent, Command
<1>8. CASE TimePasses
  BY <1>8 DEF TimePasses
<1>9. CASE PressConnect
  <2>1. tasks' \in Seq(Task)
    BY <1>9, PostedLast DEF PressConnect, Post, Plain, Task, Motion
  <2>2. upset' \subseteq Upset
    BY <1>9 DEF PressConnect, Upset
  <2>3. QED
    BY <1>9, <2>1, <2>2 DEF PressConnect, Event
<1>10. CASE PressDisconnect
  <2>1. tasks' \in Seq(Task)
    BY <1>10, PostedLast DEF PressDisconnect, Post, Plain, Task, Motion
  <2>2. QED
    BY <1>10, <2>1 DEF PressDisconnect, Event
<1>11. CASE Close
  <2>1. tasks' \in Seq(Task)
    BY <1>11, PostedLast DEF Close, Post, Plain, Task, Motion
  <2>2. QED
    BY <1>11, <2>1 DEF Close
<1>12. CASE PostCommand
  <2>1. tasks' \in Seq(Task)
    BY <1>12, <1>3, PostedLast DEF PostCommand, Post
  <2>2. QED
    BY <1>12, <1>3, <2>1 DEF PostCommand
<1>13. CASE CloseReturns
  BY <1>13 DEF CloseReturns
<1>14. CASE Take
  <2>1. task' \in Task /\ tasks' \in Seq(Task)
    BY <1>14, TakenFirst DEF Take
  <2>2. QED
    BY <1>14, <2>1, FirstStepType DEF Take
<1>15. CASE WorkerEnds
  BY <1>15 DEF WorkerEnds
<1>16. CASE RunConnect
  <2>1. ble' \in BOOLEAN /\ connected' \in BOOLEAN /\ motion' \in Motion
    BY <1>16 DEF RunConnect, Motion
  <2>2. QED
    BY <1>16, <2>1 DEF RunConnect
<1>17. CASE RunDrive
  <2>1. task.to \in Motion
    BY <1>17 DEF RunDrive, Task, Order
  <2>2. motion' \in Motion /\ upset' \subseteq Upset
    BY <1>17, <2>1 DEF RunDrive, Upset
  <2>3. QED
    BY <1>17, <2>2 DEF RunDrive
<1>18. CASE RunEars
  <2>1. task.to \in Percent
    BY <1>18 DEF RunEars, Task, Order
  <2>2. ears' \in Percent \cup {NoPercent} /\ upset' \subseteq Upset
    BY <1>18, <2>1 DEF RunEars, Upset
  <2>3. QED
    BY <1>18, <2>2 DEF RunEars
<1>19. CASE ResetMovement
  BY <1>19 DEF ResetMovement, Motion
<1>20. CASE CleanupStop
  <2>1. motion' \in Motion /\ upset' \subseteq Upset
    BY <1>20 DEF CleanupStop, Motion, Upset
  <2>2. QED
    BY <1>20, <2>1 DEF CleanupStop
<1>21. CASE CleanupReset
  BY <1>21 DEF CleanupReset, Motion
<1>22. CASE CleanupDrop
  <2>1. worker' \in {"idle", "flag"} /\ ble' \in BOOLEAN
    BY <1>22 DEF CleanupDrop
  <2>2. UNCHANGED <<activeMovement, connected, tasks, stop, task, ui, command, slider,
                    lastEarPercent, sinceEar, pendingEarPercent, motion, ears, upset, events>>
    BY <1>22 DEF CleanupDrop
  <2>3. QED
    BY <2>1, <2>2
<1>23. CASE ClearConnected
  <2>1. worker' = "idle" /\ connected' \in BOOLEAN
    BY <1>23 DEF ClearConnected
  <2>2. UNCHANGED <<activeMovement, tasks, stop, task, ui, command, slider, lastEarPercent,
                    sinceEar, pendingEarPercent, ble, motion, ears, upset, events>>
    BY <1>23 DEF ClearConnected
  <2>3. QED
    BY <2>1, <2>2
<1>24. CASE UNCHANGED vars
  BY <1>24 DEF vars
<1>25. QED
  BY <1>4, <1>5, <1>9, <1>10, <1>11, <1>12, <1>13, <1>14, <1>15, <1>16, <1>17, <1>19, <1>20,
     <1>21, <1>22, <1>23, <1>24, <1>26, <1>27, <1>6, <1>7, <1>8, <1>18
  DEF Next, Window, Work

\* Every step keeps the Shutdown last.
LEMMA ShutdownStep ==
    ASSUME IInv, [Next]_vars
    PROVE  ShutdownInv'
<1> USE DEF IInv, ShutdownInv, uiVars, earVars, robotVars, At
<1>1. ASSUME NEW m \in Movement, StartMovement(m) PROVE ShutdownInv'
  BY <1>1 DEF StartMovement, Command, Event
<1>23. ASSUME NEW m \in Movement, TestMovement(m) PROVE ShutdownInv'
  BY <1>23 DEF TestMovement, Event
<1>24. CASE CompareMovement
  BY <1>24 DEF CompareMovement
<1>2. CASE StopMovement
  BY <1>2 DEF StopMovement, Command, Event
<1>3. ASSUME NEW v \in Percent, MoveSlider(v) PROVE ShutdownInv'
  BY <1>3 DEF MoveSlider, SendEarPercent, Command, Event
<1>4. CASE FlushEarPercent
  BY <1>4 DEF FlushEarPercent, SendEarPercent, Command
<1>5. CASE TimePasses
  BY <1>5 DEF TimePasses
<1>6. CASE PressConnect
  BY <1>6 DEF PressConnect, Event
<1>7. CASE PressDisconnect
  BY <1>7 DEF PressDisconnect, Event
<1>8. CASE Close
  <2>1. tasks' # <<>> /\ tasks'[Len(tasks')].kind = "shutdown"
    <3>1. Plain("shutdown") \in Task /\ Plain("shutdown").kind = "shutdown"
      BY DEF Plain, Task, Motion
    <3>2. QED
      BY <1>8, <3>1, PostedLast DEF Close, Post, TypeOK
  <2>2. QED
    BY <1>8, <2>1 DEF Close
<1>9. CASE PostCommand
  BY <1>9 DEF PostCommand
<1>10. CASE CloseReturns
  BY <1>10 DEF CloseReturns
<1>11. CASE Take
  <2>1. CASE Tail(tasks) = <<>>
    <3>1. stop => task'.kind = "shutdown"
      BY <1>11, <2>1, TakenFirst DEF Take, TypeOK
    <3>2. QED
      BY <1>11, <2>1, <3>1, FirstStepType DEF Take
  <2>2. CASE Tail(tasks) # <<>>
    <3>1. tasks'[Len(tasks')] = tasks[Len(tasks)]
      BY <1>11, <2>2, TakenFirst DEF Take, TypeOK
    <3>2. worker' # "ended"
      BY <1>11, FirstStepType DEF Take
    <3>3. QED
      BY <1>11, <2>2, <3>1, <3>2 DEF Take
  <2>3. QED
    BY <2>1, <2>2
<1>12. CASE WorkerEnds
  BY <1>12 DEF WorkerEnds
<1>13. CASE RunConnect
  BY <1>13 DEF RunConnect
<1>14. CASE RunDrive
  BY <1>14 DEF RunDrive
<1>15. CASE RunEars
  BY <1>15 DEF RunEars
<1>16. CASE ResetMovement
  BY <1>16 DEF ResetMovement
<1>17. CASE CleanupStop
  BY <1>17 DEF CleanupStop
<1>18. CASE CleanupReset
  BY <1>18 DEF CleanupReset
<1>19. CASE CleanupDrop
  BY <1>19 DEF CleanupDrop
<1>20. CASE ClearConnected
  BY <1>20 DEF ClearConnected
<1>21. CASE UNCHANGED vars
  BY <1>21 DEF vars
<1>22. QED
  BY <1>1, <1>2, <1>6, <1>7, <1>8, <1>9, <1>10, <1>11, <1>12, <1>13, <1>14, <1>16, <1>17,
     <1>18, <1>19, <1>20, <1>21, <1>23, <1>24, <1>3, <1>4, <1>5, <1>15
  DEF Next, Window, Work

\* The invariant holds in every state.
LEMMA Invariance == Spec => []IInv
<1>1. IInv /\ [Next]_vars => IInv'
  BY TypeStep, ShutdownStep DEF IInv
<1>2. QED
  BY InitInv, <1>1, PTL DEF Spec

\* Every variable of the panel and of its worker keeps its type.
THEOREM TypeCorrect == Spec => []TypeOK
<1>1. IInv => TypeOK
  BY DEF IInv
<1>2. QED
  BY <1>1, Invariance, PTL

\* When on_close returns, the worker has run every task, the Shutdown last, and
\* the connection is gone, whatever the user did before.
THEOREM CloseIsOrderly == Spec => []ClosedIsDone
<1>1. IInv => ClosedIsDone
  BY DEF IInv, ShutdownInv, ClosedIsDone
<1>2. QED
  BY <1>1, Invariance, PTL

-----------------------------------------------------------------------------
(* The ears.  The newest percentage the throttle let pass, lastEarPercent, *)
(* is in the window thread's hands, or the last one in the queue, or with  *)
(* the worker, or with the robot; and the slider is there or pending.      *)

NoEars(q) == \A i \in 1..Len(q) : q[i].kind # "ears"

\* The last percentage in q, if there is one, is v.
LastEars(q, v) ==
    \A i \in 1..Len(q) :
        q[i].kind = "ears" /\ (\A j \in i + 1..Len(q) : q[j].kind # "ears") => q[i].to = v

Posting == ui = "post" /\ command.kind = "ears"
Setting == worker = "run" /\ task.kind = "ears"

EarsInv ==
    upset \cap {"ears", "overtaken"} = {} =>
        /\ slider = IF pendingEarPercent = NoPercent THEN lastEarPercent
                                                     ELSE pendingEarPercent
        /\ Posting => command.to = lastEarPercent
        /\ ~Posting => LastEars(tasks, lastEarPercent)
        /\ ~Posting /\ NoEars(tasks) /\ Setting => task.to = lastEarPercent
        /\ ~Posting /\ NoEars(tasks) /\ ~Setting => ears = lastEarPercent

\* What posting a task does to the last percentage in the queue.
LEMMA PostedEars ==
    ASSUME NEW q \in Seq(Task), NEW t \in Task, NEW v
    PROVE  /\ t.kind = "ears" => LastEars(Append(q, t), t.to) /\ ~NoEars(Append(q, t))
           /\ t.kind # "ears" => /\ LastEars(q, v) => LastEars(Append(q, t), v)
                                 /\ NoEars(Append(q, t)) => NoEars(q)
<1> DEFINE a == Append(q, t)
<1>1. /\ Len(q) \in Nat /\ Len(a) = Len(q) + 1 /\ a[Len(q) + 1] = t
      /\ \A i \in 1..Len(q) : a[i] = q[i]
  OBVIOUS
<1> HIDE DEF a
<1>2. ASSUME t.kind = "ears" PROVE LastEars(a, t.to) /\ ~NoEars(a)
  BY <1>1, <1>2 DEF LastEars, NoEars
<1>3. ASSUME t.kind # "ears", LastEars(q, v) PROVE LastEars(a, v)
  <2> SUFFICES ASSUME NEW i \in 1..Len(a), a[i].kind = "ears",
                      \A j \in i + 1..Len(a) : a[j].kind # "ears"
               PROVE  a[i].to = v
    BY DEF LastEars
  <2>1. i \in 1..Len(q)
    BY <1>1, <1>3
  <2>2. \A j \in i + 1..Len(q) : j \in i + 1..Len(a) /\ a[j] = q[j]
    BY <1>1, <2>1
  <2>3. QED
    BY <1>1, <1>3, <2>1, <2>2 DEF LastEars
<1>4. ASSUME NoEars(a) PROVE NoEars(q)
  BY <1>1, <1>4 DEF NoEars
<1>5. QED
  BY <1>2, <1>3, <1>4 DEF a

\* What taking a task does to it.
LEMMA TakenEars ==
    ASSUME NEW q \in Seq(Task), q # <<>>, NEW v, LastEars(q, v)
    PROVE  /\ LastEars(Tail(q), v)
           /\ NoEars(Tail(q)) => \/ Head(q).kind = "ears" /\ Head(q).to = v
                                 \/ Head(q).kind # "ears" /\ NoEars(q)
<1> DEFINE r == Tail(q)
<1>1. /\ Len(q) \in Nat \ {0} /\ Len(r) = Len(q) - 1 /\ Head(q) = q[1]
      /\ \A i \in 1..Len(r) : r[i] = q[i + 1]
  OBVIOUS
<1> HIDE DEF r
<1>2. LastEars(r, v)
  <2> SUFFICES ASSUME NEW i \in 1..Len(r), r[i].kind = "ears",
                      \A j \in i + 1..Len(r) : r[j].kind # "ears"
               PROVE  r[i].to = v
    BY DEF LastEars
  <2>1. i + 1 \in 1..Len(q) /\ r[i] = q[i + 1]
    BY <1>1
  <2>2. \A j \in (i + 1) + 1..Len(q) : j - 1 \in i + 1..Len(r) /\ r[j - 1] = q[j]
    BY <1>1
  <2>3. QED
    BY <2>1, <2>2 DEF LastEars
<1>3. ASSUME NoEars(r) PROVE \A j \in 2..Len(q) : q[j].kind # "ears"
  <2>1. \A j \in 2..Len(q) : j - 1 \in 1..Len(r) /\ r[j - 1] = q[j]
    BY <1>1
  <2>2. QED
    BY <1>3, <2>1 DEF NoEars
<1>4. ASSUME NoEars(r), Head(q).kind = "ears" PROVE Head(q).to = v
  BY <1>1, <1>3, <1>4 DEF LastEars
<1>5. ASSUME NoEars(r), Head(q).kind # "ears" PROVE NoEars(q)
  BY <1>1, <1>3, <1>5 DEF NoEars
<1>6. QED
  BY <1>2, <1>4, <1>5 DEF r

\* No step takes back what went wrong.
LEMMA UpsetGrows ==
    ASSUME [Next]_vars
    PROVE  upset \subseteq upset' /\ (Undisturbed' => Undisturbed)
<1>1. upset \subseteq upset'
  BY DEF Next, Window, Work, vars, uiVars, robotVars, StartMovement, TestMovement,
     CompareMovement, StopMovement, MoveSlider, FlushEarPercent, TimePasses, PressConnect,
     PressDisconnect, Close, PostCommand, CloseReturns, Take, WorkerEnds, RunConnect,
     RunDrive, RunEars, ResetMovement, CleanupStop, CleanupReset, CleanupDrop,
     ClearConnected
<1>2. QED
  BY <1>1 DEF Undisturbed

\* Every step keeps track of the newest percentage.
LEMMA EarsStep ==
    ASSUME TypeOK, EarsInv, [Next]_vars
    PROVE  EarsInv'
<1> SUFFICES ASSUME upset' \cap {"ears", "overtaken"} = {}
             PROVE  EarsInv'
  BY DEF EarsInv
<1> USE DEF At
<1>1. upset \cap {"ears", "overtaken"} = {}
  BY UpsetGrows
<1> DEFINE Last == IF pendingEarPercent = NoPercent THEN lastEarPercent
                                                    ELSE pendingEarPercent
<1>2. /\ slider = Last
      /\ Posting => command.to = lastEarPercent
      /\ ~Posting => LastEars(tasks, lastEarPercent)
      /\ ~Posting /\ NoEars(tasks) /\ Setting => task.to = lastEarPercent
      /\ ~Posting /\ NoEars(tasks) /\ ~Setting => ears = lastEarPercent
  BY <1>1 DEF EarsInv
<1>3. \A k, to : [kind |-> k, to |-> to].kind = k /\ [kind |-> k, to |-> to].to = to
  OBVIOUS
\* A step after which the window posts no percentage, and which leaves the rest.
<1>4. ASSUME ~Posting, ~Posting', UNCHANGED <<tasks, task, earVars, ears>>,
             Setting' <=> Setting
      PROVE  EarsInv'
  BY <1>2, <1>4 DEF EarsInv, earVars
\* A step after which the window posts the newest percentage.
<1>5. ASSUME Posting', command'.to = lastEarPercent',
             slider' = IF pendingEarPercent' = NoPercent THEN lastEarPercent'
                                                         ELSE pendingEarPercent'
      PROVE  EarsInv'
  BY <1>5 DEF EarsInv
\* A step that posts another kind of task.
<1>6. ASSUME NEW t \in Task, t.kind # "ears", Post(t), ~Posting, ~Posting',
             UNCHANGED <<task, worker, earVars, ears>>
      PROVE  EarsInv'
  BY <1>2, <1>6, PostedEars DEF EarsInv, earVars, Post, TypeOK, Setting
<1>7. ASSUME NEW kind \in {"connect", "disconnect", "shutdown"}
      PROVE  Plain(kind) \in Task /\ Plain(kind).kind # "ears"
  BY <1>3 DEF Plain, Task
<1>8. ASSUME NEW m \in Movement, StartMovement(m) PROVE EarsInv'
  BY <1>3, <1>4, <1>8 DEF StartMovement, Command, Event, Posting, Setting, robotVars
<1>31. ASSUME NEW m \in Movement, TestMovement(m) PROVE EarsInv'
  BY <1>3, <1>4, <1>31 DEF TestMovement, Event, Posting, Setting, robotVars
<1>32. CASE CompareMovement
  <2>1. ui = "compare" /\ command.kind = "drive" /\ command' = command
    BY <1>32 DEF CompareMovement, TypeOK
  <2>2. QED
    BY <1>4, <1>32, <2>1 DEF CompareMovement, Posting, Setting, robotVars
<1>9. CASE StopMovement
  BY <1>3, <1>4, <1>9 DEF StopMovement, Command, Event, Posting, Setting, robotVars
<1>10. ASSUME NEW v \in Percent, MoveSlider(v) PROVE EarsInv'
  <2>0. ui = "ready" /\ slider' = v /\ UNCHANGED <<tasks, task, worker, ears>>
    BY <1>10 DEF MoveSlider, Event, robotVars
  <2>1. CASE lastEarPercent = v /\ pendingEarPercent \in {NoPercent, v}
               /\ UNCHANGED <<ui, command, lastEarPercent, sinceEar, pendingEarPercent>>
    BY <1>2, <2>0, <2>1 DEF EarsInv, Posting, Setting
  <2>2. CASE pendingEarPercent' = v /\ UNCHANGED <<ui, command, lastEarPercent, sinceEar>>
    BY <1>2, <2>0, <2>2, PanelAssumption DEF EarsInv, Posting, Setting
  <2>3. CASE SendEarPercent(v) /\ pendingEarPercent \in {NoPercent, v}
               /\ UNCHANGED pendingEarPercent
    BY <1>3, <1>5, <2>0, <2>3 DEF SendEarPercent, Command, Posting
  <2>4. QED
    BY <1>10, <2>1, <2>2, <2>3 DEF MoveSlider, Overtakes
<1>11. CASE FlushEarPercent
  BY <1>2, <1>3, <1>5, <1>11 DEF FlushEarPercent, SendEarPercent, Command, Posting
<1>12. CASE TimePasses
  BY <1>2, <1>12 DEF TimePasses, EarsInv, Posting, Setting, robotVars
<1>13. CASE PressConnect
  BY <1>6, <1>7, <1>13 DEF PressConnect, Event, Posting, robotVars
<1>14. CASE PressDisconnect
  BY <1>6, <1>7, <1>14 DEF PressDisconnect, Event, Posting, robotVars
<1>15. CASE Close
  BY <1>6, <1>7, <1>15 DEF Close, Posting, robotVars
<1>16. CASE PostCommand
  <2>1. command \in Task /\ ~Posting'
    BY <1>16 DEF PostCommand, Posting, TypeOK, Task
  <2>2. CASE ~connected
    <3>1. command.kind # "ears" /\ UNCHANGED <<tasks, task, worker, earVars, ears>>
      BY <1>16, <2>2 DEF PostCommand, robotVars
    <3>2. QED
      BY <1>4, <2>1, <3>1 DEF Posting, Setting
  <2>3. CASE connected /\ command.kind # "ears"
    BY <1>6, <1>16, <2>1, <2>3 DEF PostCommand, Posting, robotVars
  <2>4. CASE connected /\ command.kind = "ears"
    <3>1. command.to = lastEarPercent /\ Post(command) /\ UNCHANGED <<earVars>>
      BY <1>2, <1>16, <2>4 DEF PostCommand, Posting
    <3>2. LastEars(tasks', lastEarPercent) /\ ~NoEars(tasks')
      BY <2>1, <2>4, <3>1, PostedEars DEF Post, TypeOK
    <3>3. QED
      BY <1>2, <2>1, <3>1, <3>2 DEF EarsInv, earVars
  <2>5. QED
    BY <2>2, <2>3, <2>4
<1>17. CASE CloseReturns
  BY <1>4, <1>17 DEF CloseReturns, Posting, Setting, robotVars
<1>18. CASE Take
  <2>1. tasks \in Seq(Task) /\ ~Setting /\ UNCHANGED <<ui, command, earVars, ears>>
    BY <1>18 DEF Take, TypeOK, Setting, uiVars, robotVars
  <2>2. Setting' <=> task'.kind = "ears"
    BY <1>18 DEF Take, Setting, FirstStep
  <2>3. CASE Posting
    BY <1>2, <2>1, <2>3 DEF EarsInv, Posting, earVars
  <2>4. CASE ~Posting
    <3>1. /\ LastEars(tasks', lastEarPercent)
          /\ NoEars(tasks') => \/ task'.kind = "ears" /\ task'.to = lastEarPercent
                               \/ task'.kind # "ears" /\ NoEars(tasks)
      BY <1>2, <1>18, <2>1, <2>4, TakenEars DEF Take
    <3>2. QED
      BY <1>2, <2>1, <2>2, <2>4, <3>1 DEF EarsInv, Posting, earVars
  <2>5. QED
    BY <2>3, <2>4
\* The other steps of the worker leave the window, the queue and the task alone.
<1>19. ASSUME UNCHANGED <<tasks, task, ears, uiVars>>, Setting' <=> Setting
       PROVE  EarsInv'
  BY <1>2, <1>19 DEF EarsInv, Posting, uiVars, earVars
<1>20. CASE WorkerEnds
  BY <1>19, <1>20 DEF WorkerEnds, Setting, robotVars
<1>21. CASE RunConnect
  BY <1>19, <1>21 DEF RunConnect, Setting
<1>22. CASE RunDrive
  BY <1>19, <1>22 DEF RunDrive, Setting
<1>23. CASE RunEars
  <2>1. Setting /\ ~Setting' /\ ears' = task.to /\ UNCHANGED <<tasks, uiVars>>
    BY <1>23 DEF RunEars, Setting
  <2>2. QED
    BY <1>2, <2>1 DEF EarsInv, Posting, uiVars, earVars
<1>24. CASE ResetMovement
  BY <1>19, <1>24 DEF ResetMovement, Setting, robotVars
<1>25. CASE CleanupStop
  BY <1>19, <1>25 DEF CleanupStop, Setting
<1>26. CASE CleanupReset
  BY <1>19, <1>26 DEF CleanupReset, Setting, robotVars
<1>27. CASE CleanupDrop
  BY <1>19, <1>27 DEF CleanupDrop, Setting
<1>28. CASE ClearConnected
  BY <1>19, <1>28 DEF ClearConnected, Setting, robotVars
<1>29. CASE UNCHANGED vars
  BY <1>19, <1>29 DEF vars, Setting, robotVars
<1>30. QED
  BY <1>8, <1>9, <1>10, <1>11, <1>12, <1>13, <1>14, <1>15, <1>16, <1>17, <1>18, <1>20,
     <1>21, <1>22, <1>23, <1>24, <1>25, <1>26, <1>27, <1>28, <1>29, <1>31, <1>32
  DEF Next, Window, Work

\* The throttle loses no last position: whatever the user and both threads do, and
\* at any speed, quiet ears are where the slider is, unless a percentage was refused
\* or failed or a pending one overtaken.
THEOREM EarsSettle == Spec => []EarsFollowSlider
<1>1. Init => EarsInv
  BY DEF Init, EarsInv, Posting, Setting, LastEars, NoEars, Plain
<1>2. TypeOK /\ EarsInv /\ [Next]_vars => EarsInv'
  BY EarsStep
<1>3. EarsInv => EarsFollowSlider
  BY DEF EarsInv, EarsFollowSlider, Quiet, Posting, Setting, NoEars
<1>4. QED
  BY <1>1, <1>2, <1>3, TypeCorrect, PTL DEF Spec

-----------------------------------------------------------------------------
(* The movement.  Once a Disconnect has run, or is bound to run, in front  *)
(* of a movement, that movement will fail: it is lost, and "drive" will be *)
(* in upset before all is quiet again.  As long as nothing is lost, the    *)
(* last movement posted is the one the panel shows, and what comes before  *)
(* it in the queue is with the worker or with the robot.                   *)

Ends(t) == t.kind \in {"disconnect", "shutdown"}
EndingQueued == \E i \in 1..Len(tasks) : Ends(tasks[i])
Ending == worker \in {"reset", "send_stop", "reset_again", "drop", "flag"}

Connecting == worker = "run" /\ task.kind = "connect"
Driving == worker = "run" /\ task.kind = "drive"
PostingDrive == ui = "post" /\ command.kind = "drive"

NoneOf(kind, q) == \A i \in 1..Len(q) : q[i].kind # kind

\* A movement in q with no Connect before it.
Stranded(q) ==
    \E j \in 1..Len(q) : q[j].kind = "drive" /\ \A i \in 1..j - 1 : q[i].kind # "connect"

\* No Connect follows a Disconnect or the Shutdown.
EndsLast(q) ==
    \A i, j \in 1..Len(q) : i < j /\ Ends(q[i]) => q[j].kind # "connect"

\* A movement that cannot succeed any more.
Lost ==
    \/ PostingDrive /\ (~connected \/ Ending) /\ ~Connecting /\ NoneOf("connect", tasks)
    \/ Driving /\ ~ble
    \/ (~ble \/ Ending) /\ ~Connecting /\ Stranded(tasks)

\* The movement that the robot is in, or is about to be told.
Bound == IF Driving THEN task.to ELSE motion

\* The movement in force when the first n - 1 tasks of q are done is v.
InForce(q, base, n, v) ==
    /\ \A i \in 1..n - 1 :
         q[i].kind = "drive" /\ (\A j \in i + 1..n - 1 : q[j].kind # "drive") => q[i].to = v
    /\ (\A i \in 1..n - 1 : q[i].kind # "drive") => base = v

\* What ends the connection, and what may follow it.
OrderInv ==
    /\ worker = "flag" => ~ble
    /\ Undisturbed =>
         /\ EndsLast(tasks)
         /\ Ending => NoneOf("connect", tasks)
         /\ ~stop => (Ending => task.kind = "disconnect")
                     /\ NoneOf("shutdown", tasks)

\* The last movement posted is the one the panel shows.
PanelInForce ==
    ~EndingQueued /\ ~Ending =>
        /\ PostingDrive => command.to = activeMovement
        /\ ~PostingDrive => InForce(tasks, Bound, Len(tasks) + 1, activeMovement)

\* A robot that is being connected does not move, and will not when its Connect
\* is taken.
ConnectsStill ==
    /\ Connecting => motion = Still
    /\ \A i \in 1..Len(tasks) :
         tasks[i].kind = "connect" => InForce(tasks, Bound, i, Still)

DriveInv ==
    Undisturbed /\ ~Lost =>
        /\ ~ble => motion = Still
        /\ worker \in {"reset_again", "drop", "flag"} => motion = Still
        /\ worker \in {"drop", "flag"} => activeMovement = Still
        /\ ConnectsStill
        /\ PanelInForce

\* What posting a task does to the movement in force.
LEMMA PostedDrive ==
    ASSUME NEW q \in Seq(Task), NEW t \in Task, NEW base, NEW v
    PROVE  /\ \A n \in 1..Len(q) + 1 :
                InForce(q, base, n, v) => InForce(Append(q, t), base, n, v)
           /\ t.kind = "drive" => InForce(Append(q, t), base, Len(Append(q, t)) + 1, t.to)
           /\ t.kind # "drive" /\ InForce(q, base, Len(q) + 1, v)
                => InForce(Append(q, t), base, Len(Append(q, t)) + 1, v)
<1> DEFINE a == Append(q, t)
<1>1. /\ Len(q) \in Nat /\ Len(a) = Len(q) + 1 /\ a[Len(q) + 1] = t
      /\ \A i \in 1..Len(q) : a[i] = q[i]
  OBVIOUS
<1> HIDE DEF a
<1>2. ASSUME NEW n \in 1..Len(q) + 1, InForce(q, base, n, v) PROVE InForce(a, base, n, v)
  <2>1. \A i \in 1..n - 1 : a[i] = q[i] /\ \A j \in i + 1..n - 1 : a[j] = q[j]
    BY <1>1
  <2>2. QED
    BY <1>2, <2>1 DEF InForce
<1>3. ASSUME t.kind = "drive" PROVE InForce(a, base, Len(a) + 1, t.to)
  <2>1. Len(a) \in 1..Len(a) + 1 - 1 /\ a[Len(a)] = t
    BY <1>1
  <2>2. ASSUME NEW i \in 1..Len(a) + 1 - 1, a[i].kind = "drive",
               \A j \in i + 1..Len(a) + 1 - 1 : a[j].kind # "drive"
        PROVE  a[i].to = t.to
    BY <1>1, <1>3, <2>1, <2>2
  <2>3. QED
    BY <1>3, <2>1, <2>2 DEF InForce
<1>4. ASSUME t.kind # "drive", InForce(q, base, Len(q) + 1, v)
      PROVE  InForce(a, base, Len(a) + 1, v)
  <2>1. ASSUME NEW i \in 1..Len(a) + 1 - 1, a[i].kind = "drive",
               \A j \in i + 1..Len(a) + 1 - 1 : a[j].kind # "drive"
        PROVE  a[i].to = v
    <3>1. i \in 1..Len(q) + 1 - 1 /\ a[i] = q[i]
      BY <1>1, <1>4, <2>1
    <3>2. \A j \in i + 1..Len(q) + 1 - 1 : j \in i + 1..Len(a) + 1 - 1 /\ a[j] = q[j]
      BY <1>1, <3>1
    <3>3. QED
      BY <1>4, <2>1, <3>1, <3>2 DEF InForce
  <2>2. ASSUME \A i \in 1..Len(a) + 1 - 1 : a[i].kind # "drive" PROVE base = v
    <3>1. \A i \in 1..Len(q) + 1 - 1 : i \in 1..Len(a) + 1 - 1 /\ a[i] = q[i]
      BY <1>1
    <3>2. QED
      BY <1>4, <2>2, <3>1 DEF InForce
  <2>3. QED
    BY <2>1, <2>2 DEF InForce
<1>5. QED
  BY <1>2, <1>3, <1>4 DEF a

\* What taking a task does to it: a movement that is taken is what the robot is
\* about to be told.
LEMMA TakenDrive ==
    ASSUME NEW q \in Seq(Task), q # <<>>, NEW base, NEW v, NEW n \in 1..Len(q),
           InForce(q, base, n + 1, v)
    PROVE  InForce(Tail(q), IF Head(q).kind = "drive" THEN Head(q).to ELSE base, n, v)
<1> DEFINE r == Tail(q)
           b == IF Head(q).kind = "drive" THEN Head(q).to ELSE base
<1>1. /\ Len(q) \in Nat \ {0} /\ Len(r) = Len(q) - 1 /\ Head(q) = q[1]
      /\ \A i \in 1..Len(r) : r[i] = q[i + 1]
  OBVIOUS
<1> HIDE DEF r
<1>2. \A i \in 1..n - 1 : i + 1 \in 2..n + 1 - 1 /\ r[i] = q[i + 1]
  BY <1>1
<1>3. \A i \in 2..n + 1 - 1 : i - 1 \in 1..n - 1 /\ r[i - 1] = q[i]
  BY <1>1
<1>4. ASSUME NEW i \in 1..n - 1, r[i].kind = "drive",
             \A j \in i + 1..n - 1 : r[j].kind # "drive"
      PROVE  r[i].to = v
  <2>1. i + 1 \in 1..n + 1 - 1 /\ r[i] = q[i + 1]
    BY <1>2
  <2>2. \A j \in (i + 1) + 1..n + 1 - 1 : j - 1 \in i + 1..n - 1 /\ r[j - 1] = q[j]
    BY <1>3
  <2>3. \A j \in (i + 1) + 1..n + 1 - 1 : q[j].kind # "drive"
    BY <1>4, <2>2
  <2>4. q[i + 1].kind = "drive"
    BY <1>4, <2>1
  <2>5. QED
    BY <2>1, <2>3, <2>4 DEF InForce
<1>5. ASSUME \A i \in 1..n - 1 : r[i].kind # "drive" PROVE b = v
  <2>1. \A i \in 2..n + 1 - 1 : q[i].kind # "drive"
    BY <1>3, <1>5
  <2>2. CASE q[1].kind = "drive"
    BY <1>1, <2>1, <2>2 DEF InForce
  <2>3. CASE q[1].kind # "drive"
    <3>1. \A i \in 1..n + 1 - 1 : i = 1 \/ i \in 2..n + 1 - 1
      OBVIOUS
    <3>2. \A i \in 1..n + 1 - 1 : q[i].kind # "drive"
      BY <2>1, <2>3, <3>1
    <3>3. QED
      BY <1>1, <2>3, <3>2 DEF InForce
  <2>4. QED
    BY <2>2, <2>3
<1>6. QED
  BY <1>4, <1>5 DEF InForce, r

\* What posting a task does to the order of the queue.
LEMMA PostedOrder ==
    ASSUME NEW q \in Seq(Task), NEW t \in Task
    PROVE  /\ \A kind : NoneOf(kind, q) /\ t.kind # kind => NoneOf(kind, Append(q, t))
           /\ EndsLast(q) /\ t.kind # "connect" => EndsLast(Append(q, t))
           /\ EndsLast(q) /\ (\A i \in 1..Len(q) : ~Ends(q[i])) => EndsLast(Append(q, t))
           /\ Stranded(q) => Stranded(Append(q, t))
           /\ NoneOf("connect", q) /\ t.kind = "drive" => Stranded(Append(q, t))
<1> DEFINE a == Append(q, t)
<1>1. /\ Len(q) \in Nat /\ Len(a) = Len(q) + 1 /\ a[Len(q) + 1] = t
      /\ \A i \in 1..Len(q) : a[i] = q[i]
  OBVIOUS
<1> HIDE DEF a
<1>2. \A i \in 1..Len(a) : i \in 1..Len(q) \/ i = Len(q) + 1
  BY <1>1
<1>3. ASSUME NEW kind, NoneOf(kind, q), t.kind # kind PROVE NoneOf(kind, a)
  BY <1>1, <1>2, <1>3 DEF NoneOf
<1>4. ASSUME EndsLast(q), t.kind # "connect" \/ \A i \in 1..Len(q) : ~Ends(q[i])
      PROVE  EndsLast(a)
  <2> SUFFICES ASSUME NEW i \in 1..Len(a), NEW j \in 1..Len(a), i < j, Ends(a[i])
               PROVE  a[j].kind # "connect"
    BY DEF EndsLast
  <2>1. i \in 1..Len(q) /\ a[i] = q[i]
    BY <1>1
  <2>2. CASE j \in 1..Len(q)
    BY <1>1, <1>4, <2>1, <2>2 DEF EndsLast
  <2>3. CASE j = Len(q) + 1
    BY <1>1, <1>4, <2>1, <2>3
  <2>4. QED
    BY <1>2, <2>2, <2>3
<1>5. ASSUME Stranded(q) PROVE Stranded(a)
  <2>1. PICK j \in 1..Len(q) :
          q[j].kind = "drive" /\ \A i \in 1..j - 1 : q[i].kind # "connect"
    BY <1>5 DEF Stranded
  <2>2. j \in 1..Len(a) /\ a[j] = q[j] /\ \A i \in 1..j - 1 : a[i] = q[i]
    BY <1>1
  <2>3. QED
    BY <2>1, <2>2 DEF Stranded
<1>6. ASSUME NoneOf("connect", q), t.kind = "drive" PROVE Stranded(a)
  <2>1. Len(a) \in 1..Len(a) /\ a[Len(a)].kind = "drive"
    BY <1>1, <1>6
  <2>2. \A i \in 1..Len(a) - 1 : a[i].kind # "connect"
    BY <1>1, <1>6 DEF NoneOf
  <2>3. QED
    BY <2>1, <2>2 DEF Stranded
<1>7. QED
  BY <1>3, <1>4, <1>5, <1>6 DEF a

\* What taking a task does to it.
LEMMA TakenOrder ==
    ASSUME NEW q \in Seq(Task), q # <<>>
    PROVE  /\ \A kind : NoneOf(kind, q) => Head(q).kind # kind /\ NoneOf(kind, Tail(q))
           /\ EndsLast(q) => EndsLast(Tail(q))
           /\ EndsLast(q) /\ Ends(Head(q)) => NoneOf("connect", Tail(q))
           /\ Stranded(q) /\ Head(q).kind # "drive"
                => Head(q).kind # "connect" /\ Stranded(Tail(q))
<1> DEFINE r == Tail(q)
<1>1. /\ Len(q) \in Nat \ {0} /\ Len(r) = Len(q) - 1 /\ Head(q) = q[1]
      /\ \A i \in 1..Len(r) : r[i] = q[i + 1]
  OBVIOUS
<1> HIDE DEF r
<1>2. \A i \in 1..Len(r) : i + 1 \in 1..Len(q) /\ 1 < i + 1 /\ r[i] = q[i + 1]
  BY <1>1
<1>3. 1 \in 1..Len(q)
  BY <1>1
<1>4. ASSUME NEW kind, NoneOf(kind, q) PROVE Head(q).kind # kind /\ NoneOf(kind, r)
  BY <1>1, <1>2, <1>3, <1>4 DEF NoneOf
<1>5. ASSUME EndsLast(q) PROVE EndsLast(r)
  <2> SUFFICES ASSUME NEW i \in 1..Len(r), NEW j \in 1..Len(r), i < j, Ends(r[i])
               PROVE  r[j].kind # "connect"
    BY DEF EndsLast
  <2>1. i + 1 < j + 1
    OBVIOUS
  <2>2. QED
    BY <1>2, <1>5, <2>1 DEF EndsLast
<1>6. ASSUME EndsLast(q), Ends(Head(q)) PROVE NoneOf("connect", r)
  BY <1>1, <1>2, <1>3, <1>6 DEF EndsLast, NoneOf
<1>7. ASSUME Stranded(q), Head(q).kind # "drive"
      PROVE  Head(q).kind # "connect" /\ Stranded(r)
  <2>1. PICK j \in 1..Len(q) :
          q[j].kind = "drive" /\ \A i \in 1..j - 1 : q[i].kind # "connect"
    BY <1>7 DEF Stranded
  <2>2. j # 1 /\ 1 \in 1..j - 1
    BY <1>1, <1>7, <2>1
  <2>3. j - 1 \in 1..Len(r) /\ r[j - 1] = q[j]
    BY <1>1, <2>2
  <2>4. \A i \in 1..(j - 1) - 1 : i + 1 \in 1..j - 1 /\ r[i] = q[i + 1]
    BY <1>1, <2>3
  <2>5. QED
    BY <1>1, <2>1, <2>2, <2>3, <2>4 DEF Stranded
<1>8. QED
  BY <1>4, <1>5, <1>6, <1>7 DEF r

\* The fields of a task without a value.
LEMMA PlainTask ==
    ASSUME NEW kind \in {"connect", "disconnect", "shutdown"}
    PROVE  /\ Plain(kind) \in Task /\ Plain(kind).kind = kind /\ Plain(kind).kind # "drive"
           /\ kind # "connect" => Ends(Plain(kind))
BY DEF Plain, Task, Ends

\* Every step keeps the order of the queue, unless Connect is pressed before a
\* Disconnect is done.
LEMMA OrderStep ==
    ASSUME TypeOK, ShutdownInv, OrderInv, [Next]_vars
    PROVE  OrderInv'
<1> USE DEF OrderInv, uiVars, robotVars, At
<1>1. Undisturbed' => Undisturbed
  BY UpsetGrows
<1>2. tasks \in Seq(Task)
  BY DEF TypeOK
\* The steps that leave the queue and the worker alone.
<1>3. ASSUME UNCHANGED <<tasks, stop, task, worker, ble>> PROVE OrderInv'
  BY <1>1, <1>3 DEF Ending
<1>4. ASSUME NEW m \in Movement, StartMovement(m) PROVE OrderInv'
  BY <1>3, <1>4 DEF StartMovement
<1>16. ASSUME NEW m \in Movement, TestMovement(m) PROVE OrderInv'
  BY <1>3, <1>16 DEF TestMovement
<1>17. CASE CompareMovement
  BY <1>3, <1>17 DEF CompareMovement
<1>5. CASE StopMovement
  BY <1>3, <1>5 DEF StopMovement
<1>6. ASSUME NEW v \in Percent, MoveSlider(v) PROVE OrderInv'
  BY <1>3, <1>6 DEF MoveSlider
<1>7. CASE FlushEarPercent \/ TimePasses \/ CloseReturns \/ UNCHANGED vars
  BY <1>3, <1>7 DEF FlushEarPercent, TimePasses, CloseReturns, vars
\* The steps that post a task.
<1>8. CASE PressConnect
  <2> SUFFICES ASSUME Undisturbed' PROVE OrderInv'
    BY <1>8 DEF PressConnect, Ending
  <2>1. ~Disconnecting /\ ~stop /\ tasks' = Append(tasks, Plain("connect"))
        /\ UNCHANGED <<stop, task, worker, ble>>
    BY <1>8 DEF PressConnect, Event, Post, ShutdownInv, Undisturbed
  <2>2. ~Ending
    BY <1>1, <2>1 DEF Disconnecting, Ending
  <2>3. \A i \in 1..Len(tasks) : ~Ends(tasks[i])
    BY <1>1, <1>2, <2>1 DEF Disconnecting, Ends, NoneOf
  <2>4. EndsLast(tasks') /\ NoneOf("shutdown", tasks')
    BY <1>1, <1>2, <2>1, <2>3, PlainTask, PostedOrder
  <2>5. QED
    BY <2>1, <2>2, <2>4 DEF Ending
<1>9. CASE PressDisconnect
  <2>1. tasks' = Append(tasks, Plain("disconnect")) /\ UNCHANGED <<stop, task, worker, ble>>
    BY <1>9 DEF PressDisconnect, Post
  <2>2. /\ EndsLast(tasks) => EndsLast(tasks')
        /\ NoneOf("connect", tasks) => NoneOf("connect", tasks')
        /\ NoneOf("shutdown", tasks) => NoneOf("shutdown", tasks')
    BY <1>2, <2>1, PlainTask, PostedOrder
  <2>3. QED
    BY <1>1, <2>1, <2>2 DEF Ending
<1>10. CASE Close
  <2>1. tasks' = Append(tasks, Plain("shutdown")) /\ stop' /\ UNCHANGED <<task, worker, ble>>
    BY <1>10 DEF Close, Post
  <2>2. /\ EndsLast(tasks) => EndsLast(tasks')
        /\ NoneOf("connect", tasks) => NoneOf("connect", tasks')
    BY <1>2, <2>1, PlainTask, PostedOrder
  <2>3. QED
    BY <1>1, <2>1, <2>2 DEF Ending
<1>11. CASE PostCommand
  <2>1. command \in Task /\ command.kind \in {"drive", "ears"}
    BY DEF TypeOK, Task, Order
  <2>2. CASE tasks' = tasks
    BY <1>3, <1>11, <2>2 DEF PostCommand
  <2>3. CASE tasks' = Append(tasks, command)
    <3>1. /\ EndsLast(tasks) => EndsLast(tasks')
          /\ NoneOf("connect", tasks) => NoneOf("connect", tasks')
          /\ NoneOf("shutdown", tasks) => NoneOf("shutdown", tasks')
      BY <1>2, <2>1, <2>3, PostedOrder
    <3>2. UNCHANGED <<stop, task, worker, ble>>
      BY <1>11 DEF PostCommand
    <3>3. QED
      BY <1>1, <3>1, <3>2 DEF Ending
  <2>4. QED
    BY <1>11, <2>2, <2>3 DEF PostCommand, Post
\* The worker.
<1>12. CASE Take
  <2>1. /\ tasks # <<>> /\ task' = Head(tasks) /\ tasks' = Tail(tasks)
        /\ worker' = FirstStep(task'.kind) /\ UNCHANGED <<stop, ble>>
    BY <1>12 DEF Take
  <2>2. worker' # "flag" /\ (Ending' => Ends(task'))
    BY <2>1 DEF FirstStep, Ending, Ends
  <2>3. /\ EndsLast(tasks) => EndsLast(tasks')
        /\ EndsLast(tasks) /\ Ends(task') => NoneOf("connect", tasks')
        /\ NoneOf("shutdown", tasks) => NoneOf("shutdown", tasks') /\ task'.kind # "shutdown"
    BY <1>2, <2>1, TakenOrder
  <2>4. QED
    BY <1>1, <2>1, <2>2, <2>3 DEF Ends
<1>13. CASE WorkerEnds \/ RunConnect \/ RunDrive \/ RunEars
  <2>1. worker' \in {"idle", "ended"} /\ UNCHANGED <<tasks, stop>>
    BY <1>13 DEF WorkerEnds, RunConnect, RunDrive, RunEars
  <2>2. QED
    BY <1>1, <2>1 DEF Ending
<1>14. CASE ResetMovement \/ CleanupStop \/ CleanupReset \/ CleanupDrop \/ ClearConnected
  <2>1. Ending /\ UNCHANGED <<tasks, stop, task>> /\ (worker' = "flag" => ~ble')
    BY <1>14 DEF ResetMovement, CleanupStop, CleanupReset, CleanupDrop, ClearConnected, Ending
  <2>2. QED
    BY <1>1, <2>1
<1>15. QED
  BY <1>4, <1>5, <1>6, <1>7, <1>8, <1>9, <1>10, <1>11, <1>12, <1>13, <1>14, <1>16, <1>17
  DEF Next, Window, Work

\* What is lost stays lost until it has failed.
LEMMA LostStep ==
    ASSUME TypeOK, ShutdownInv, OrderInv, Lost, Undisturbed', [Next]_vars
    PROVE  Lost'
<1> USE DEF uiVars, robotVars, At
<1>1. Undisturbed
  BY UpsetGrows
<1>2. tasks \in Seq(Task)
  BY DEF TypeOK
\* The steps that leave the worker and the connection alone; the queue may grow.
<1>3. ASSUME UNCHANGED <<task, worker, ble, connected>>, PostingDrive => PostingDrive',
             tasks' = tasks \/ \E t \in Task : t.kind # "connect" /\ tasks' = Append(tasks, t)
      PROVE  Lost'
  <2>1. /\ NoneOf("connect", tasks) => NoneOf("connect", tasks')
        /\ Stranded(tasks) => Stranded(tasks')
    BY <1>2, <1>3, PostedOrder
  <2>2. QED
    BY <1>3, <2>1 DEF Lost, Driving, Connecting, Ending
<1>4. ASSUME NEW m \in Movement, StartMovement(m) PROVE Lost'
  BY <1>3, <1>4 DEF StartMovement, Event, PostingDrive
<1>21. ASSUME NEW m \in Movement, TestMovement(m) PROVE Lost'
  BY <1>3, <1>21 DEF TestMovement, Event, PostingDrive
<1>22. CASE CompareMovement
  BY <1>3, <1>22 DEF CompareMovement, PostingDrive
<1>5. CASE StopMovement
  BY <1>3, <1>5 DEF StopMovement, Event, PostingDrive
<1>6. ASSUME NEW v \in Percent, MoveSlider(v) PROVE Lost'
  BY <1>3, <1>6 DEF MoveSlider, Event, PostingDrive
<1>7. CASE FlushEarPercent \/ TimePasses \/ CloseReturns \/ UNCHANGED vars
  BY <1>3, <1>7 DEF FlushEarPercent, TimePasses, CloseReturns, vars, PostingDrive
<1>8. CASE PressConnect
  <2>1. ~PostingDrive /\ tasks' = Append(tasks, Plain("connect"))
        /\ UNCHANGED <<task, worker, ble>>
    BY <1>8 DEF PressConnect, Event, Post, PostingDrive
  <2>2. Stranded(tasks) => Stranded(tasks')
    BY <1>2, <2>1, PlainTask, PostedOrder
  <2>3. QED
    BY <2>1, <2>2 DEF Lost, Driving, Connecting, Ending
<1>9. CASE PressDisconnect
  BY <1>3, <1>9, PlainTask DEF PressDisconnect, Event, Post, PostingDrive
<1>10. CASE Close
  BY <1>3, <1>10, PlainTask DEF Close, Post, PostingDrive
<1>11. CASE PostCommand
  <2>1. command \in Task /\ command.kind # "connect"
    BY DEF TypeOK, Task, Order
  <2>2. CASE PostingDrive
    <3>1. connected /\ tasks' = Append(tasks, command) /\ UNCHANGED <<task, worker, ble>>
      BY <1>1, <1>11, <2>2 DEF PostCommand, Post, PostingDrive, Undisturbed
    <3>2. /\ Stranded(tasks) => Stranded(tasks')
          /\ NoneOf("connect", tasks) => Stranded(tasks')
      BY <1>2, <2>1, <2>2, <3>1, PostedOrder DEF PostingDrive
    <3>3. QED
      BY <3>1, <3>2 DEF Lost, Driving, Connecting, Ending
  <2>3. CASE ~PostingDrive
    BY <1>3, <1>11, <2>1, <2>3 DEF PostCommand, Post
  <2>4. QED
    BY <2>2, <2>3
<1>12. CASE Take
  <2>1. /\ worker = "idle" /\ tasks # <<>> /\ task' = Head(tasks) /\ tasks' = Tail(tasks)
        /\ worker' = FirstStep(task'.kind) /\ UNCHANGED <<ui, command, connected, ble>>
    BY <1>12 DEF Take
  <2>2. NoneOf("connect", tasks) => NoneOf("connect", tasks') /\ task'.kind # "connect"
    BY <1>2, <2>1, TakenOrder
  <2>3. Stranded(tasks) /\ task'.kind # "drive" => task'.kind # "connect" /\ Stranded(tasks')
    BY <1>2, <2>1, TakenOrder
  <2>4. task'.kind = "drive" => worker' = "run"
    BY <2>1 DEF FirstStep
  <2>5. QED
    BY <2>1, <2>2, <2>3, <2>4 DEF Lost, Driving, Connecting, Ending, PostingDrive
<1>13. CASE WorkerEnds
  BY <1>13 DEF WorkerEnds, Lost, Driving, Connecting, Ending, PostingDrive, Stranded
<1>14. CASE RunConnect
  BY <1>14 DEF RunConnect, Lost, Driving, Connecting, Ending
<1>15. CASE RunDrive
  BY <1>1, <1>15 DEF RunDrive, Lost, Driving, Connecting, Ending, PostingDrive, Undisturbed
<1>16. CASE RunEars
  BY <1>16 DEF RunEars, Lost, Driving, Connecting, Ending, PostingDrive
<1>17. CASE ResetMovement \/ CleanupStop \/ CleanupReset
  <2>1. /\ Ending /\ Ending' /\ ~Connecting' /\ UNCHANGED <<ui, command, connected, ble, tasks>>
        /\ ~Driving
    BY <1>17 DEF ResetMovement, CleanupStop, CleanupReset, Ending, Connecting, Driving
  <2>2. QED
    BY <2>1 DEF Lost, PostingDrive
<1>18. CASE CleanupDrop
  <2>1. /\ Ending /\ ~ble' /\ ~Connecting' /\ UNCHANGED <<ui, command, connected, tasks, task>>
        /\ ~Driving /\ (task.kind = "disconnect" => Ending')
    BY <1>18 DEF CleanupDrop, Ending, Connecting, Driving
  <2>2. PostingDrive => task.kind = "disconnect"
    BY <1>1, <2>1 DEF PostingDrive, OrderInv, ShutdownInv
  <2>3. QED
    BY <2>1, <2>2 DEF Lost, PostingDrive
<1>19. CASE ClearConnected
  BY <1>19 DEF ClearConnected, OrderInv, Lost, PostingDrive, Connecting, Driving
<1>20. QED
  BY <1>4, <1>5, <1>6, <1>7, <1>8, <1>9, <1>10, <1>11, <1>12, <1>13, <1>14, <1>15, <1>16,
     <1>17, <1>18, <1>19, <1>21, <1>22 DEF Next, Window, Work

\* Every step keeps the last movement posted where it belongs, unless it is lost.
LEMMA DriveStep ==
    ASSUME TypeOK, ShutdownInv, OrderInv, DriveInv, [Next]_vars
    PROVE  DriveInv'
<1> SUFFICES ASSUME Undisturbed', ~Lost'
             PROVE  DriveInv'
  BY DEF DriveInv
<1> USE DEF uiVars, robotVars, At
<1>1. Undisturbed /\ ~Lost
  BY UpsetGrows, LostStep
<1>2. /\ ~ble => motion = Still
      /\ worker \in {"reset_again", "drop", "flag"} => motion = Still
      /\ worker \in {"drop", "flag"} => activeMovement = Still
      /\ ConnectsStill
      /\ PanelInForce
  BY <1>1 DEF DriveInv
<1>3. /\ Ending => NoneOf("connect", tasks)
      /\ tasks \in Seq(Task) /\ Len(tasks) \in Nat
  BY <1>1 DEF OrderInv, TypeOK
\* The window's steps that post nothing and leave the movement alone.
<1>4. ASSUME UNCHANGED <<tasks, task, worker, ble, motion, activeMovement>>,
             UNCHANGED <<ui, command>> \/ (~PostingDrive /\ ~PostingDrive')
      PROVE  DriveInv'
  BY <1>2, <1>4 DEF DriveInv, ConnectsStill, PanelInForce, EndingQueued, Ending, Connecting,
     Bound, Driving, PostingDrive
\* The user starts or stops a movement.
<1>5. ASSUME UNCHANGED <<tasks, task, worker, ble, motion>>, PostingDrive',
             command'.to = activeMovement'
      PROVE  DriveInv'
  <2>1. ~Ending
    BY <1>3, <1>5 DEF Lost, Ending, Connecting
  <2>2. ConnectsStill'
    BY <1>2, <1>5 DEF ConnectsStill, Connecting, Bound, Driving
  <2>3. QED
    BY <1>2, <1>5, <2>1, <2>2 DEF DriveInv, PanelInForce, Ending
<1>6. \A k, to : [kind |-> k, to |-> to].kind = k /\ [kind |-> k, to |-> to].to = to
  OBVIOUS
<1>7. ASSUME NEW m \in Movement, StartMovement(m) PROVE DriveInv'
  BY <1>5, <1>6, <1>7 DEF StartMovement, Command, PostingDrive
<1>31. ASSUME NEW m \in Movement, TestMovement(m) PROVE DriveInv'
  BY <1>4, <1>31 DEF TestMovement, Event, PostingDrive
<1>32. CASE CompareMovement
  <2>1. ui = "compare" /\ command.kind = "drive" /\ command' = command
    BY <1>32 DEF CompareMovement, TypeOK
  <2>2. QED
    BY <1>4, <1>5, <1>32, <2>1 DEF CompareMovement, PostingDrive
<1>8. CASE StopMovement
  BY <1>5, <1>6, <1>8 DEF StopMovement, Command, PostingDrive
<1>9. ASSUME NEW v \in Percent, MoveSlider(v) PROVE DriveInv'
  BY <1>4, <1>6, <1>9 DEF MoveSlider, SendEarPercent, Command, Event, PostingDrive
<1>10. CASE FlushEarPercent \/ TimePasses \/ CloseReturns \/ UNCHANGED vars
  BY <1>4, <1>6, <1>10 DEF FlushEarPercent, SendEarPercent, Command, TimePasses, CloseReturns,
     vars, PostingDrive
\* A task is posted: what waits before it stays in force.
<1>11. ASSUME NEW t \in Task, tasks' = Append(tasks, t),
              UNCHANGED <<task, worker, ble, motion, activeMovement>>,
              t.kind = "connect" => InForce(tasks, Bound, Len(tasks) + 1, Still)
       PROVE  ConnectsStill' /\ (EndingQueued \/ Ends(t) => EndingQueued')
  <2>1. /\ Len(tasks') = Len(tasks) + 1 /\ tasks'[Len(tasks) + 1] = t
        /\ \A i \in 1..Len(tasks) : tasks'[i] = tasks[i]
    BY <1>3, <1>11
  <2>2. Bound' = Bound /\ (Connecting' => Connecting)
    BY <1>11 DEF Bound, Driving, Connecting
  <2>3. ASSUME NEW i \in 1..Len(tasks'), tasks'[i].kind = "connect"
        PROVE  InForce(tasks', Bound, i, Still)
    <3>1. i \in 1..Len(tasks) + 1 /\ InForce(tasks, Bound, i, Still)
      BY <1>2, <1>3, <1>11, <2>1, <2>3 DEF ConnectsStill
    <3>2. QED
      BY <1>3, <1>11, <3>1, PostedDrive
  <2>4. ConnectsStill'
    BY <1>2, <1>11, <2>2, <2>3 DEF ConnectsStill
  <2>5. EndingQueued \/ Ends(t) => EndingQueued'
    BY <1>3, <2>1 DEF EndingQueued
  <2>6. QED
    BY <2>4, <2>5
<1>12. ASSUME NEW t \in Task, t.kind # "drive", tasks' = Append(tasks, t),
              UNCHANGED <<task, worker, ble, motion, activeMovement>>,
              t.kind = "connect" => InForce(tasks, Bound, Len(tasks) + 1, Still),
              ~PostingDrive, ~PostingDrive'
       PROVE  DriveInv'
  <2>1. ConnectsStill' /\ (EndingQueued => EndingQueued')
    BY <1>11, <1>12
  <2>2. PanelInForce'
    <3> SUFFICES ASSUME ~EndingQueued', ~Ending'
                 PROVE  InForce(tasks, Bound, Len(tasks) + 1, activeMovement)'
      BY <1>12 DEF PanelInForce
    <3>1. InForce(tasks, Bound, Len(tasks) + 1, activeMovement)
      BY <1>2, <1>12, <2>1 DEF PanelInForce, Ending
    <3>2. Bound' = Bound
      BY <1>12 DEF Bound, Driving
    <3>3. QED
      BY <1>3, <1>12, <3>1, <3>2, PostedDrive
  <2>3. QED
    BY <1>2, <1>12, <2>1, <2>2 DEF DriveInv
<1>13. CASE PressConnect
  <2>1. /\ tasks' = Append(tasks, Plain("connect")) /\ ~stop
        /\ ~PostingDrive /\ ~PostingDrive' /\ ~Disconnecting /\ activeMovement = Still
        /\ UNCHANGED <<task, worker, ble, motion, activeMovement>>
    BY <1>13 DEF PressConnect, Event, Post, PostingDrive, ShutdownInv, Undisturbed
  <2>2. ~Ending /\ ~EndingQueued
    BY <1>1, <1>3, <2>1 DEF Disconnecting, Ending, EndingQueued, Ends, OrderInv, NoneOf
  <2>3. InForce(tasks, Bound, Len(tasks) + 1, Still)
    BY <1>2, <2>1, <2>2 DEF PanelInForce
  <2>4. QED
    BY <1>12, <2>1, <2>3, PlainTask
<1>14. CASE PressDisconnect
  <2>1. /\ tasks' = Append(tasks, Plain("disconnect"))
        /\ ~PostingDrive /\ ~PostingDrive'
        /\ UNCHANGED <<task, worker, ble, motion, activeMovement>>
    BY <1>14 DEF PressDisconnect, Event, Post, PostingDrive
  <2>2. QED
    BY <1>12, <2>1, PlainTask
<1>15. CASE Close
  <2>1. /\ tasks' = Append(tasks, Plain("shutdown"))
        /\ ~PostingDrive /\ ~PostingDrive'
        /\ UNCHANGED <<task, worker, ble, motion, activeMovement>>
    BY <1>15 DEF Close, Post, PostingDrive
  <2>2. QED
    BY <1>12, <2>1, PlainTask
<1>16. CASE PostCommand
  <2>1. /\ command \in Task /\ command.kind # "connect" /\ ~PostingDrive'
        /\ UNCHANGED <<task, worker, ble, motion, activeMovement>>
    BY <1>16 DEF PostCommand, PostingDrive, TypeOK, Task, Order
  <2>2. CASE PostingDrive
    <3>1. tasks' = Append(tasks, command) /\ command.kind = "drive"
      BY <1>1, <1>16, <2>2 DEF PostCommand, Post, PostingDrive, Undisturbed
    <3>2. ConnectsStill' /\ (EndingQueued => EndingQueued')
      BY <1>11, <2>1, <3>1
    <3>3. InForce(tasks', Bound, Len(tasks') + 1, command.to)
      BY <1>3, <2>1, <3>1, PostedDrive
    <3>4. PanelInForce'
      BY <1>2, <2>1, <2>2, <3>2, <3>3 DEF PanelInForce, Ending, Bound, Driving
    <3>5. QED
      BY <1>2, <2>1, <3>2, <3>4 DEF DriveInv
  <2>3. CASE ~PostingDrive /\ tasks' = tasks
    BY <1>4, <2>1, <2>3
  <2>4. CASE ~PostingDrive /\ tasks' = Append(tasks, command)
    <3>1. command.kind # "drive"
      BY <1>16, <2>4 DEF PostCommand, PostingDrive
    <3>2. QED
      BY <1>12, <2>1, <2>4, <3>1
  <2>5. QED
    BY <1>16, <2>2, <2>3, <2>4 DEF PostCommand, Post
\* The worker takes a task: a movement is what the robot is about to be told.
<1>17. CASE Take
  <2>1. /\ worker = "idle" /\ tasks # <<>> /\ task' = Head(tasks) /\ tasks' = Tail(tasks)
        /\ worker' = FirstStep(task'.kind)
        /\ UNCHANGED <<ui, command, ble, motion, activeMovement>>
    BY <1>17 DEF Take
  <2>2. /\ Len(tasks) # 0 /\ Len(tasks') = Len(tasks) - 1 /\ task' = tasks[1]
        /\ \A i \in 1..Len(tasks') : tasks'[i] = tasks[i + 1]
    BY <1>3, <2>1
  <2>3. /\ worker' \in {"reset", "send_stop", "run"} /\ ~Ending
        /\ (Ends(task') => Ending') /\ (Driving' <=> task'.kind = "drive")
    BY <2>1 DEF FirstStep, Ending, Ends, Driving
  <2>4. Bound = motion /\ Bound' = IF Head(tasks).kind = "drive" THEN Head(tasks).to ELSE Bound
    BY <2>1, <2>3 DEF Bound, Driving
  <2>5. ASSUME NEW n \in 1..Len(tasks), NEW v, InForce(tasks, Bound, n + 1, v)
        PROVE  InForce(tasks', Bound', n, v)
    BY <1>3, <2>1, <2>4, <2>5, TakenDrive
  <2>6. Connecting' => motion' = Still
    <3>1. 1 \in 1..Len(tasks) /\ \A i \in 1..1 - 1 : FALSE
      BY <1>3, <2>2
    <3>2. tasks[1].kind = "connect" => InForce(tasks, Bound, 1, Still)
      BY <1>2, <3>1 DEF ConnectsStill
    <3>3. tasks[1].kind = "connect" => motion = Still
      BY <2>4, <3>1, <3>2 DEF InForce
    <3>4. QED
      BY <2>1, <2>2, <3>3 DEF Connecting
  <2>7. ASSUME NEW i \in 1..Len(tasks'), tasks'[i].kind = "connect"
        PROVE  InForce(tasks', Bound', i, Still)
    <3>1. i \in 1..Len(tasks) /\ i + 1 \in 1..Len(tasks) /\ tasks[i + 1].kind = "connect"
      BY <1>3, <2>2, <2>7
    <3>2. InForce(tasks, Bound, i + 1, Still)
      BY <1>2, <3>1 DEF ConnectsStill
    <3>3. QED
      BY <2>5, <3>1, <3>2
  <2>8. PanelInForce'
    <3> SUFFICES ASSUME ~EndingQueued', ~Ending'
                 PROVE  /\ PostingDrive => command.to = activeMovement
                        /\ ~PostingDrive =>
                             InForce(tasks', Bound', Len(tasks') + 1, activeMovement)
      BY <2>1 DEF PanelInForce, PostingDrive
    <3>1. ~EndingQueued
      <4>1. ~Ends(tasks[1])
        BY <2>2, <2>3
      <4>2. \A i \in 2..Len(tasks) : i - 1 \in 1..Len(tasks') /\ tasks'[i - 1] = tasks[i]
        BY <1>3, <2>2
      <4>3. \A i \in 1..Len(tasks) : i = 1 \/ i \in 2..Len(tasks)
        OBVIOUS
      <4>4. QED
        BY <4>1, <4>2, <4>3 DEF EndingQueued
    <3>2. Len(tasks) \in 1..Len(tasks) /\ Len(tasks') + 1 = Len(tasks)
      BY <1>3, <2>2
    <3>3. QED
      BY <1>2, <2>3, <2>5, <3>1, <3>2 DEF PanelInForce
  <2>9. QED
    BY <1>2, <2>1, <2>3, <2>6, <2>7, <2>8 DEF DriveInv, ConnectsStill
\* The worker runs a task that is not a Disconnect: the movement in force stays.
<1>18. ASSUME UNCHANGED <<tasks, ui, command, activeMovement>>, ~Ending, ~Ending',
              ~Connecting', Bound' = Bound, ~ble' => motion' = Still
       PROVE  DriveInv'
  BY <1>2, <1>18 DEF DriveInv, ConnectsStill, PanelInForce, EndingQueued, Ending, PostingDrive
<1>19. CASE WorkerEnds
  BY <1>2, <1>18, <1>19 DEF WorkerEnds, Ending, Connecting, Bound, Driving
<1>20. CASE RunConnect
  <2>1. motion = Still /\ motion' = Still
    BY <1>2, <1>20 DEF RunConnect, ConnectsStill, Connecting
  <2>2. QED
    BY <1>18, <1>20, <2>1 DEF RunConnect, Ending, Connecting, Bound, Driving
<1>21. CASE RunDrive
  <2>1. ble /\ ble' /\ motion' = task.to
    BY <1>1, <1>21 DEF RunDrive, Undisturbed
  <2>2. QED
    BY <1>18, <1>21, <2>1 DEF RunDrive, Ending, Connecting, Bound, Driving
<1>22. CASE RunEars
  BY <1>2, <1>18, <1>22 DEF RunEars, Ending, Connecting, Bound, Driving
\* A Disconnect or the Shutdown goes on.
<1>23. ASSUME Ending, Ending', UNCHANGED tasks,
              ~ble' => motion' = Still,
              worker' \in {"reset_again", "drop", "flag"} => motion' = Still,
              worker' \in {"drop", "flag"} => activeMovement' = Still
       PROVE  DriveInv'
  BY <1>3, <1>23 DEF DriveInv, ConnectsStill, PanelInForce, Ending, Connecting, NoneOf
<1>24. CASE ResetMovement
  BY <1>2, <1>23, <1>24 DEF ResetMovement, Ending
<1>25. CASE CleanupStop
  BY <1>2, <1>23, <1>25 DEF CleanupStop, Ending, Undisturbed
<1>26. CASE CleanupReset
  BY <1>2, <1>23, <1>26 DEF CleanupReset, Ending
\* It ends: no movement is left in the queue.
<1>27. ASSUME worker \in {"drop", "flag"}, ~ble', worker' = "idle",
              UNCHANGED <<tasks, ui, command, motion, activeMovement>>
       PROVE  DriveInv'
  <2>1. motion = Still /\ activeMovement = Still /\ NoneOf("connect", tasks) /\ ~PostingDrive
    BY <1>1, <1>2, <1>3, <1>27 DEF Ending, Lost, Connecting
  <2>2. ~Stranded(tasks)
    BY <1>27 DEF Lost, Connecting
  <2>3. NoneOf("drive", tasks)
    <3>1. \A j \in 1..Len(tasks) : \A i \in 1..j - 1 : i \in 1..Len(tasks)
      BY <1>3
    <3>2. QED
      BY <2>1, <2>2, <3>1 DEF Stranded, NoneOf
  <2>4. InForce(tasks, Still, Len(tasks) + 1, Still)
    BY <1>3, <2>3 DEF InForce, NoneOf
  <2>5. Bound' = Still /\ ~PostingDrive' /\ ~Connecting'
    BY <1>27, <2>1 DEF Bound, Driving, PostingDrive, Connecting
  <2>6. PanelInForce'
    BY <1>27, <2>1, <2>4, <2>5 DEF PanelInForce
  <2>7. ConnectsStill'
    BY <1>27, <2>1, <2>5 DEF ConnectsStill, NoneOf
  <2>8. QED
    BY <1>27, <2>1, <2>6, <2>7 DEF DriveInv
<1>28. CASE CleanupDrop
  <2>1. CASE worker' = "flag"
    BY <1>2, <1>23, <1>28, <2>1 DEF CleanupDrop, Ending
  <2>2. CASE worker' = "idle"
    BY <1>27, <1>28, <2>2 DEF CleanupDrop
  <2>3. QED
    BY <1>28, <2>1, <2>2 DEF CleanupDrop
<1>29. CASE ClearConnected
  BY <1>27, <1>29 DEF ClearConnected, OrderInv
<1>30. QED
  BY <1>7, <1>8, <1>9, <1>10, <1>13, <1>14, <1>15, <1>16, <1>17, <1>19, <1>20, <1>21, <1>22,
     <1>24, <1>25, <1>26, <1>28, <1>29, <1>31, <1>32 DEF Next, Window, Work

\* Both hold in every state.
LEMMA DriveInvariance == Spec => [](OrderInv /\ DriveInv)
<1>1. Init => OrderInv /\ DriveInv
  <2> SUFFICES ASSUME Init PROVE OrderInv /\ DriveInv
    OBVIOUS
  <2>1. /\ tasks = <<>> /\ Len(tasks) = 0 /\ motion = Still /\ activeMovement = Still
        /\ worker = "idle" /\ ui = "ready"
    BY DEF Init
  <2>2. OrderInv
    BY <2>1 DEF OrderInv, EndsLast, NoneOf, Ending
  <2>3. ConnectsStill /\ PanelInForce
    BY <2>1 DEF ConnectsStill, PanelInForce, Connecting, Bound, Driving, PostingDrive, InForce
  <2>4. QED
    BY <2>1, <2>2, <2>3 DEF DriveInv
<1>2. IInv /\ OrderInv /\ DriveInv /\ [Next]_vars => OrderInv' /\ DriveInv'
  BY OrderStep, DriveStep DEF IInv
<1>3. QED
  BY <1>1, <1>2, Invariance, PTL DEF Spec

\* No movement is lost between the two threads: whatever the user and both threads
\* do, when all that was posted is done the robot does what the panel shows, unless
\* a movement was refused or failed, a cleanup failed to stop the robot, or Connect
\* was pressed at a bad moment.
THEOREM PanelSettles == Spec => []PanelMatchesRobot
<1>1. DriveInv => PanelMatchesRobot
  <2> SUFFICES ASSUME DriveInv, Quiet, Undisturbed
               PROVE  motion = activeMovement
    BY DEF PanelMatchesRobot
  <2>1. Len(tasks) = 0 /\ worker = "idle" /\ ui = "ready"
    BY DEF Quiet
  <2>2. ~Lost
    BY <2>1 DEF Lost, PostingDrive, Driving, Stranded
  <2>3. PanelInForce
    BY <2>2 DEF DriveInv
  <2>4. InForce(tasks, motion, 1, activeMovement)
    BY <2>1, <2>3 DEF PanelInForce, EndingQueued, Ending, PostingDrive, Bound, Driving
  <2>5. QED
    BY <2>4 DEF InForce
<1>2. QED
  BY <1>1, DriveInvariance, PTL

-----------------------------------------------------------------------------
(* A robot that is left does not move, whatever is lost by then.           *)

StillInv ==
    Undisturbed =>
        /\ ~ble => motion = Still
        /\ worker \in {"reset_again", "drop", "flag"} => motion = Still

\* Every step keeps a robot still that was left, or is about to be.
LEMMA StillStep ==
    ASSUME TypeOK, DriveInv, StillInv, [Next]_vars
    PROVE  StillInv'
<1> SUFFICES ASSUME Undisturbed'
             PROVE  /\ ~ble' => motion' = Still
                    /\ worker' \in {"reset_again", "drop", "flag"} => motion' = Still
  BY DEF StillInv
<1> USE DEF At, uiVars, robotVars
<1>1. Undisturbed
  BY UpsetGrows
<1>2. /\ ~ble => motion = Still
      /\ worker \in {"reset_again", "drop", "flag"} => motion = Still
  BY <1>1 DEF StillInv
\* The window moves neither the robot nor the worker.
<1>3. ASSUME UNCHANGED <<worker, ble, motion>>
      PROVE  /\ ~ble' => motion' = Still
             /\ worker' \in {"reset_again", "drop", "flag"} => motion' = Still
  BY <1>2, <1>3
<1>4. ASSUME \/ \E m \in Movement : StartMovement(m) \/ TestMovement(m)
             \/ \E v \in Percent : MoveSlider(v)
             \/ FlushEarPercent \/ TimePasses \/ StopMovement \/ PressConnect
             \/ PressDisconnect \/ Close \/ Window \/ UNCHANGED vars
      PROVE  UNCHANGED <<worker, ble, motion>>
  BY <1>4 DEF StartMovement, TestMovement, MoveSlider, FlushEarPercent, TimePasses,
     StopMovement, PressConnect, PressDisconnect, Close, Window, CompareMovement,
     PostCommand, CloseReturns, vars
<1>5. CASE Take
  BY <1>2, <1>5 DEF Take, FirstStep
<1>6. CASE RunConnect
  <2>1. ~Lost /\ Connecting
    BY <1>6 DEF RunConnect, Lost, Connecting, Driving
  <2>2. motion = Still
    BY <1>1, <2>1 DEF DriveInv, ConnectsStill
  <2>3. QED
    BY <1>6, <2>2 DEF RunConnect
<1>7. CASE RunDrive
  BY <1>7 DEF RunDrive, Undisturbed
<1>8. CASE CleanupStop
  BY <1>2, <1>8 DEF CleanupStop, Undisturbed
<1>9. CASE \/ WorkerEnds \/ RunEars \/ ResetMovement \/ CleanupReset \/ CleanupDrop
           \/ ClearConnected
  BY <1>2, <1>9 DEF WorkerEnds, RunEars, ResetMovement, CleanupReset, CleanupDrop,
     ClearConnected
<1>10. QED
  BY <1>3, <1>4, <1>5, <1>6, <1>7, <1>8, <1>9 DEF Next, Work

\* The robot is not left moving: without a connection, after a Disconnect or when the
\* window is closed, it stands, however full the queue was, unless a movement was
\* refused or failed, a cleanup failed to stop it, or Connect was pressed at a bad
\* moment.
THEOREM LeavingStops == Spec => []LeftIsStopped
<1>1. Init => StillInv
  BY DEF Init, StillInv
<1>2. IInv /\ DriveInv /\ StillInv /\ [Next]_vars => StillInv'
  BY StillStep DEF IInv
<1>3. StillInv => LeftIsStopped
  BY DEF StillInv, LeftIsStopped
<1>4. QED
  BY <1>1, <1>2, <1>3, Invariance, DriveInvariance, PTL DEF Spec
=============================================================================
