---------------------------- MODULE ControlPanel ----------------------------
(***************************************************************************)
(* The movement and ear controls of the control panel, BLE build           *)
(* (src/tools/user_control_ble_win.cpp): the window thread with the        *)
(* joystick, the buttons and the throttled ear slider, and the Worker      *)
(* whose thread runs the posted tasks in order.  Both threads write        *)
(* activeMovement_, which no lock protects.                                *)
(*                                                                         *)
(* Abstracted: the geometry of the joystick (it starts a movement or       *)
(* stops), the list of scanned devices, every other task that only sends   *)
(* one command (it queues and fails like a movement does), and the clock   *)
(* (how long ago the last percentage was sent, as far as the code asks).   *)
(* A write over BLE may fail at any time, with the link up too; whether    *)
(* the robot then got it is open.  Without a connection it always fails.   *)
(***************************************************************************)
EXTENDS Naturals, Sequences

CONSTANTS
    Movement,    \* the directions of aidog::Movement
    Still,       \* no movement
    Percent,     \* the positions of the ear slider
    NoPercent,   \* no such position
    MaxEvents    \* bound: what the user does

ASSUME PanelAssumption ==
    Still \notin Movement /\ NoPercent \notin Percent /\ MaxEvents \in Nat

VARIABLES
    activeMovement,  \* activeMovement_, Still when it is empty
    connected,       \* connected_
    tasks,           \* the worker's tasks_
    stop,            \* the worker's stop_
    task,            \* the task the worker runs
    worker,          \* where the worker's thread is
    ui,              \* where the window thread is; "crashed": the process ended
    command,         \* the task the window thread is about to post
    slider,          \* where the user left earSlider_, NoPercent at first
    lastEarPercent,  \* lastEarPercent_, NoPercent when it is empty
    sinceEar,        \* now - lastEarPercentTick_, in the code's ranges
    pendingEarPercent,  \* pendingEarPercent_, NoPercent when it is empty
    ble,             \* external: dog_ has a BLE connection
    motion,          \* external: the movement the robot performs
    ears,            \* external: the last percentage the robot was told
    upset,           \* history: what went wrong, see Upset
    events           \* bound: what the user did

earVars   == <<slider, lastEarPercent, sinceEar, pendingEarPercent>>
uiVars    == <<ui, command, earVars, events>>
robotVars == <<ble, motion, ears>>
vars == <<activeMovement, connected, tasks, stop, task, worker, uiVars, robotVars, upset>>

Motion == Movement \cup {Still}

\* "drive": a movement was refused or failed, or the user pressed Connect
\* before a Disconnect was done or while the robot moved.  "stop": the stop that
\* cleanup_robot sends failed with the link up, which nobody is told.  "ears": a
\* percentage was refused or failed.  "overtaken": the slider moved on while an
\* older position was pending, and that position stayed pending.
Upset == {"drive", "stop", "ears", "overtaken"}
Undisturbed == upset \cap {"drive", "stop"} = {}

\* The tasks that only send a command; start_movement and stop_movement are one
\* kind: "drive".
Order == [kind : {"drive"}, to : Motion] \cup [kind : {"ears"}, to : Percent]
Task == Order \cup [kind : {"connect", "disconnect", "shutdown"}, to : {Still}]
Plain(kind) == [kind |-> kind, to |-> Still]

Init ==
    /\ activeMovement = Still
    /\ connected = FALSE
    /\ tasks = <<>>
    /\ stop = FALSE
    /\ task = Plain("connect")
    /\ worker = "idle"
    /\ ui = "ready"
    /\ command = Plain("drive")
    /\ slider = NoPercent
    /\ lastEarPercent = NoPercent
    /\ sinceEar = "long"
    /\ pendingEarPercent = NoPercent
    /\ ble = FALSE
    /\ motion = Still
    /\ ears = NoPercent
    /\ upset = {}
    /\ events = 0

-----------------------------------------------------------------------------
(* The window thread                                                       *)

\* The user does something, and the window thread is free to handle it.
Event == ui = "ready" /\ events < MaxEvents /\ events' = events + 1

Post(t) == tasks' = Append(tasks, t)

\* The window thread goes on to post_command.
Command(kind, to) ==
    /\ command' = [kind |-> kind, to |-> to]
    /\ ui' = "post"

\* start_active_movement, from the joystick or a button, without a movement.
StartMovement(m) ==
    /\ Event
    /\ activeMovement = Still
    /\ activeMovement' = m
    /\ Command("drive", m)
    /\ UNCHANGED <<connected, tasks, stop, task, worker, earVars, robotVars, upset>>

\* With one: has_value() is true, value() is still to be read.
TestMovement(m) ==
    /\ Event
    /\ activeMovement # Still
    /\ command' = [kind |-> "drive", to |-> m]
    /\ ui' = "compare"
    /\ UNCHANGED <<activeMovement, connected, tasks, stop, task, worker, earVars,
                   robotVars, upset>>

\* For the movement that is active it returns.  If the worker emptied the
\* optional meanwhile, value() throws out of the window procedure, which nobody
\* catches; a build that reads the optional only once compares what was there.
CompareMovement ==
    /\ ui = "compare"
    /\ \/ activeMovement # command.to /\ activeMovement' = command.to /\ ui' = "post"
       \/ activeMovement \in {command.to, Still} /\ ui' = "ready" /\ UNCHANGED activeMovement
       \/ activeMovement = Still /\ ui' = "crashed" /\ UNCHANGED activeMovement
    /\ UNCHANGED <<connected, tasks, stop, task, worker, command, earVars, events,
                   robotVars, upset>>

\* stop_active_movement, from the joystick (released, in the dead zone, or its
\* capture lost) or the stop button; without a movement it returns at once.
StopMovement ==
    /\ Event
    /\ activeMovement # Still
    /\ activeMovement' = Still
    /\ Command("drive", Still)
    /\ UNCHANGED <<connected, tasks, stop, task, worker, earVars, robotVars, upset>>

\* send_ear_percentage_value, as far as the post.
SendEarPercent(v) ==
    /\ lastEarPercent' = v
    /\ sinceEar' = "short"
    /\ Command("ears", v)

\* Some other position stays pending although the slider is at v.
Overtakes(v) == pendingEarPercent \notin {NoPercent, v}

\* Mutant: a position that comes too early is dropped.
MoveSliderDropped(v) ==
    /\ Event
    /\ slider' = v
    /\ IF connected /\ sinceEar # "short"
       THEN SendEarPercent(v) /\ UNCHANGED upset
       ELSE /\ upset' = IF connected THEN upset ELSE upset \cup {"ears"}
            /\ UNCHANGED <<ui, command, lastEarPercent, sinceEar>>
    /\ UNCHANGED <<activeMovement, connected, tasks, stop, task, worker, pendingEarPercent,
                   robotVars>>

\* on_hscroll and queue_ear_percentage: nothing when not connected, nothing for
\* the position sent less than 250 ms ago, and less than kEarSendIntervalMs after
\* a send the position waits.  A position that is sent or skipped leaves the
\* pending one pending.
MoveSlider(v) ==
    /\ Event
    /\ slider' = v
    /\ \/ /\ ~connected
          /\ upset' = upset \cup {"ears"}
          /\ UNCHANGED <<ui, command, lastEarPercent, sinceEar, pendingEarPercent>>
       \/ /\ connected /\ lastEarPercent = v /\ sinceEar # "long"
          /\ upset' = IF Overtakes(v) THEN upset \cup {"overtaken"} ELSE upset
          /\ UNCHANGED <<ui, command, lastEarPercent, sinceEar, pendingEarPercent>>
       \/ /\ connected /\ lastEarPercent # v /\ sinceEar = "short"
          /\ pendingEarPercent' = v
          /\ UNCHANGED <<ui, command, lastEarPercent, sinceEar, upset>>
       \/ /\ connected
          /\ \/ sinceEar = "long"
             \/ sinceEar = "middle" /\ lastEarPercent # v
          /\ SendEarPercent(v)
          /\ upset' = IF Overtakes(v) THEN upset \cup {"overtaken"} ELSE upset
          /\ UNCHANGED pendingEarPercent
    /\ UNCHANGED <<activeMovement, connected, tasks, stop, task, worker, robotVars>>

\* kPlotTimer: flush_pending_ear_percentage.
FlushEarPercent ==
    /\ ui = "ready"
    /\ pendingEarPercent # NoPercent
    /\ sinceEar # "short"
    /\ pendingEarPercent' = NoPercent
    /\ SendEarPercent(pendingEarPercent)
    /\ UNCHANGED <<activeMovement, connected, tasks, stop, task, worker, slider, events,
                   robotVars, upset>>

\* kEarSendIntervalMs, then 250 ms, have passed since the last send.
TimePasses ==
    /\ sinceEar # "long"
    /\ sinceEar' = IF sinceEar = "short" THEN "middle" ELSE "long"
    /\ UNCHANGED <<activeMovement, connected, tasks, stop, task, worker, ui, command,
                   slider, lastEarPercent, pendingEarPercent, events, robotVars, upset>>

\* post_command, after activeMovement_ or lastEarPercent_ was written: refused when
\* not connected.
PostCommand ==
    /\ ui = "post"
    /\ ui' = "ready"
    /\ IF connected
       THEN Post(command) /\ UNCHANGED upset
       ELSE upset' = upset \cup {command.kind} /\ UNCHANGED tasks
    /\ UNCHANGED <<activeMovement, connected, stop, task, worker, command, earVars,
                   robotVars, events>>

\* A Disconnect is queued or runs.
Disconnecting ==
    \/ task.kind = "disconnect" /\ worker # "idle"
    \/ \E i \in DOMAIN tasks : tasks[i].kind = "disconnect"

\* connect_device.
PressConnect ==
    /\ Event
    /\ Post(Plain("connect"))
    /\ upset' = IF Disconnecting \/ activeMovement # Still THEN upset \cup {"drive"}
                                                             ELSE upset
    /\ UNCHANGED <<activeMovement, connected, stop, task, worker, ui, command, earVars,
                   robotVars>>

\* disconnect_device.
PressDisconnect ==
    /\ Event
    /\ Post(Plain("disconnect"))
    /\ UNCHANGED <<activeMovement, connected, stop, task, worker, ui, command, earVars,
                   robotVars, upset>>

\* on_close posts the last task and stops the worker; the window thread waits
\* for the worker's thread.
Close ==
    /\ ui = "ready"
    /\ Post(Plain("shutdown"))
    /\ stop' = TRUE
    /\ ui' = "closing"
    /\ UNCHANGED <<activeMovement, connected, task, worker, command, earVars, events,
                   robotVars, upset>>

CloseReturns ==
    /\ ui = "closing"
    /\ worker = "ended"
    /\ ui' = "closed"
    /\ UNCHANGED <<activeMovement, connected, tasks, stop, task, worker, command, earVars,
                   events, robotVars, upset>>

-----------------------------------------------------------------------------
(* The worker's thread                                                     *)

\* The worker is there, and the process lives.
At(place) == worker = place /\ ui # "crashed"

\* Where the worker goes when it begins a task.
FirstStep(kind) ==
    CASE kind = "disconnect" -> "reset"
      [] kind = "shutdown" -> "send_stop"
      [] OTHER -> "run"

\* Mutant: the newest task first.
TakeLast ==
    /\ At("idle")
    /\ tasks # <<>>
    /\ task' = tasks[Len(tasks)]
    /\ tasks' = SubSeq(tasks, 1, Len(tasks) - 1)
    /\ worker' = FirstStep(task'.kind)
    /\ UNCHANGED <<activeMovement, connected, stop, uiVars, robotVars, upset>>

Take ==
    /\ At("idle")
    /\ tasks # <<>>
    /\ task' = Head(tasks)
    /\ tasks' = Tail(tasks)
    /\ worker' = FirstStep(task'.kind)
    /\ UNCHANGED <<activeMovement, connected, stop, uiVars, robotVars, upset>>

\* Mutant: the queue is dropped when the worker is stopped.
WorkerEndsEarly ==
    /\ At("idle")
    /\ stop
    /\ worker' = "ended"
    /\ UNCHANGED <<activeMovement, connected, tasks, stop, task, uiVars, robotVars, upset>>

\* Mutant: the thread waits for a task, stopped or not.
WorkerNeverEnds ==
    /\ At("idle")
    /\ stop
    /\ tasks # <<>>
    /\ worker' = "ended"
    /\ UNCHANGED <<activeMovement, connected, tasks, stop, task, uiVars, robotVars, upset>>

\* A stopped worker first runs every task it has.
WorkerEnds ==
    /\ At("idle")
    /\ stop
    /\ tasks = <<>>
    /\ worker' = "ended"
    /\ UNCHANGED <<activeMovement, connected, tasks, stop, task, uiVars, robotVars, upset>>

\* AiDog::connect ends the old connection first (a robot that moves may then
\* stop or not).  It may fail with no connection at all, or after the connection
\* was made, in enter_edu_mode; its exception leaves connected_ as it was.
RunConnect ==
    /\ At("run")
    /\ task.kind = "connect"
    /\ \/ ble' = TRUE /\ connected' = TRUE
       \/ ble' \in BOOLEAN /\ UNCHANGED connected
    /\ motion' \in {motion, Still}
    /\ worker' = "idle"
    /\ UNCHANGED <<activeMovement, tasks, stop, task, uiVars, ears, upset>>

\* start_movement or stop_movement; it throws without a connection, and when the
\* write fails.
RunDrive ==
    /\ At("run")
    /\ task.kind = "drive"
    /\ \/ ble /\ motion' = task.to /\ UNCHANGED upset
       \/ ble /\ motion' \in {motion, task.to} /\ upset' = upset \cup {"drive"}
       \/ ~ble /\ UNCHANGED motion /\ upset' = upset \cup {"drive"}
    /\ worker' = "idle"
    /\ UNCHANGED <<activeMovement, connected, tasks, stop, task, uiVars, ble, ears>>

\* send_ear_percentage; it throws in the same cases.
RunEars ==
    /\ At("run")
    /\ task.kind = "ears"
    /\ \/ ble /\ ears' = task.to /\ UNCHANGED upset
       \/ ble /\ ears' \in {ears, task.to} /\ upset' = upset \cup {"ears"}
       \/ ~ble /\ UNCHANGED ears /\ upset' = upset \cup {"ears"}
    /\ worker' = "idle"
    /\ UNCHANGED <<activeMovement, connected, tasks, stop, task, uiVars, ble, motion>>

\* The task of disconnect_device forgets the movement before cleanup_robot does.
ResetMovement ==
    /\ At("reset")
    /\ activeMovement' = Still
    /\ worker' = "send_stop"
    /\ UNCHANGED <<connected, tasks, stop, task, uiVars, robotVars, upset>>

\* Mutant: only a movement that the panel still knows is stopped.
CleanupStopIfActive ==
    /\ At("send_stop")
    /\ motion' = IF ble /\ activeMovement # Still THEN Still ELSE motion
    /\ worker' = "reset_again"
    /\ UNCHANGED <<activeMovement, connected, tasks, stop, task, uiVars, ble, ears, upset>>

\* cleanup_robot: stop the movement; an exception is swallowed ...
CleanupStop ==
    /\ At("send_stop")
    /\ \/ ble /\ motion' = Still /\ UNCHANGED upset
       \/ ble /\ motion' \in {motion, Still} /\ upset' = upset \cup {"stop"}
       \/ ~ble /\ UNCHANGED <<motion, upset>>
    /\ worker' = "reset_again"
    /\ UNCHANGED <<activeMovement, connected, tasks, stop, task, uiVars, ble, ears>>

\* ... forget the movement ...
CleanupReset ==
    /\ At("reset_again")
    /\ activeMovement' = Still
    /\ worker' = "drop"
    /\ UNCHANGED <<connected, tasks, stop, task, uiVars, robotVars, upset>>

\* ... and disconnect (in a Shutdown dog_.shutdown() does it once more).
CleanupDrop ==
    /\ At("drop")
    /\ ble' = FALSE
    /\ worker' = IF task.kind = "disconnect" THEN "flag" ELSE "idle"
    /\ UNCHANGED <<activeMovement, connected, tasks, stop, task, uiVars, motion, ears,
                   upset>>

ClearConnected ==
    /\ At("flag")
    /\ connected' = FALSE
    /\ worker' = "idle"
    /\ UNCHANGED <<activeMovement, tasks, stop, task, uiVars, robotVars, upset>>

Work ==
    \/ Take \/ WorkerEnds \/ RunConnect \/ RunDrive \/ RunEars
    \/ ResetMovement \/ CleanupStop \/ CleanupReset \/ CleanupDrop \/ ClearConnected

Window == CompareMovement \/ PostCommand \/ CloseReturns

Next ==
    \/ \E m \in Movement : StartMovement(m) \/ TestMovement(m)
    \/ \E v \in Percent : MoveSlider(v)
    \/ FlushEarPercent \/ TimePasses
    \/ StopMovement \/ PressConnect \/ PressDisconnect \/ Close
    \/ Window
    \/ Work

\* Both threads are scheduled and every task ends; the user need not do
\* anything.
Spec == Init /\ [][Next]_vars /\ WF_vars(Window) /\ WF_vars(Work)

-----------------------------------------------------------------------------
(* Properties                                                              *)

\* Every variable holds a value of its kind.
TypeOK ==
    /\ activeMovement \in Motion
    /\ connected \in BOOLEAN
    /\ tasks \in Seq(Task)
    /\ stop \in BOOLEAN
    /\ task \in Task
    /\ worker \in {"idle", "run", "reset", "send_stop", "reset_again", "drop", "flag",
                   "ended"}
    /\ ui \in {"ready", "compare", "post", "closing", "closed", "crashed"}
    /\ command \in Order
    /\ ui = "compare" => command.kind = "drive" /\ command.to \in Movement
    /\ slider \in Percent \cup {NoPercent}
    /\ lastEarPercent \in Percent \cup {NoPercent}
    /\ sinceEar \in {"short", "middle", "long"}
    /\ pendingEarPercent \in Percent \cup {NoPercent}
    /\ ble \in BOOLEAN
    /\ motion \in Motion
    /\ ears \in Percent \cup {NoPercent}
    /\ upset \subseteq Upset
    /\ events \in Nat

\* The window thread is free and all that was posted is done.
Quiet == ui = "ready" /\ worker = "idle" /\ tasks = <<>>

\* When all that was posted is done, the robot does what the panel shows: no
\* movement is lost between the two threads, and releasing the joystick always
\* stops the robot.  It needs that no movement was refused or failed, that no
\* cleanup failed to stop the robot, and that Connect was not pressed at a bad
\* moment (see the README for what happens then).
PanelMatchesRobot == Quiet /\ Undisturbed => motion = activeMovement

\* The throttle loses no last position: when all that was posted is done and
\* nothing is pending, the ears are where the user left the slider, however fast
\* it was moved.  It needs that no percentage was refused or failed and that no
\* position was overtaken while it was pending.
EarsFollowSlider ==
    Quiet /\ pendingEarPercent = NoPercent /\ upset \cap {"ears", "overtaken"} = {}
        => ears = slider

\* The same, overtaken or not.  The code fails it: a position that is sent, or
\* skipped because it was just sent, leaves an older pending one to be sent after
\* it.
EarsNeverGoBack ==
    Quiet /\ pendingEarPercent = NoPercent /\ "ears" \notin upset => ears = slider

\* When the window is closed, every posted task was done and the connection is
\* gone: nothing the user asked for is dropped by the stop of the worker.
ClosedIsDone == ui = "closed" => tasks = <<>> /\ ~ble

\* A robot that is left, by the close of the window or by a Disconnect, does not
\* move on, however full the queue was; with the same conditions.
LeftIsStopped == ~ble /\ Undisturbed => motion = Still

\* The same when a stop failed.  The code fails it: cleanup_robot swallows the
\* exception, forgets the movement and disconnects.
LeftIsStoppedAnyway == ~ble /\ "drive" \notin upset => motion = Still

\* The window procedure throws nothing.  The code fails it: the worker resets
\* activeMovement_ between has_value() and value().
NeverCrashes == ui # "crashed"

\* Closing the window ends: the worker drains its queue and its thread ends.
CloseEnds == ui = "closing" ~> ui = "closed"

-----------------------------------------------------------------------------
\* The inductive invariant behind ClosedIsDone: a stopped worker still has the
\* Shutdown as its last task, or is in it, or has done it.
ShutdownInv ==
    /\ stop <=> ui \in {"closing", "closed"}
    /\ ui = "closed" => worker = "ended"
    /\ worker = "ended" => stop
    /\ stop =>
         \/ tasks # <<>> /\ tasks[Len(tasks)].kind = "shutdown" /\ worker # "ended"
         \/ /\ tasks = <<>>
            /\ task.kind = "shutdown" /\ worker \in {"send_stop", "reset_again", "drop"}
         \/ tasks = <<>> /\ ~ble /\ worker \in {"idle", "ended"}

IInv == TypeOK /\ ShutdownInv
=============================================================================
