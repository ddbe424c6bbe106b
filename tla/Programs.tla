------------------------------ MODULE Programs ------------------------------
(***************************************************************************)
(* The programs of src/examples: each one opens a link, runs a script of   *)
(* AiDog commands and closes the link.  A command is what AiDog makes of   *)
(* the call (one message, or several); the body, the commands of a catch   *)
(* block and those of the orderly end are sequences of commands, and every *)
(* message may fail, with the robot having taken it or not.                *)
(*                                                                         *)
(* What is kept of the robot is what the programs promise about it: the    *)
(* aspects in which it is not as the program found it, its EDU session and *)
(* the stance that the adjust commands built up.                           *)
(***************************************************************************)
EXTENDS Integers, Sequences, FiniteSets

CONSTANTS
    ProgramNames,   \* the programs that may be run, a subset of DOMAIN Catalogue
    MaxFails        \* the most messages that fail in one run

ASSUME FailsAssumption == MaxFails \in Nat

(***************************************************************************)
(* The commands of AiDog.                                                  *)
(***************************************************************************)
Cmd(op) == [op |-> op]

stop_movement == << Cmd("stop") >>

\* Mutant: the timed movement leaves the stop to its caller.
SendMovementUnstopped == << Cmd("start"), Cmd("check") >>

\* The start goes out before the duration is looked at.
send_movement == << Cmd("start"), Cmd("check") >> \o stop_movement

reset == stop_movement \o << Cmd("interrupt") >>

send_ear(down) == << Cmd(IF down THEN "ear_down" ELSE "ear_up") >>

special_detection(on) == << Cmd(IF on THEN "detect_on" ELSE "detect_off") >>

send_audio(on) == << Cmd(IF on THEN "tone_on" ELSE "tone_off") >>

\* The volume, and the tone that lets the user hear it.
set_volume(verify) == << Cmd("volume") >> \o (IF verify THEN send_audio(TRUE) ELSE <<>>)

request_stream(on) == << Cmd(IF on THEN "stream_on" ELSE "stream_off") >>

send_expression == << Cmd("expression") >>

perform_action == << Cmd("act") >>

request_basic_mode == << Cmd("basic") >>

\* Roll, pitch and x are not changed by any program: only the height is kept.
default_pose_output(z) == << [op |-> "default", to |-> z] >>

syn_pose_adjust(now, end) == << [op |-> "pose", from |-> now, to |-> end] >>

syn_foot_adjust(delta) == << [op |-> "feet", delta |-> delta] >>

\* Mutant: the link is closed before the session.
DisconnectFirst == << Cmd("unlink"), Cmd("exit") >>

\* AiDog::disconnect, and what ~AiDog does through shutdown.
disconnect == << Cmd("exit"), Cmd("unlink") >>

(***************************************************************************)
(* The scripts.  confirm: the program asks for --yes, for RUN or for an    *)
(* address before it does anything; checked: it rejects a duration that is *)
(* not positive; auto: its AiDog enters EDU mode by itself; caught: its    *)
(* body has a catch block, which runs cleanup; promise: what its header    *)
(* comment says, or its end restores.                                      *)
(***************************************************************************)
Ble(auto, confirm, body, tail, caught, promise) ==
    [link |-> "ble", auto |-> auto, confirm |-> confirm, checked |-> TRUE, body |-> body,
     tail |-> tail \o disconnect, cleanup |-> tail, caught |-> caught, promise |-> promise]

Ws(auto, confirm, body, tail, promise) ==
    [link |-> "ws", auto |-> auto, confirm |-> confirm, checked |-> FALSE, body |-> body,
     tail |-> tail \o << Cmd("unlink") >>, cleanup |-> <<>>, caught |-> FALSE,
     promise |-> promise]

BleConnectByAddress == Ble(TRUE, TRUE, <<>>, <<>>, FALSE, {})

BleScanAndConnect == Ble(TRUE, FALSE, <<>>, <<>>, FALSE, {})

WsConnectionTest == Ws(TRUE, FALSE, <<>>, <<>>, {})

BleDirectionalMove ==
    Ble(TRUE, TRUE, send_movement, stop_movement \o reset, TRUE, {"moving", "acting"})

BleTimedMove ==
    LET Leg == send_movement \o stop_movement
    IN  Ble(TRUE, TRUE, Leg \o Leg \o Leg \o Leg \o Leg, stop_movement \o reset, TRUE,
            {"moving", "acting"})

WsDirectionalMove == Ws(TRUE, TRUE, send_movement, reset, {"moving", "acting"})

WsTimedMove ==
    Ws(TRUE, TRUE, send_movement \o send_movement \o send_movement \o send_movement, reset,
       {"moving", "acting"})

BleBasicActions == Ble(TRUE, TRUE, perform_action, <<>>, FALSE, {})

WsBasicActions == Ws(TRUE, TRUE, perform_action, <<>>, {})

BleEarsExpressionsAudio ==
    Ble(TRUE, TRUE,
        set_volume(FALSE) \o send_audio(TRUE) \o send_expression \o send_ear(FALSE)
            \o send_ear(FALSE) \o special_detection(FALSE),
        special_detection(TRUE), FALSE, {"detection"})

WsEarsExpressionsAudio ==
    LET Scene == send_ear(FALSE) \o send_expression \o send_audio(TRUE)
    IN  Ws(TRUE, FALSE, set_volume(TRUE) \o Scene \o Scene,
           send_ear(TRUE) \o send_expression \o send_audio(FALSE), {"tone", "ears"})

BleChoreography ==
    Ble(TRUE, TRUE,
        special_detection(FALSE) \o send_ear(FALSE) \o send_expression \o send_audio(TRUE)
            \o perform_action \o perform_action \o send_movement \o perform_action
            \o perform_action,
        send_audio(FALSE) \o stop_movement \o special_detection(TRUE) \o reset, TRUE,
        {"tone", "moving", "detection", "acting"})

WsChoreography ==
    Ws(TRUE, TRUE,
       special_detection(FALSE) \o send_expression \o send_audio(TRUE) \o send_ear(FALSE)
           \o perform_action \o perform_action \o send_expression \o send_audio(TRUE)
           \o perform_action \o send_ear(FALSE),
       send_audio(FALSE) \o special_detection(TRUE) \o reset,
       {"tone", "detection", "acting", "moving"})

BleImuRead == Ble(FALSE, FALSE, request_stream(TRUE), request_stream(FALSE), FALSE, {"stream"})

BleTofRead == Ble(FALSE, FALSE, request_stream(TRUE), request_stream(FALSE), FALSE, {"stream"})

\* The stop is sent only with --stop-stream-on-exit, and may fail unseen.
WsImuRead(stopOnExit) ==
    Ws(FALSE, FALSE, request_stream(TRUE),
       IF stopOnExit THEN << Cmd("stream_try_off") >> ELSE <<>>, {})

WsTofRead(stopOnExit) == WsImuRead(stopOnExit)

SafePoseAdjust ==
    LET Feet(x) == syn_foot_adjust([foot_0_x |-> x, foot_1_x |-> x, foot_2_x |-> x,
                                    foot_3_x |-> x])
    IN  Ble(FALSE, TRUE,
            request_basic_mode \o special_detection(FALSE) \o default_pose_output(110)
                \o syn_pose_adjust(110, 55) \o syn_pose_adjust(55, 110)
                \o Feet(30) \o Feet(-30),
            request_basic_mode \o special_detection(TRUE) \o stop_movement, TRUE,
            {"pose", "detection", "moving"})

\* Mutant: the front feet are not drawn back by what they were put forward.
SniffMotionShort ==
    request_basic_mode \o default_pose_output(110)
        \o syn_foot_adjust([foot_0_x |-> 25, foot_2_x |-> 25])
        \o syn_foot_adjust([foot_0_x |-> -20, foot_2_x |-> -20])
        \o request_basic_mode

_run_sniff_motion ==
    request_basic_mode \o default_pose_output(110)
        \o syn_foot_adjust([foot_0_x |-> 25, foot_2_x |-> 25, foot_1_x |-> 25, foot_3_x |-> 25])
        \o syn_foot_adjust([foot_0_z |-> 40, foot_2_z |-> 40, foot_0_x |-> -20, foot_2_x |-> -20])
        \o send_expression \o send_audio(TRUE) \o send_audio(FALSE)
        \o syn_foot_adjust([foot_0_z |-> -40, foot_2_z |-> -40, foot_0_x |-> 20, foot_2_x |-> 20])
        \o syn_foot_adjust([foot_0_x |-> -25, foot_2_x |-> -25, foot_1_x |-> -25,
                            foot_3_x |-> -25])
        \o request_basic_mode

\* Mutant: the end of the custom action leaves the special detection off.
CustomActionBlind ==
    Ble(FALSE, TRUE, special_detection(FALSE) \o _run_sniff_motion,
        send_audio(FALSE) \o request_basic_mode \o reset, TRUE,
        {"tone", "pose", "detection", "moving", "acting"})

CustomAction ==
    Ble(FALSE, TRUE, special_detection(FALSE) \o _run_sniff_motion,
        send_audio(FALSE) \o request_basic_mode \o special_detection(TRUE) \o reset, TRUE,
        {"tone", "pose", "detection", "moving", "acting"})

Catalogue ==
    [connect_by_address |-> BleConnectByAddress, scan_and_connect |-> BleScanAndConnect,
     ws_connection_test |-> WsConnectionTest, ble_directional_move |-> BleDirectionalMove,
     ble_timed_move |-> BleTimedMove, ws_directional_move |-> WsDirectionalMove,
     ws_timed_move |-> WsTimedMove, ble_basic_actions |-> BleBasicActions,
     ws_basic_actions |-> WsBasicActions,
     ble_ears_expressions_audio |-> BleEarsExpressionsAudio,
     ws_ears_expressions_audio |-> WsEarsExpressionsAudio,
     ble_choreography |-> BleChoreography, ws_choreography |-> WsChoreography,
     ble_imu_read |-> BleImuRead, ble_tof_read |-> BleTofRead, ws_imu_read |-> WsImuRead(FALSE),
     ws_imu_read_stop |-> WsImuRead(TRUE), ws_tof_read |-> WsTofRead(FALSE),
     ws_tof_read_stop |-> WsTofRead(TRUE), safe_pose_adjust |-> SafePoseAdjust,
     custom_action |-> CustomAction]

ASSUME NamesAssumption == ProgramNames \subseteq DOMAIN Catalogue

-----------------------------------------------------------------------------
VARIABLES
    name,           \* the program that runs
    positive,       \* whether the duration on its command line is positive
    block,          \* the part of main it is in
    todo,           \* the commands of that part that are left
    tidied,         \* whether the orderly end, or the catch block, ran through
    fails,          \* the messages that failed
    link,           \* the link: "closed", "up", "stopped" or, with its host destroyed, "gone"
    entering,       \* whether a detached thread is yet to enter EDU mode
    session,        \* AiDog::eduMaybeActive_
    edu,            \* whether the robot is in an EDU session
    exited,         \* what became of the exit of the last session: "none", "sent" or "gone"
    disturbed,      \* the aspects in which the robot is not as it was found
    feet, height    \* the stance: offset of each foot coordinate, height of the body

own == << name, positive >>
robot == << disturbed, feet, height >>
eduVars == << entering, session, edu, exited >>
vars == << name, positive, block, todo, tidied, fails, link, entering, session, edu, exited,
           disturbed, feet, height >>

P == Catalogue[name]

FootOrder == {"foot_0_x", "foot_0_z", "foot_1_x", "foot_1_z",
              "foot_2_x", "foot_2_z", "foot_3_x", "foot_3_z"}

StandingHeight == 110

Level == [f \in FootOrder |-> 0]

Aspects == {"moving", "acting", "detection", "tone", "ears", "stream", "pose"}

TypeOK ==
    /\ name \in ProgramNames /\ positive \in BOOLEAN
    /\ block \in {"setup", "body", "tail", "cleanup", "leave", "ended", "aborted"}
    /\ tidied \in BOOLEAN /\ fails \in 0 .. MaxFails
    /\ link \in {"closed", "up", "stopped", "gone"}
    /\ entering \in BOOLEAN /\ session \in BOOLEAN /\ edu \in BOOLEAN
    /\ exited \in {"none", "sent", "gone"}
    /\ disturbed \subseteq Aspects
    /\ feet \in [FootOrder -> Int] /\ height \in Int

ProgramInit ==
    /\ name \in ProgramNames /\ positive \in (IF P.checked THEN {TRUE} ELSE BOOLEAN)
    /\ block = "setup" /\ todo = <<>>
    /\ tidied = FALSE /\ fails = 0 /\ link = "closed"
    /\ entering = FALSE /\ session = FALSE /\ edu = FALSE /\ exited = "none"
    /\ disturbed = {} /\ feet = Level /\ height = StandingHeight

-----------------------------------------------------------------------------
Failing == fails < MaxFails /\ fails' = fails + 1

Begin(b) == block' = b /\ todo' = P[b]

\* The destructors: a WebSocketHost is declared after its AiDog and goes first.
Destructors == IF P.link = "ws" THEN << Cmd("unlink"), Cmd("destroy"), Cmd("exit") >>
               ELSE disconnect

Leave(cmds) == block' = "leave" /\ todo' = cmds

\* A C++/WinRT exception is no std::exception: main does not catch what a GATT
\* call throws, unless a catch (...) is nearer, and the process ends at once.
Uncaught ==
    /\ P.link = "ble" /\ block # "cleanup" /\ (block = "body" => ~P.caught)
    /\ block' = "aborted" /\ UNCHANGED todo

\* Without --yes, without RUN, or with options that do not parse.
Refuse ==
    /\ block = "setup" /\ P.confirm
    /\ block' = "ended"
    /\ UNCHANGED << own, todo, tidied, fails, link, eduVars, robot >>

\* AiDog::connect: the link, and with it the session.  enter_edu_mode notes
\* the session before it is sent.
ConnectBle ==
    /\ block = "setup" /\ P.link = "ble"
    /\ \/ /\ link' = "up" /\ session' = P.auto /\ edu' = P.auto
          /\ Begin("body") /\ UNCHANGED fails
       \/ /\ Failing
          /\ link' = "closed" /\ UNCHANGED << session, edu >>
          /\ Leave(disconnect) \/ Uncaught
       \/ /\ Failing /\ P.auto
          /\ link' = "up" /\ session' = TRUE /\ edu' \in BOOLEAN
          /\ Leave(disconnect) \/ Uncaught
    /\ UNCHANGED << own, tidied, entering, exited, robot >>

\* wait_robot_connected; the host enters EDU mode on a thread of its own.
WaitRobot ==
    /\ block = "setup" /\ P.link = "ws"
    /\ \/ link' = "up" /\ entering' = P.auto /\ Begin("body") /\ UNCHANGED fails
       \/ Failing /\ Leave(Destructors) /\ UNCHANGED << link, entering >>
    /\ UNCHANGED << own, tidied, session, edu, exited, robot >>

\* The detached thread: an enter that fails leaves it by an exception.
EnterDetached ==
    /\ entering /\ block \notin {"ended", "aborted"} /\ link \in {"up", "stopped"}
    /\ entering' = FALSE /\ session' = TRUE
    /\ \/ link = "up" /\ edu' = TRUE /\ UNCHANGED << block, fails >>
       \/ Failing /\ block' = "aborted" /\ edu' \in {edu, link = "up"}
    /\ UNCHANGED << own, todo, tidied, link, exited, robot >>

-----------------------------------------------------------------------------
(***************************************************************************)
(* A message, and what the robot makes of it.                              *)
(***************************************************************************)
Marks(op) ==
    CASE op = "start" -> {"moving"}        [] op = "act" -> {"acting"}
      [] op = "detect_off" -> {"detection"} [] op = "tone_on" -> {"tone"}
      [] op = "ear_up" -> {"ears"}         [] op = "stream_on" -> {"stream"}
      [] op \in {"default", "pose", "feet"} -> {"pose"}
      [] OTHER -> {}

Clears(op) ==
    CASE op = "stop" -> {"moving"}         [] op = "interrupt" -> {"acting"}
      [] op = "detect_on" -> {"detection"} [] op = "tone_off" -> {"tone"}
      [] op = "ear_down" -> {"ears"}       [] op \in {"stream_off", "stream_try_off"} -> {"stream"}
      [] op = "basic" -> {"pose"}
      [] OTHER -> {}

Take(c) ==
    /\ disturbed' = (disturbed \ Clears(c.op)) \cup Marks(c.op)
    /\ feet' = CASE c.op = "feet" -> [f \in FootOrder |->
                        feet[f] + (IF f \in DOMAIN c.delta THEN c.delta[f] ELSE 0)]
                 [] c.op = "basic" -> Level
                 [] OTHER -> feet
    /\ height' = CASE c.op \in {"default", "pose"} -> c.to
                   [] c.op = "basic" -> StandingHeight
                   [] OTHER -> height

Local == {"check", "exit", "unlink", "destroy"}

Running == block \in {"body", "tail", "cleanup", "leave"} /\ todo # <<>>

Sending == Running /\ Head(todo).op \notin Local

\* An exception leaves the body for its catch block, the catch block's own
\* commands for the disconnect behind them, anything else for the destructors.
Throw ==
    CASE block = "body" /\ P.caught -> Begin("cleanup")
      [] block = "cleanup" -> Leave(disconnect)
      [] OTHER -> Leave(Destructors)

\* Accepted; an action may be over, or still run when its wait gives up.
Send ==
    /\ Sending /\ link = "up"
    /\ Take(Head(todo)) /\ todo' = Tail(todo)
    /\ UNCHANGED << own, block, tidied, fails, link, eduVars >>

ActionOver ==
    /\ "acting" \in disturbed
    /\ block \notin {"ended", "aborted"}
    /\ disturbed' = disturbed \ {"acting"}
    /\ UNCHANGED << own, block, todo, tidied, fails, link, eduVars, feet, height >>

\* Not written, not acknowledged or refused: the robot may have taken it.
SendFails ==
    /\ Sending /\ Failing
    /\ IF Head(todo).op = "stream_try_off" THEN todo' = Tail(todo) /\ UNCHANGED block ELSE Throw \/ Uncaught
    /\ Take(Head(todo)) \/ UNCHANGED robot
    /\ UNCHANGED << own, tidied, link, eduVars >>

\* "durationS must be positive".
CheckDuration ==
    /\ Running /\ Head(todo).op = "check"
    /\ IF positive THEN todo' = Tail(todo) /\ UNCHANGED block ELSE Throw
    /\ UNCHANGED << own, tidied, fails, link, eduVars, robot >>

\* exit_edu_mode: sent if there may be a session; its failure is swallowed.
ExitEdu ==
    /\ Running /\ Head(todo).op = "exit" /\ todo' = Tail(todo)
    /\ session' = FALSE
    /\ exited' = IF ~session THEN exited ELSE IF link = "up" THEN "sent" ELSE "gone"
    /\ \/ edu' = (edu /\ ~(session /\ link = "up")) /\ UNCHANGED fails
       \/ session /\ Failing /\ UNCHANGED edu
    /\ UNCHANGED << own, block, tidied, link, entering, robot >>

\* ITransport's disconnect, or WebSocketHost::stop.
Unlink ==
    /\ Running /\ Head(todo).op = "unlink" /\ todo' = Tail(todo)
    /\ link' = IF link = "up" THEN "stopped" ELSE link
    /\ UNCHANGED << own, block, tidied, fails, eduVars, robot >>

DestroyHost ==
    /\ Running /\ Head(todo).op = "destroy" /\ todo' = Tail(todo)
    /\ link' = "gone"
    /\ UNCHANGED << own, block, tidied, fails, eduVars, robot >>

EndOfBlock ==
    /\ block \in {"body", "tail", "cleanup", "leave"} /\ todo = <<>>
    /\ CASE block = "body" -> Begin("tail") /\ UNCHANGED tidied
         [] block = "tail" -> Leave(Destructors) /\ tidied' = TRUE
         [] block = "cleanup" -> Leave(disconnect) /\ tidied' = TRUE
         [] block = "leave" -> block' = "ended" /\ UNCHANGED << todo, tidied >>
    /\ UNCHANGED << own, fails, link, eduVars, robot >>

ProgramNext ==
    \/ Refuse \/ ConnectBle \/ WaitRobot \/ EnterDetached
    \/ Send \/ SendFails \/ ActionOver \/ CheckDuration
    \/ ExitEdu \/ Unlink \/ DestroyHost \/ EndOfBlock

ProgramSpec == ProgramInit /\ [][ProgramNext]_vars

-----------------------------------------------------------------------------
\* A program whose orderly end or whose catch block ran through leaves the
\* robot as its header comment says: standing still, the detection on again,
\* silent, in basic mode, its stream off, whatever failed in the body, and
\* whether the robot had taken it or not.
TidiedKeepsPromise ==
    tidied => P.promise \cap disturbed = {}

\* While nothing failed and the duration is one that send_movement accepts,
\* the robot walks only inside send_movement.
WalksInsideMovement ==
    (fails = 0 /\ positive /\ "moving" \in disturbed)
        => Running /\ Head(todo).op \in {"check", "stop"}

\* The steps of an adjust program join: a pose adjustment starts at the height
\* the one before left, and basic mode is asked for with every foot back where
\* it was, so that the robot does not jump, as long as nothing failed.
AdjustmentsJoin ==
    (Running /\ fails = 0) =>
        /\ Head(todo).op = "pose" => height = Head(todo).from
        /\ Head(todo).op = "basic" => feet = Level /\ height = StandingHeight

\* A BLE program that ended has tried to send the exit of its EDU session over a
\* link that was still up, on every path out of main and through its destructors.
\* (One whose exception nobody caught has not: it is "aborted".)
BleExitIsSent ==
    (block = "ended" /\ P.link = "ble") => ~session /\ exited # "gone"

\* The same of every program: the code breaks it.  The host closes its
\* connections without telling AiDog, and is destroyed before it, so the exit
\* goes through a pointer to a host that is gone.
ExitIsSent ==
    block = "ended" => ~session /\ exited # "gone"
=============================================================================
