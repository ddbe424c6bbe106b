---------------------------- MODULE PanelButtons ----------------------------
(***************************************************************************)
(* The controls of the panel (tools/user_control_ble_win.cpp): the command *)
(* identifiers that create_*_page gives them, what on_command makes of an  *)
(* identifier, and what the joystick makes of a position of the mouse.     *)
(* What a control does is << kind >> or << kind, value >>.                 *)
(***************************************************************************)
EXTENDS Integers, Sequences

\* enum ControlId; IdPrefix, IdDeviceCombo, IdTabs, IdLog, IdHzEdit,
\* IdSensorText and IdJoystick have no command.
IdScan == 101
IdConnect == 103
IdDisconnect == 104
IdImuCheck == 107
IdTofCheck == 108
IdApplyHz == 112
IdClearPlots == 113

\* action_specs, in the order of the actions' numbers.
action_defs == [k \in 1 .. 60 |-> IF k <= 6 THEN k - 1 ELSE IF k <= 46 THEN k ELSE k + 5]

\* Without the two special numbers 14 (a percentage) and 15 (the detection).
ear_defs == [k \in 1 .. 25 |-> IF k <= 14 THEN k - 1 ELSE k + 1]

expression_defs == [k \in 1 .. 68 |-> k - 1]

tone_defs == [k \in 1 .. 26 |-> k - 1]

\* A page numbers its buttons on from a base, and keeps what each stands for.
ButtonMap(base, defs) == [id \in base .. (base + Len(defs) - 1) |-> defs[id - base + 1]]

actionMap == ButtonMap(4000, action_defs)
earMap == ButtonMap(5200, ear_defs)
expressionMap == ButtonMap(6000, expression_defs)

\* Mutant: the tones follow the expressions too closely.
ToneMapClose == ButtonMap(6060, tone_defs)

toneMap == ButtonMap(7000, tone_defs)

\* Every control that has a command, with what its label says.
Controls ==
    {[id |-> IdScan, does |-> << "scan" >>], [id |-> IdConnect, does |-> << "connect" >>],
     [id |-> IdDisconnect, does |-> << "disconnect" >>],
     [id |-> IdImuCheck, does |-> << "imu" >>], [id |-> IdTofCheck, does |-> << "tof" >>],
     [id |-> IdApplyHz, does |-> << "hz" >>], [id |-> IdClearPlots, does |-> << "clear" >>],
     [id |-> 3005, does |-> << "step" >>], [id |-> 3006, does |-> << "stop" >>],
     [id |-> 5100, does |-> << "ear_percentage" >>]}
        \cup {[id |-> k, does |-> << "action", actionMap[k] >>] : k \in DOMAIN actionMap}
        \cup {[id |-> k, does |-> << "ear", earMap[k] >>] : k \in DOMAIN earMap}
        \cup {[id |-> k, does |-> << "expression", expressionMap[k] >>] :
                k \in DOMAIN expressionMap}
        \cup {[id |-> k, does |-> << "tone", toneMap[k] >>] : k \in DOMAIN toneMap}
        \cup {[id |-> 7100 + level, does |-> << "volume", level >>] : level \in 0 .. 4}

\* The tests of on_command, in its order.
on_command(id) ==
    CASE id = IdScan -> << "scan" >>
      [] id = IdConnect -> << "connect" >>
      [] id = IdDisconnect -> << "disconnect" >>
      [] id = 5100 -> << "ear_percentage" >>
      [] id = IdImuCheck -> << "imu" >>
      [] id = IdTofCheck -> << "tof" >>
      [] id = IdApplyHz -> << "hz" >>
      [] id = IdClearPlots -> << "clear" >>
      [] id = 3005 -> << "step" >>
      [] id = 3006 -> << "stop" >>
      [] OTHER ->
         IF id \in DOMAIN actionMap THEN << "action", actionMap[id] >>
         ELSE IF id \in DOMAIN earMap THEN << "ear", earMap[id] >>
         ELSE IF id \in DOMAIN expressionMap THEN << "expression", expressionMap[id] >>
         ELSE IF id \in DOMAIN toneMap THEN << "tone", toneMap[id] >>
         ELSE IF id \in 7100 .. 7104 THEN << "volume", id - 7100 >>
         ELSE << "nothing" >>

-----------------------------------------------------------------------------
Abs(v) == IF v < 0 THEN -v ELSE v

kJoystickDeadzone == 18

\* update_joystick, by the mouse's offset from the middle: inside the dead zone
\* the movement stops, outside it the larger offset decides, y growing down.
JoystickMove(dx, dy) ==
    IF dx * dx + dy * dy < kJoystickDeadzone * kJoystickDeadzone THEN "stop"
    ELSE IF Abs(dx) > Abs(dy) THEN (IF dx > 0 THEN "Right" ELSE "Left")
    ELSE IF dy > 0 THEN "Back" ELSE "Forward"

Opposite(movement) ==
    [stop |-> "stop", Right |-> "Left", Left |-> "Right",
     Back |-> "Forward", Forward |-> "Back"][movement]
=============================================================================
