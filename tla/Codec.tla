------------------------------- MODULE Codec -------------------------------
(***************************************************************************)
(* The pure functions of the SDK as calls: each step is one call with an   *)
(* argument it may be given, and keeps the argument with the answer, so    *)
(* that the properties can compare the answer with what a reader who is    *)
(* told the format makes of it.                                            *)
(***************************************************************************)
EXTENDS Actions, Frames, SensorText, PanelButtons

CONSTANTS
    Numbers,        \* parameters, counts, durations and angles that a caller may ask for
    Timeouts,       \* ActionOptions::timeoutS
    Ids,            \* numbers given to resolve_action
    MaxItems,       \* the longest list of adjust items
    Addresses,      \* Bluetooth addresses
    Durations,      \* durations of an adjustment
    Angles,         \* angles of a notification, in thousandths
    Wholes,         \* whole numbers that a status is, or is near
    Offsets         \* offsets of the mouse from the joystick's middle

ASSUME NumbersAssumption == Numbers \subseteq Int /\ Timeouts \subseteq Nat
ASSUME IdsAssumption == Ids \subseteq Int
ASSUME AdjustAssumption == MaxItems \in Nat /\ Durations \subseteq Int
ASSUME AddressesAssumption == Addresses \subseteq 0 .. (256^AddressBytes - 1)
ASSUME AnglesAssumption == Angles \subseteq Int
ASSUME OffsetsAssumption == Offsets \subseteq Int /\ Wholes \subseteq Int

VARIABLE call       \* the last call: its function, its argument and its answer

Is(function) == call.function = function

Init == call = [function |-> "none"]

-----------------------------------------------------------------------------
Options == [count : Numbers \cup {NoValue}, duration : Numbers \cup {NoValue},
            angle : Numbers \cup {NoValue}, timeout : Timeouts]

\* perform_action: its parameter, its message and the time it waits.
Perform ==
    \E a \in Listed, o \in Options :
        call' = [function |-> "perform", action |-> a, options |-> o,
                 param |-> ActionParam(a, o), wait |-> WaitTimeout(a, o),
                 data |-> make_interaction_data(a, ActionParam(a, o))]

InteractionPacket(data) == Packet(2, [k \in DOMAIN data |-> Byte(data[k])])

\* send_interaction, over the WebSocket link in hexadecimal digits, whose parameter nobody has clamped.
Interact ==
    \E a \in Listed, p \in Numbers :
        call' = [function |-> "interact", action |-> a, param |-> p,
                 data |-> make_interaction_data(a, p),
                 hex |-> Hex(InteractionPacket(make_interaction_data(a, p)))]

Resolve ==
    \/ \E id \in Ids : call' = [function |-> "resolve", id |-> id, answer |-> resolve_id(id)]
    \/ \E n \in DOMAIN action_aliases :
            call' = [function |-> "alias", name |-> n, answer |-> resolve_name(n)]

\* The three adjustments: order of the parameters, values for each item.
Kinds == [pose |-> [order |-> kPoseOrder, width |-> 2],
          foot |-> [order |-> kFootOrder, width |-> 1],
          joint |-> [order |-> kJointOrder, width |-> 1]]

\* Items with the given names and, so that no two are alike, values that grow.
ItemsFor(names, width) ==
    [k \in DOMAIN names |-> Item(names[k], [j \in 1 .. width |-> 10 * k + j])]

Adjust ==
    \E kind \in DOMAIN Kinds, d \in Durations, n \in 0 .. MaxItems :
    \E names \in [1 .. n -> Elements(Kinds[kind].order) \cup {"unknown"}] :
        LET items == ItemsFor(names, Kinds[kind].width)
            make == CASE kind = "pose" -> make_pose_adjust_data(items, d)
                      [] kind = "foot" -> make_foot_adjust_data(items, d)
                      [] kind = "joint" -> make_joint_adjust_data(items, d)
        IN  call' = [function |-> "adjust", kind |-> kind, items |-> items, duration |-> d,
                     unfit |-> Unfit(items, Kinds[kind].order),
                     data |-> IF Unfit(items, Kinds[kind].order) THEN <<>> ELSE make]

Move ==
    \E m \in {"Forward", "Back", "Step", "Right", "Left", "stop"} :
        call' = [function |-> "move", movement |-> m,
                 data |-> IF m = "stop" THEN StopData ELSE make_movement_data(m)]

Lease ==
    \E leaseMs \in Durations, id \in {"", "dog-edu-1"} :
        call' = [function |-> "lease", lease |-> leaseMs,
                 json |-> EduSessionJson("enter", leaseMs, id)]

\* What scan reports is given back to connect.
Address ==
    \E a \in Addresses :
        call' = [function |-> "address", address |-> a,
                 answer |-> _parse_bluetooth_address(_format_bluetooth_address(a))]

Statuses == {[kind |-> "none", whole |-> 0, off |-> 0]}
    \cup [kind : {"integer", "float", "string"}, whole : Wholes, off : -1 .. 2]

Imus == [Axes -> Angles \cup {Absent}]

Texts == [form : {"text", "array", "object"}, status : Statuses,
          imu : Imus \cup {Absent}, tof : {Absent, 300}]

\* A float outside int becomes the least int, or the nearest one, by the processor.
Notify ==
    \E text \in Texts, wild \in {-IntHalf, IntHalf - 1} :
        call' = [function |-> "notify", text |-> text, answer |-> ParseNotify(text, wild)]

Press ==
    \E c \in Controls : call' = [function |-> "press", control |-> c, does |-> on_command(c.id)]

Drag ==
    \E dx, dy \in Offsets :
        call' = [function |-> "drag", dx |-> dx, dy |-> dy, movement |-> JoystickMove(dx, dy)]

Next ==
    /\ Is("none")
    /\ \/ Perform \/ Interact \/ Resolve \/ Adjust \/ Move
       \/ Lease \/ Address \/ Notify \/ Press \/ Drag

Spec == Init /\ [][Next]_call

-----------------------------------------------------------------------------
\* The interaction message says what perform_action settled on, and what
\* send_interaction was given as far as its bytes hold it.
InteractionReadsBack ==
    /\ Is("perform") => ReadInteraction(call.data) =
            [action |-> call.action, param |-> IF call.param = NoValue THEN 0 ELSE call.param]
    /\ Is("interact") => ReadInteraction(call.data) =
            [action |-> call.action,
             param |-> Clamp(call.param, 0, IF call.action \in Angled THEN 65535 ELSE 255)]

\* perform_action does not give up before an action of the length it asked for
\* can be over, nor before the time its caller granted.
WaitCoversAction ==
    Is("perform") =>
        /\ call.wait >= call.options.timeout
        /\ (call.param # NoValue /\ call.action \in Timed) => call.wait > call.param
        /\ (call.param # NoValue /\ call.action \in Counted) => call.wait > 4 * call.param

\* An id that an enumerator can have, and every alias, leads to a listed
\* action, the hidden ones to Idle.  (An id of 256 and more is narrowed first
\* and can name an action that it is not.)
ResolvesToListed ==
    /\ (Is("resolve") /\ call.id \in 0 .. 255) =>
            call.answer \in Listed \cup {Refused}
            /\ (call.answer \in Listed => call.answer = call.id \/ call.id \in Hidden)
    /\ Is("alias") => call.answer \in Listed

\* What is asked of an action is what the robot is told and what is waited for.
ActionsAsAsked == InteractionReadsBack /\ WaitCoversAction /\ ResolvesToListed

\* Whatever the order in which the caller lists them, the robot finds each
\* value under its parameter, and a list it could misread is refused; the
\* direction and the stop of a movement, the digits on the WebSocket link and
\* an address that scan formatted read back too.
FramesReadBack ==
    /\ (Is("adjust") /\ ~call.unfit) =>
            ReadAdjust(call.data, Kinds[call.kind].order, Kinds[call.kind].width)
                = Asked(call.items, call.duration)
    /\ Is("adjust") =>
            (call.unfit <=> \/ Cardinality(Elements(Names(call.items))) # Len(call.items)
                            \/ Len(call.items) = 0
                            \/ "unknown" \in Elements(Names(call.items)))
    /\ Is("move") =>
            /\ Size(call.data) = 54
            /\ call.data[2].value = IF call.movement = "stop" THEN 5
                                    ELSE _movement_state(call.movement)
    /\ Is("interact") => ReadHex(call.hex) = InteractionPacket(call.data)
    /\ Is("address") => call.answer = call.address
    /\ Is("lease") => call.json.lease_ms >= 1000 /\ call.json.lease_ms >= call.lease

\* The truth of a payload in unit u (thousandths of a degree, or degrees).
Truth(imu, u) == [a \in Axes |-> IF imu[a] = Absent THEN Absent
                                 ELSE IF u = "milli" THEN imu[a] ELSE 1000 * imu[a]]

\* A robot that reports whole thousandths of a degree is understood as soon as
\* one angle exceeds 0.18 degrees, and one that reports degrees is as long as
\* it stays within 180; all axes are taken in one unit.  A status that is a whole
\* number in the range of int is that number, in whatever JSON type.
NotifyReadsBack ==
    Is("notify") =>
        /\ (call.text.form = "object" /\ call.text.imu # Absent) =>
            LET imu == call.text.imu
            IN  /\ (/\ \A a \in Given(imu) : IntLike(imu[a])
                    /\ \E a \in Given(imu) : Magnitude(imu[a]) > 180000)
                       => call.answer.imu = Truth(imu, "milli")
                /\ (\A a \in Given(imu) : Magnitude(imu[a]) <= 180000)
                       => call.answer.imu = Truth(imu, "degrees")
                /\ call.answer.imu \in {Truth(imu, "milli"), Truth(imu, "degrees")}
        /\ (/\ call.text.form = "object" /\ call.text.status.kind # "none"
            /\ call.text.status.off = 0 /\ call.text.status.whole \in Ints)
               => call.answer.status = call.text.status.whole
        /\ call.text.form # "object" => call.answer = Nothing

\* Every control does what its label says, no two share an identifier, and the
\* joystick pushed the other way gives the opposite movement.
ControlsDoAsLabelled ==
    /\ Is("press") =>
            /\ call.does = call.control.does
            /\ \A c \in Controls : c.id = call.control.id => c = call.control
    /\ Is("drag") => JoystickMove(-call.dx, -call.dy) = Opposite(call.movement)
=============================================================================
