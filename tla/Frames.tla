------------------------------- MODULE Frames -------------------------------
(***************************************************************************)
(* The binary messages of protocol.cpp.  A message is a sequence of words: *)
(* a byte, or a float with its value in hundredths; Size gives its bytes.  *)
(***************************************************************************)
EXTENDS Integers, Sequences, FiniteSets, TLC

LOCAL INSTANCE SequencesExt

CONSTANTS
    AddressBytes,   \* bytes of a Bluetooth address
    Invalid         \* the answer of a parser that throws

ASSUME AddressAssumption == AddressBytes \in Nat \ {0}

Byte(v) == [bytes |-> 1, value |-> v % 256]

Float(v) == [bytes |-> 4, value |-> v]

Size(message) == FoldLeft(LAMBDA n, w : n + w.bytes, 0, message)

\* _append_u16_le
U16(v) ==
    LET c == IF v < 0 THEN 0 ELSE IF v > 65535 THEN 65535 ELSE v
    IN  << Byte(c % 256), Byte(c \div 256) >>

ReadU16(low, high) == low.value + 256 * high.value

kPoseOrder == << "cog_x", "cog_z", "roll", "pitch" >>

kFootOrder == << "foot_0_x", "foot_0_z", "foot_1_x", "foot_1_z",
                 "foot_2_x", "foot_2_z", "foot_3_x", "foot_3_z" >>

kJointOrder == << "joint_0_1", "joint_0_2", "joint_1_1", "joint_1_2",
                  "joint_2_1", "joint_2_2", "joint_3_1", "joint_3_2" >>

Elements(s) == {s[k] : k \in DOMAIN s}

IndexIn(order, n) == CHOOSE k \in DOMAIN order : order[k] = n

Bits(order, names) == FoldLeft(LAMBDA mask, k : mask + (IF order[k] \in names THEN 2^(k - 1) ELSE 0),
                               0, [k \in DOMAIN order |-> k])

Names(items) == [k \in DOMAIN items |-> items[k].name]

\* invalid_argument: no item, an unknown name, a name twice.
Unfit(items, order) ==
    \/ items = <<>>
    \/ ~(Elements(Names(items)) \subseteq Elements(order))
    \/ ~IsInjective(Names(items))

\* Mutant: the values are sent in the caller's order.
AdjustDataUnsorted(items, durationMs, subMode, order) ==
    << Byte(subMode), Byte(Bits(order, Elements(Names(items)))) >> \o U16(durationMs)
        \o FlattenSeq([k \in DOMAIN items |-> items[k].values])

\* _make_delta_adjust_data and make_pose_adjust_data, whose items hold one
\* value (the delta) or two (now and end).
AdjustData(items, durationMs, subMode, order) ==
    LET sorted == SortSeq(items, LAMBDA x, y : IndexIn(order, x.name) < IndexIn(order, y.name))
    IN  << Byte(subMode), Byte(Bits(order, Elements(Names(items)))) >> \o U16(durationMs)
            \o FlattenSeq([k \in DOMAIN sorted |-> sorted[k].values])

Item(n, values) == [name |-> n, values |-> [k \in DOMAIN values |-> Float(values[k])]]

make_pose_adjust_data(items, durationMs) == AdjustData(items, durationMs, 1, kPoseOrder)

make_foot_adjust_data(items, durationMs) == AdjustData(items, durationMs, 2, kFootOrder)

make_joint_adjust_data(items, durationMs) == AdjustData(items, durationMs, 3, kJointOrder)

_movement_state(direction) ==
    [Forward |-> 0, Back |-> 1, Step |-> 2, Right |-> 3, Left |-> 4][direction]

\* Speed, gait and stance are the same in every movement.
make_movement_data(direction) ==
    << Byte(1), Byte(_movement_state(direction)), Byte(100) >>
        \o [k \in 1 .. 6 |-> Byte(0)] \o << Byte(500 \div 256), Byte(500), Byte(75), Byte(35) >>
        \o << Float(50), Float(50), Float(1), Float(800), Float(500), Byte(0), Float(50),
              Float(0), Float(314), Float(314), Float(0) >>

\* AiDog::stop_movement overwrites the direction of a forward movement.
StopData == [make_movement_data("Forward") EXCEPT ![2] = Byte(5)]

\* make_raw_packet
Packet(mode, data) == << Byte(170), Byte(85), Byte(0), Byte(mode) >> \o data

\* bytes_to_hex: two digits for each byte.
Hex(message) ==
    FlattenSeq([k \in DOMAIN message |-> << message[k].value \div 16, message[k].value % 16 >>])

\* make_edu_session_json: the lease, and an id unless it is empty.
EduSessionJson(action, leaseMs, id) ==
    [cmd |-> "edu_session", action |-> action,
     lease_ms |-> IF leaseMs < 1000 THEN 1000 ELSE leaseMs,
     keys |-> {"cmd", "action", "lease_ms"} \cup (IF id = "" THEN {} ELSE {"id"})]

(***************************************************************************)
(* Bluetooth addresses: a text is a sequence of digits, 0 to 15, and       *)
(* separators; an address has AddressBytes bytes, six of them in the code. *)
(***************************************************************************)
Separator == 16

NoDigit == 17

Numeral(digits, base) == FoldLeft(LAMBDA v, d : base * v + d, 0, digits)

\* A separator or a letter makes it hexadecimal, otherwise it is decimal.
_parse_bluetooth_address(text) ==
    LET digits == SelectSeq(text, LAMBDA c : c # Separator)
    IN  IF NoDigit \in Elements(text) \/ digits = <<>> THEN Invalid
        ELSE IF \E k \in DOMAIN text : text[k] >= 10
             THEN IF Len(digits) > 2 * AddressBytes THEN Invalid ELSE Numeral(digits, 16)
             ELSE Numeral(digits, 10)

_format_bluetooth_address(address) ==
    LET byte(k) == (address \div 256^(AddressBytes - k)) % 256
    IN  FlattenSeq([k \in 1 .. AddressBytes |->
            (IF k = 1 THEN <<>> ELSE << Separator >>) \o << byte(k) \div 16, byte(k) % 16 >>])

-----------------------------------------------------------------------------
(***************************************************************************)
(* What a robot reads that is told the format: the mask names the          *)
(* parameters that are present, their values follow in the robot's order.  *)
(***************************************************************************)
Present(order, mask) == {k \in DOMAIN order : (mask \div 2^(k - 1)) % 2 = 1}

ReadAdjust(data, order, width) ==
    LET at == Present(order, data[2].value)
        Rank(k) == Cardinality({j \in at : j < k})
    IN  [duration |-> ReadU16(data[3], data[4]),
         values |-> [n \in {order[k] : k \in at} |->
             [j \in 1 .. width |-> data[4 + width * Rank(IndexIn(order, n)) + j].value]]]

\* What the caller asked for.
Asked(items, durationMs) ==
    [duration |-> IF durationMs < 0 THEN 0 ELSE IF durationMs > 65535 THEN 65535 ELSE durationMs,
     values |-> [n \in Elements(Names(items)) |->
         LET i == CHOOSE k \in DOMAIN items : items[k].name = n
         IN  [j \in DOMAIN items[i].values |-> items[i].values[j].value]]]

\* The bytes that a line of hexadecimal digits stands for.
ReadHex(digits) == [k \in 1 .. Len(digits) \div 2 |-> Byte(16 * digits[2 * k - 1] + digits[2 * k])]
=============================================================================
