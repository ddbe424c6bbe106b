----------------------------- MODULE SensorText -----------------------------
(***************************************************************************)
(* sensor_parser.cpp: one notification of the robot.  A JSON number is an  *)
(* integer count of thousandths; Absent is an empty optional.              *)
(***************************************************************************)
EXTENDS Integers

CONSTANTS
    Absent,
    IntHalf       \* half the values of an int: 2^31

ASSUME AbsentAssumption == Absent \notin Int
ASSUME IntAssumption == IntHalf \in Nat \ {0}

Ints == -IntHalf .. IntHalf - 1

\* get<int> of a wider integer keeps its low bits.
Narrow(n) == ((n + IntHalf) % (2 * IntHalf)) - IntHalf

Magnitude(v) == IF v < 0 THEN -v ELSE v

IntLike(v) == v % 1000 = 0

Axes == {"yaw", "pitch", "roll"}

\* The axes whose value is a number.
Given(imu) == {a \in Axes : imu[a] # Absent}

\* Mutant: small integers are never thousandths of a degree.
LooksMilliOnlyHuge(imu) == \E a \in Given(imu) : Magnitude(imu[a]) > 1000000

\* A payload is in thousandths of a degree when an angle exceeds 1000, or all
\* angles are integers and one exceeds 180.
LooksMilli(imu) ==
    \/ \E a \in Given(imu) : Magnitude(imu[a]) > 1000000
    \/ /\ \A a \in Given(imu) : IntLike(imu[a])
       /\ \E a \in Given(imu) : Magnitude(imu[a]) > 180000

\* normalize_imu_payload: degrees, in millionths.
Normalized(imu) ==
    [a \in Axes |-> IF a \notin Given(imu) THEN Absent
                    ELSE IF LooksMilli(imu) THEN imu[a] ELSE 1000 * imu[a]]

(***************************************************************************)
(* _int_value.  A value is [kind, whole, off]: an integer; a float near    *)
(* the whole number (off = 0: equal to it; -1, 1: within the tolerance,    *)
(* below or above; 2: outside it); a string that spells the whole number,  *)
(* or one that spells more than that (off # 0); anything else.             *)
(***************************************************************************)
\* The cast truncates: a float below a positive whole number loses one.
Truncated(whole, off) ==
    CASE off = -1 /\ whole > 0 -> whole - 1
      [] off = 1 /\ whole < 0 -> whole + 1
      [] OTHER -> whole

\* stoi throws on what no int holds; a float that no int holds is cast to
\* something, the argument "wild".
IntValue(value, wild) ==
    LET cast == Truncated(value.whole, value.off)
    IN  CASE value.kind = "integer" -> Narrow(value.whole)
          [] value.kind = "float" /\ value.off # 2 -> IF cast \in Ints THEN cast ELSE wild
          [] value.kind = "string" /\ value.off = 0 /\ value.whole \in Ints -> value.whole
          [] OTHER -> Absent

Nothing == [status |-> Absent, imu |-> Absent, tof |-> Absent]

\* parse_notify_json_text: text that is no object gives nothing; a member that
\* is missing, or is no object, is left out and the others are kept.
ParseNotify(text, wild) ==
    IF text.form # "object" THEN Nothing
    ELSE [status |-> IF text.status.kind = "none" THEN Absent
                     ELSE IntValue(text.status, wild),
          imu |-> IF text.imu = Absent THEN Absent ELSE Normalized(text.imu),
          tof |-> text.tof]
=============================================================================
