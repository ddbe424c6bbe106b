------------------------------ MODULE Actions ------------------------------
(***************************************************************************)
(* The action catalogue (actions.hpp, actions.cpp), what perform_action    *)
(* makes of its options, and the interaction message that carries it.  An  *)
(* action is its number; NoValue is an empty optional and Refused stands   *)
(* for std::invalid_argument.                                              *)
(***************************************************************************)
EXTENDS Integers, Sequences

CONSTANTS NoValue, Refused

ASSUME NoValueAssumption == NoValue \notin Int /\ Refused \notin Int

Clamp(v, low, high) == IF v < low THEN low ELSE IF v > high THEN high ELSE v

\* Numbers of actions that the firmware has and the SDK hides.
Hidden == {6} \cup 47 .. 51

\* enum class Action: every listed action has its ActionSpec.
Listed == (0 .. 65) \ Hidden

Timed == {4, 8, 24} \cup 29 .. 38 \cup 59 .. 63

Counted == {5, 10, 11, 12, 13} \cup 15 .. 20 \cup {22, 43}

Angled == {64, 65}

\* ActionSpec::defaultValue.
action_default(a) ==
    CASE a \in {4, 8} -> 5
      [] a \in Timed \ {4, 8} -> 3
      [] a \in {12, 15} -> 2
      [] a \in {5, 11, 16, 17, 18, 22} -> 3
      [] a \in {13, 43} -> 4
      [] a \in {10, 19} -> 5
      [] a = 20 -> 6
      [] a \in Angled -> 90
      [] OTHER -> NoValue

\* The id is narrowed to the enum's 8 bits before it is looked up.
resolve_id(id) ==
    IF id \in Hidden THEN 0
    ELSE IF id % 256 \in Listed THEN id % 256 ELSE Refused

action_aliases ==
    [idle |-> 0, slow_up |-> 1, slow_down |-> 2, sit_down |-> 7, stand_up |-> 9,
     shake_hand |-> 10, nod |-> 12, shake_head |-> 13, stretch |-> 14, pee |-> 15,
     twist |-> 16, push_up |-> 17, new_year |-> 18, wag_tail |-> 19, stomp |-> 20,
     sniff |-> 21, celebrate |-> 22, jump |-> 23, dance |-> 24, kick_ball |-> 25,
     touch_ground_right |-> 26, touch_ground_left |-> 27, play_dead |-> 28, step |-> 29,
     walk_forward |-> 30, walk_back |-> 31, turn_left |-> 32, turn_right |-> 33,
     turn_left_angle |-> 64, turn_right_angle |-> 65, left_angle |-> 64,
     right_angle |-> 65, low_forward_and_backward |-> 34, low_forward |-> 35,
     low_backward |-> 36, low_left |-> 37, low_right |-> 38, stop |-> 39,
     light_on |-> 45, light_off |-> 46, rollover_recovery_right |-> 41,
     rollover_recovery_left |-> 42, light_on_interaction |-> 45,
     light_off_interaction |-> 46, swing_left_and_right |-> 52, swing_left |-> 53,
     swing_right |-> 54, excited_inspace |-> 55, lazy_pat_pat |-> 56, cheeky_paw |-> 57,
     whining |-> 58, sniff_forward |-> 59, space_backward |-> 60, sniff_left |-> 61,
     sniff_right |-> 62, sniff_step |-> 63, sniff_forward_interaction |-> 59,
     space_backward_interaction |-> 60, sniff_left_interaction |-> 61,
     sniff_right_interaction |-> 62, sniff_step_interaction |-> 63]

resolve_name(name) ==
    IF name \in DOMAIN action_aliases THEN action_aliases[name] ELSE Refused

-----------------------------------------------------------------------------
\* options: [count, duration, angle, timeout]; the one that fits the action.
ActionParam(a, options) ==
    CASE a \in Counted /\ options.count # NoValue -> Clamp(options.count, 1, 255)
      [] a \in Timed /\ options.duration # NoValue -> Clamp(options.duration, 1, 255)
      [] a \in Angled /\ options.angle # NoValue -> Clamp(options.angle, 1, 360)
      [] OTHER -> NoValue

AtLeast(low, v) == IF v < low THEN low ELSE v

\* Mutant: a wait that the number of repetitions does not stretch.
WaitTimeoutFlat(a, options) == options.timeout

\* Seconds that perform_action waits for the end of the action.
WaitTimeout(a, options) ==
    LET p == ActionParam(a, options)
    IN  CASE p = NoValue -> options.timeout
          [] p # NoValue /\ a \in Timed -> AtLeast(p + 3, options.timeout)
          [] p # NoValue /\ a \in Counted -> AtLeast(4 * p + 3, options.timeout)
          [] p # NoValue /\ a \in Angled -> AtLeast(15, options.timeout)

\* Mutant: the angle loses its high byte.
InteractionDataNarrow(a, param) ==
    IF param = NoValue THEN << a, 0 >> ELSE << a, Clamp(param, 0, 65535) % 256 >>

\* An angle takes two bytes, the low one first; anything else takes one.
make_interaction_data(a, param) ==
    IF param = NoValue THEN << a, 0 >>
    ELSE IF a \in Angled
         THEN LET v == Clamp(param, 0, 65535) IN << a, v % 256, v \div 256 >>
         ELSE << a, Clamp(param, 0, 255) >>

\* What a robot reads that is told the message format: the action and its
\* parameter, with 0 for the action's default.
ReadInteraction(data) ==
    [action |-> data[1],
     param |-> IF Len(data) = 3 THEN data[2] + 256 * data[3] ELSE data[2]]
=============================================================================
