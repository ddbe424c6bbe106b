--------------------------- MODULE Commands_proofs ---------------------------
(***************************************************************************)
(* What is told to the robot.  Codec's properties of actions,              *)
(* notifications and the joystick, for every argument; and the example     *)
(* programs of Programs, for any set of them, any number of failing        *)
(* messages and either duration.                                           *)
(***************************************************************************)
EXTENDS Codec, Programs, TLAPS

\* An angle's two bytes hold every value up to 65535.
LEMMA TwoBytes ==
    ASSUME NEW v \in Int, 0 <= v, v <= 65535
    PROVE  (v % 256) + 256 * (v \div 256) = v
  OBVIOUS

\* The parameter that perform_action settles on, by the kind of the action.
LEMMA ParamRange ==
    ASSUME NEW a \in Listed, NEW o \in Options, ActionParam(a, o) # NoValue
    PROVE  /\ ActionParam(a, o) \in 1 .. 360
           /\ a \notin Angled => ActionParam(a, o) \in 1 .. 255
           /\ a \in Counted \cup Timed \cup Angled
  <1>1. /\ o.count \in Int \cup {NoValue} /\ o.duration \in Int \cup {NoValue}
        /\ o.angle \in Int \cup {NoValue}
    BY NumbersAssumption DEF Options
  <1>2. CASE a \in Counted /\ o.count # NoValue
    <2>1. ActionParam(a, o) = Clamp(o.count, 1, 255)
      BY <1>2 DEF ActionParam, Counted, Timed, Angled
    <2>2. Clamp(o.count, 1, 255) \in 1 .. 255
      <3>1. o.count \in Int
        BY <1>1, <1>2
      <3> QED BY <3>1 DEF Clamp
    <2> QED BY <1>2, <2>1, <2>2
  <1>3. CASE ~(a \in Counted /\ o.count # NoValue) /\ a \in Timed /\ o.duration # NoValue
    <2>1. ActionParam(a, o) = Clamp(o.duration, 1, 255)
      BY <1>3 DEF ActionParam, Counted, Timed, Angled
    <2>2. Clamp(o.duration, 1, 255) \in 1 .. 255
      <3>1. o.duration \in Int
        BY <1>1, <1>3
      <3> QED BY <3>1 DEF Clamp
    <2> QED BY <1>3, <2>1, <2>2
  <1>4. CASE /\ ~(a \in Counted /\ o.count # NoValue)
             /\ ~(a \in Timed /\ o.duration # NoValue)
             /\ a \in Angled /\ o.angle # NoValue
    <2>1. ActionParam(a, o) = Clamp(o.angle, 1, 360)
      BY <1>4 DEF ActionParam
    <2>2. Clamp(o.angle, 1, 360) \in 1 .. 360
      <3>1. o.angle \in Int
        BY <1>1, <1>4
      <3> QED BY <3>1 DEF Clamp
    <2> QED BY <1>4, <2>1, <2>2
  <1>5. CASE /\ ~(a \in Counted /\ o.count # NoValue)
             /\ ~(a \in Timed /\ o.duration # NoValue)
             /\ ~(a \in Angled /\ o.angle # NoValue)
    BY <1>5 DEF ActionParam
  <1> QED BY <1>2, <1>3, <1>4, <1>5

\* A clamped value fits its two bytes.
LEMMA ClampedRange ==
    ASSUME NEW v \in Int
    PROVE  /\ Clamp(v, 0, 65535) \in Int
           /\ 0 <= Clamp(v, 0, 65535) /\ Clamp(v, 0, 65535) <= 65535
  BY DEF Clamp

\* The timeout of an option is a number.
LEMMA TimeoutType ==
    ASSUME NEW o \in Options
    PROVE  o.timeout \in Int
  <1>1. o.timeout \in Timeouts
    BY DEF Options
  <1>2. \A t \in Timeouts : t \in Nat
    BY NumbersAssumption
  <1>3. o.timeout \in Nat
    BY <1>1, <1>2
  <1> QED BY <1>3

\* The robot reads the action and the parameter out of the message, the
\* parameter being cut to what its bytes hold.
LEMMA MessageReadsBack ==
    ASSUME NEW a \in Listed, NEW p \in Int, p # NoValue
    PROVE  ReadInteraction(make_interaction_data(a, p)) =
               [action |-> a, param |-> Clamp(p, 0, IF a \in Angled THEN 65535 ELSE 255)]
  <1>1. CASE a \in Angled
    <2>1. PICK c \in Int : c = Clamp(p, 0, 65535) /\ 0 <= c /\ c <= 65535
      BY ClampedRange
    <2>2. make_interaction_data(a, p) = << a, c % 256, c \div 256 >>
      BY <1>1, <2>1 DEF make_interaction_data
    <2>3. ReadInteraction(<< a, c % 256, c \div 256 >>) =
              [action |-> a, param |-> (c % 256) + 256 * (c \div 256)]
      BY DEF ReadInteraction
    <2>4. (c % 256) + 256 * (c \div 256) = c
      BY <2>1, TwoBytes
    <2> QED BY <1>1, <2>1, <2>2, <2>3, <2>4
  <1>2. CASE a \notin Angled
    <2>1. make_interaction_data(a, p) = << a, Clamp(p, 0, 255) >>
      BY <1>2 DEF make_interaction_data
    <2>2. ReadInteraction(<< a, Clamp(p, 0, 255) >>) = [action |-> a, param |-> Clamp(p, 0, 255)]
      BY DEF ReadInteraction
    <2> QED BY <1>2, <2>1, <2>2
  <1> QED BY <1>1, <1>2

-----------------------------------------------------------------------------
\* What perform_action sends and waits for.
LEMMA PerformStep == Perform => ActionsAsAsked'
  <1> SUFFICES ASSUME NEW a \in Listed, NEW o \in Options,
                      call' = [function |-> "perform", action |-> a, options |-> o,
                               param |-> ActionParam(a, o), wait |-> WaitTimeout(a, o),
                               data |-> make_interaction_data(a, ActionParam(a, o))]
               PROVE  ActionsAsAsked'
    BY DEF Perform
  <1> DEFINE p == ActionParam(a, o)
  <1>1. /\ call'.function = "perform" /\ call'.action = a /\ call'.options = o
        /\ call'.param = p /\ call'.wait = WaitTimeout(a, o)
        /\ call'.data = make_interaction_data(a, p)
    OBVIOUS
  <1>2. o.timeout \in Int
    BY TimeoutType
  <1>3. p # NoValue => /\ p \in 1 .. 360
                       /\ a \notin Angled => p \in 1 .. 255
                       /\ a \in Counted \cup Timed \cup Angled
    BY ParamRange
  <1>4. InteractionReadsBack'
    <2>1. CASE p = NoValue
      <3>1. make_interaction_data(a, p) = << a, 0 >>
        BY <2>1 DEF make_interaction_data
      <3>2. ReadInteraction(<< a, 0 >>) = [action |-> a, param |-> 0]
        BY DEF ReadInteraction
      <3> QED BY <1>1, <2>1, <3>1, <3>2 DEF InteractionReadsBack, Is
    <2>2. CASE p # NoValue
      <3>1. ReadInteraction(make_interaction_data(a, p)) =
                [action |-> a, param |-> Clamp(p, 0, IF a \in Angled THEN 65535 ELSE 255)]
        <4>1. p \in Int
          BY <1>3, <2>2
        <4> HIDE DEF p
        <4> QED BY <2>2, <4>1, MessageReadsBack
      <3>2. Clamp(p, 0, IF a \in Angled THEN 65535 ELSE 255) = p
        BY <1>3, <2>2 DEF Clamp
      <3> QED BY <1>1, <2>2, <3>1, <3>2 DEF InteractionReadsBack, Is
    <2> QED BY <2>1, <2>2
  <1>5. WaitCoversAction'
    <2>1. /\ WaitTimeout(a, o) >= o.timeout
          /\ (p # NoValue /\ a \in Timed) => WaitTimeout(a, o) > p
          /\ (p # NoValue /\ a \in Counted) => WaitTimeout(a, o) > 4 * p
      <3> HIDE DEF p
      <3>1. CASE p = NoValue
        <4>1. WaitTimeout(a, o) = o.timeout
          BY <3>1 DEF WaitTimeout, p
        <4> QED BY <1>2, <3>1, <4>1
      <3>2. CASE p # NoValue /\ a \in Timed
        <4>1. WaitTimeout(a, o) = AtLeast(p + 3, o.timeout)
          BY <3>2 DEF WaitTimeout, p, Timed, Counted, Angled
        <4>2. a \notin Counted
          BY <3>2 DEF Timed, Counted
        <4> QED BY <1>2, <1>3, <3>2, <4>1, <4>2 DEF AtLeast
      <3>3. CASE p # NoValue /\ a \in Counted
        <4>1. a \notin Timed
          BY <3>3 DEF Timed, Counted
        <4>2. WaitTimeout(a, o) = AtLeast(4 * p + 3, o.timeout)
          BY <3>3, <4>1 DEF WaitTimeout, p, Timed, Counted, Angled
        <4> QED BY <1>2, <1>3, <3>3, <4>1, <4>2 DEF AtLeast
      <3>4. CASE p # NoValue /\ a \in Angled
        <4>1. a \notin Timed /\ a \notin Counted
          BY <3>4 DEF Timed, Counted, Angled
        <4>2. WaitTimeout(a, o) = AtLeast(15, o.timeout)
          BY <3>4, <4>1 DEF WaitTimeout, p
        <4> QED BY <1>2, <4>1, <4>2 DEF AtLeast
      <3> QED BY <1>3, <3>1, <3>2, <3>3, <3>4
    <2> QED BY <1>1, <2>1 DEF WaitCoversAction, Is
  <1>6. ResolvesToListed'
    BY <1>1 DEF ResolvesToListed, Is
  <1> QED BY <1>4, <1>5, <1>6 DEF ActionsAsAsked

\* What send_interaction sends.
LEMMA InteractStep == Interact => ActionsAsAsked'
  <1> SUFFICES ASSUME NEW a \in Listed, NEW p \in Numbers,
                      call' = [function |-> "interact", action |-> a, param |-> p,
                               data |-> make_interaction_data(a, p),
                               hex |-> Hex(InteractionPacket(make_interaction_data(a, p)))]
               PROVE  ActionsAsAsked'
    BY DEF Interact
  <1>1. /\ call'.function = "interact" /\ call'.action = a /\ call'.param = p
        /\ call'.data = make_interaction_data(a, p)
    OBVIOUS
  <1>2. p \in Int /\ p # NoValue
    BY NumbersAssumption, NoValueAssumption
  <1>3. InteractionReadsBack'
    BY <1>1, <1>2, MessageReadsBack DEF InteractionReadsBack, Is
  <1>4. WaitCoversAction' /\ ResolvesToListed'
    BY <1>1 DEF WaitCoversAction, ResolvesToListed, Is
  <1> QED BY <1>3, <1>4 DEF ActionsAsAsked

\* What an id or an alias resolves to.
LEMMA ResolveStep == Resolve => ActionsAsAsked'
  <1> SUFFICES ASSUME Resolve PROVE ActionsAsAsked'
    OBVIOUS
  <1>1. CASE \E id \in Ids :
                call' = [function |-> "resolve", id |-> id, answer |-> resolve_id(id)]
    <2> PICK id \in Ids :
                call' = [function |-> "resolve", id |-> id, answer |-> resolve_id(id)]
      BY <1>1
    <2>1. call'.function = "resolve" /\ call'.id = id /\ call'.answer = resolve_id(id)
      OBVIOUS
    <2>2. id \in 0 .. 255 => /\ resolve_id(id) \in Listed \cup {Refused}
                             /\ resolve_id(id) \in Listed => resolve_id(id) = id \/ id \in Hidden
      <3> SUFFICES ASSUME id \in 0 .. 255
                   PROVE  /\ resolve_id(id) \in Listed \cup {Refused}
                          /\ resolve_id(id) \in Listed => resolve_id(id) = id \/ id \in Hidden
        OBVIOUS
      <3>1. id % 256 = id
        OBVIOUS
      <3>2. 0 \in Listed
        BY DEF Listed, Hidden
      <3>3. Refused \notin Listed
        BY NoValueAssumption DEF Listed
      <3> QED BY <3>1, <3>2, <3>3 DEF resolve_id
    <2>3. ResolvesToListed'
      BY <2>1, <2>2 DEF ResolvesToListed, Is
    <2>4. InteractionReadsBack' /\ WaitCoversAction'
      BY <2>1 DEF InteractionReadsBack, WaitCoversAction, Is
    <2> QED BY <2>3, <2>4 DEF ActionsAsAsked
  <1>2. CASE \E n \in DOMAIN action_aliases :
                call' = [function |-> "alias", name |-> n, answer |-> resolve_name(n)]
    <2> PICK n \in DOMAIN action_aliases :
                call' = [function |-> "alias", name |-> n, answer |-> resolve_name(n)]
      BY <1>2
    <2>1. call'.function = "alias" /\ call'.answer = action_aliases[n]
      BY DEF resolve_name
    <2>2. action_aliases[n] \in Listed
      BY DEF action_aliases, Listed, Hidden
    <2>3. ResolvesToListed'
      BY <2>1, <2>2 DEF ResolvesToListed, Is
    <2>4. InteractionReadsBack' /\ WaitCoversAction'
      BY <2>1 DEF InteractionReadsBack, WaitCoversAction, Is
    <2> QED BY <2>3, <2>4 DEF ActionsAsAsked
  <1> QED BY <1>1, <1>2 DEF Resolve

\* The steps that call none of a property's functions.
LEMMA OtherSteps ==
    /\ Adjust => call'.function = "adjust"
    /\ Move => call'.function = "move"
    /\ Lease => call'.function = "lease"
    /\ Address => call'.function = "address"
    /\ Notify => call'.function = "notify"
    /\ Press => call'.function = "press"
    /\ Drag => call'.function = "drag"
    /\ Perform => call'.function = "perform"
    /\ Interact => call'.function = "interact"
    /\ Resolve => call'.function \in {"resolve", "alias"}
  <1>1. Adjust => call'.function = "adjust"
    BY DEF Adjust
  <1>2. Move => call'.function = "move"
    BY DEF Move
  <1>3. Lease => call'.function = "lease"
    <2> SUFFICES ASSUME Lease PROVE call'.function = "lease"
      OBVIOUS
    <2>1. PICK leaseMs \in Durations, id \in {"", "dog-edu-1"} :
            call' = [function |-> "lease", lease |-> leaseMs,
                     json |-> EduSessionJson("enter", leaseMs, id)]
      BY Zenon DEF Lease
    <2> QED BY <2>1
  <1>4. Address => call'.function = "address"
    BY DEF Address
  <1>5. Notify => call'.function = "notify"
    BY DEF Notify
  <1>6. Press => call'.function = "press"
    BY DEF Press
  <1>7. Drag => call'.function = "drag"
    BY DEF Drag
  <1>8. Perform => call'.function = "perform"
    BY DEF Perform
  <1>9. Interact => call'.function = "interact"
    BY DEF Interact
  <1>10. Resolve => call'.function \in {"resolve", "alias"}
    BY DEF Resolve
  <1> QED BY <1>1, <1>2, <1>3, <1>4, <1>5, <1>6, <1>7, <1>8, <1>9, <1>10

\* For every parameter, timeout and id, and every alias: the interaction
\* message reads back, the wait covers the action, and what is resolved is a
\* listed action.
THEOREM ActionsHold == Spec => []ActionsAsAsked
  <1>1. Init => ActionsAsAsked
    BY DEF Init, ActionsAsAsked, InteractionReadsBack, WaitCoversAction, ResolvesToListed, Is
  <1>2. ActionsAsAsked /\ [Next]_call => ActionsAsAsked'
    <2> SUFFICES ASSUME ActionsAsAsked, [Next]_call PROVE ActionsAsAsked'
      OBVIOUS
    <2>1. CASE Perform
      BY <2>1, PerformStep
    <2>2. CASE Interact
      BY <2>2, InteractStep
    <2>3. CASE Resolve
      BY <2>3, ResolveStep
    <2>4. CASE Adjust \/ Move \/ Lease \/ Address \/ Notify \/ Press \/ Drag
      <3>1. call'.function \in {"adjust", "move", "lease", "address", "notify", "press", "drag"}
        BY <2>4, OtherSteps
      <3> QED BY <3>1 DEF ActionsAsAsked, InteractionReadsBack, WaitCoversAction,
                          ResolvesToListed, Is
    <2>5. CASE UNCHANGED call
      BY <2>5 DEF ActionsAsAsked, InteractionReadsBack, WaitCoversAction, ResolvesToListed, Is
    <2> QED BY <2>1, <2>2, <2>3, <2>4, <2>5 DEF Next
  <1> QED BY <1>1, <1>2, PTL DEF Spec

-----------------------------------------------------------------------------
\* Whole thousandths of a degree are recognised once an angle exceeds 0.18
\* degrees, degrees while they stay within 180, and the axes share a unit.
LEMMA NormalizedTruth ==
    ASSUME NEW imu \in Imus
    PROVE  /\ (/\ \A a \in Given(imu) : IntLike(imu[a])
               /\ \E a \in Given(imu) : Magnitude(imu[a]) > 180000)
                  => Normalized(imu) = Truth(imu, "milli")
           /\ (\A a \in Given(imu) : Magnitude(imu[a]) <= 180000)
                  => Normalized(imu) = Truth(imu, "degrees")
           /\ Normalized(imu) \in {Truth(imu, "milli"), Truth(imu, "degrees")}
  <1>1. LooksMilli(imu) => Normalized(imu) = Truth(imu, "milli")
    BY DEF Normalized, Truth, Given
  <1>2. ~LooksMilli(imu) => Normalized(imu) = Truth(imu, "degrees")
    BY DEF Normalized, Truth, Given
  <1>3. ASSUME \A a \in Given(imu) : IntLike(imu[a]),
               \E a \in Given(imu) : Magnitude(imu[a]) > 180000
        PROVE  LooksMilli(imu)
    BY <1>3 DEF LooksMilli
  <1>4. ASSUME \A a \in Given(imu) : Magnitude(imu[a]) <= 180000
        PROVE  ~LooksMilli(imu)
    <2>1. \A a \in Given(imu) : Magnitude(imu[a]) \in Int
      <3>1. \A a \in Given(imu) : imu[a] \in Int
        BY AnglesAssumption DEF Given, Imus
      <3> QED BY <3>1 DEF Magnitude
    <2>2. \A a \in Given(imu) : ~(Magnitude(imu[a]) > 1000000) /\ ~(Magnitude(imu[a]) > 180000)
      BY <1>4, <2>1
    <2> QED BY <2>2 DEF LooksMilli
  <1> QED BY <1>1, <1>2, <1>3, <1>4

\* get<int> leaves what fits in an int as it is.
LEMMA NarrowFits == ASSUME NEW n \in Ints PROVE Narrow(n) = n
  <1>1. n \in Int /\ n + IntHalf \in 0 .. 2 * IntHalf - 1
    BY IntAssumption DEF Ints
  <1>2. \A m \in Nat \ {0} : \A k \in 0 .. m - 1 : k % m = k
    OBVIOUS
  <1>3. (n + IntHalf) % (2 * IntHalf) = n + IntHalf
    BY <1>1, <1>2, IntAssumption
  <1> QED BY <1>1, <1>3, IntAssumption DEF Narrow

\* A status that is a whole number an int holds, in whatever JSON type, is that
\* number.
LEMMA StatusTruth ==
    ASSUME NEW status \in Statuses, NEW wild,
           status.kind # "none", status.off = 0, status.whole \in Ints
    PROVE  IntValue(status, wild) = status.whole
  <1>1. status.kind \in {"integer", "float", "string"}
    BY DEF Statuses
  <1>2. Truncated(status.whole, 0) = status.whole
    BY DEF Truncated
  <1>3. Narrow(status.whole) = status.whole
    BY NarrowFits
  <1> QED BY <1>1, <1>2, <1>3 DEF IntValue

\* Every notification, whatever angles it holds.
LEMMA NotifyStep == Notify => NotifyReadsBack'
  <1> SUFFICES ASSUME Notify PROVE NotifyReadsBack'
    OBVIOUS
  <1>1. PICK text \in Texts, wild \in {-IntHalf, IntHalf - 1} :
            call' = [function |-> "notify", text |-> text,
                     answer |-> ParseNotify(text, wild)]
    BY DEF Notify
  <1>2. call'.text = text /\ call'.answer = ParseNotify(text, wild)
    BY <1>1
  <1> DEFINE form == text.form  status == text.status  imu == text.imu
  <1>3. status \in Statuses /\ imu \in Imus \cup {Absent}
    BY DEF Texts
  <1>4. form # "object" => ParseNotify(text, wild) = Nothing
    BY DEF ParseNotify
  <1>5. (form = "object" /\ imu # Absent) => ParseNotify(text, wild).imu = Normalized(imu)
    BY DEF ParseNotify
  <1>6. (form = "object" /\ status.kind # "none" /\ status.off = 0 /\ status.whole \in Ints) =>
           ParseNotify(text, wild).status = status.whole
    BY <1>3, StatusTruth DEF ParseNotify
  <1>7. (form = "object" /\ imu # Absent) =>
           /\ (/\ \A a \in Given(imu) : IntLike(imu[a])
               /\ \E a \in Given(imu) : Magnitude(imu[a]) > 180000)
                  => ParseNotify(text, wild).imu = Truth(imu, "milli")
           /\ (\A a \in Given(imu) : Magnitude(imu[a]) <= 180000)
                  => ParseNotify(text, wild).imu = Truth(imu, "degrees")
           /\ ParseNotify(text, wild).imu \in {Truth(imu, "milli"), Truth(imu, "degrees")}
    BY <1>3, <1>5, NormalizedTruth
  <1> QED BY <1>2, <1>4, <1>6, <1>7 DEF NotifyReadsBack

\* For every angle: a notification is read in the unit it was written in,
\* within the limits that the property names.
THEOREM NotifyHolds == Spec => []NotifyReadsBack
  <1>1. Init => NotifyReadsBack
    BY DEF Init, NotifyReadsBack, Is
  <1>2. NotifyReadsBack /\ [Next]_call => NotifyReadsBack'
    <2> SUFFICES ASSUME NotifyReadsBack, [Next]_call PROVE NotifyReadsBack'
      OBVIOUS
    <2>1. CASE Notify
      BY <2>1, NotifyStep
    <2>2. CASE Perform \/ Interact \/ Resolve \/ Adjust \/ Move \/ Lease \/ Address \/ Press \/ Drag
      <3>1. call'.function # "notify"
        BY <2>2, OtherSteps
      <3> QED BY <3>1 DEF NotifyReadsBack, Is
    <2>3. CASE UNCHANGED call
      BY <2>3 DEF NotifyReadsBack, Is
    <2> QED BY <2>1, <2>2, <2>3 DEF Next
  <1> QED BY <1>1, <1>2, PTL DEF Spec

-----------------------------------------------------------------------------
\* The joystick pushed the other way gives the opposite movement, wherever
\* the mouse is.
LEMMA JoystickIsSymmetric ==
    ASSUME NEW dx \in Int, NEW dy \in Int
    PROVE  JoystickMove(-dx, -dy) = Opposite(JoystickMove(dx, dy))
  <1>1. (-dx) * (-dx) + (-dy) * (-dy) = dx * dx + dy * dy
    OBVIOUS
  <1>2. Abs(-dx) = Abs(dx) /\ Abs(-dy) = Abs(dy)
    BY DEF Abs
  <1>3. CASE dx * dx + dy * dy < kJoystickDeadzone * kJoystickDeadzone
    BY <1>1, <1>3 DEF JoystickMove, Opposite
  <1>4. CASE ~(dx * dx + dy * dy < kJoystickDeadzone * kJoystickDeadzone) /\ Abs(dx) > Abs(dy)
    <2>1. dx # 0
      BY <1>4 DEF Abs
    <2> QED BY <1>1, <1>2, <1>4, <2>1 DEF JoystickMove, Opposite
  <1>5. CASE /\ ~(dx * dx + dy * dy < kJoystickDeadzone * kJoystickDeadzone)
             /\ ~(Abs(dx) > Abs(dy))
    <2>1. dy # 0
      <3> SUFFICES ASSUME dy = 0 PROVE FALSE
        OBVIOUS
      <3>1. dx = 0
        BY <1>5 DEF Abs
      <3> QED BY <1>5, <3>1 DEF kJoystickDeadzone
    <2> QED BY <1>1, <1>2, <1>5, <2>1 DEF JoystickMove, Opposite
  <1> QED BY <1>3, <1>4, <1>5

\* The identifiers of each page's buttons.
LEMMA PageIds ==
    /\ DOMAIN actionMap = 4000 .. 4059
    /\ DOMAIN earMap = 5200 .. 5224
    /\ DOMAIN expressionMap = 6000 .. 6067
    /\ DOMAIN toneMap = 7000 .. 7025
  <1>1. ASSUME NEW n \in Nat, NEW f \in [1 .. n -> Int] PROVE Len(f) = n
    OBVIOUS
  <1>2. Len(action_defs) = 60
    <2>1. action_defs \in [1 .. 60 -> Int]
      BY DEF action_defs
    <2> QED BY <1>1, <2>1
  <1>3. Len(ear_defs) = 25
    <2>1. ear_defs \in [1 .. 25 -> Int]
      BY DEF ear_defs
    <2> QED BY <1>1, <2>1
  <1>4. Len(expression_defs) = 68
    <2>1. expression_defs \in [1 .. 68 -> Int]
      BY DEF expression_defs
    <2> QED BY <1>1, <2>1
  <1>5. Len(tone_defs) = 26
    <2>1. tone_defs \in [1 .. 26 -> Int]
      BY DEF tone_defs
    <2> QED BY <1>1, <2>1
  <1> QED BY <1>2, <1>3, <1>4, <1>5 DEF actionMap, earMap, expressionMap, toneMap, ButtonMap

\* The pages' identifiers lie apart from each other and from the single ones, so
\* that the test which on_command comes to first is the control's own.
LEMMA ControlsHandled ==
    ASSUME NEW c \in Controls
    PROVE  on_command(c.id) = c.does /\ c = [id |-> c.id, does |-> c.does]
  <1> DEFINE Single == {IdScan, IdConnect, IdDisconnect, 5100, IdImuCheck, IdTofCheck,
                        IdApplyHz, IdClearPlots, 3005, 3006}
             Paged(id) == IF id \in DOMAIN actionMap THEN << "action", actionMap[id] >>
                          ELSE IF id \in DOMAIN earMap THEN << "ear", earMap[id] >>
                          ELSE IF id \in DOMAIN expressionMap
                               THEN << "expression", expressionMap[id] >>
                          ELSE IF id \in DOMAIN toneMap THEN << "tone", toneMap[id] >>
                          ELSE IF id \in 7100 .. 7104 THEN << "volume", id - 7100 >>
                          ELSE << "nothing" >>
  <1> USE DEF IdScan, IdConnect, IdDisconnect, IdImuCheck, IdTofCheck, IdApplyHz, IdClearPlots
  <1>1. ASSUME NEW id \in Int, id \notin Single PROVE on_command(id) = Paged(id)
    BY <1>1 DEF on_command
  <1> HIDE DEF Paged
  <1>2. ASSUME c \in {[id |-> IdScan, does |-> << "scan" >>],
                      [id |-> IdConnect, does |-> << "connect" >>],
                      [id |-> IdDisconnect, does |-> << "disconnect" >>],
                      [id |-> IdImuCheck, does |-> << "imu" >>],
                      [id |-> IdTofCheck, does |-> << "tof" >>],
                      [id |-> IdApplyHz, does |-> << "hz" >>],
                      [id |-> IdClearPlots, does |-> << "clear" >>],
                      [id |-> 3005, does |-> << "step" >>],
                      [id |-> 3006, does |-> << "stop" >>],
                      [id |-> 5100, does |-> << "ear_percentage" >>]}
        PROVE  on_command(c.id) = c.does /\ c = [id |-> c.id, does |-> c.does]
    BY <1>2 DEF on_command
  <1>3. ASSUME NEW id \in DOMAIN actionMap, c = [id |-> id, does |-> << "action", actionMap[id] >>]
        PROVE  on_command(c.id) = c.does /\ c = [id |-> c.id, does |-> c.does]
    <2>1. id \in 4000 .. 4059 /\ id \notin Single
      BY PageIds
    <2>2. Paged(id) = << "action", actionMap[id] >>
      BY DEF Paged
    <2> QED BY <1>1, <1>3, <2>1, <2>2
  <1>4. ASSUME NEW id \in DOMAIN earMap, c = [id |-> id, does |-> << "ear", earMap[id] >>]
        PROVE  on_command(c.id) = c.does /\ c = [id |-> c.id, does |-> c.does]
    <2>1. id \in 5200 .. 5224 /\ id \notin Single
      BY PageIds
    <2>2. id \notin DOMAIN actionMap
      BY <2>1, PageIds
    <2>3. Paged(id) = << "ear", earMap[id] >>
      BY <2>2 DEF Paged
    <2> QED BY <1>1, <1>4, <2>1, <2>3
  <1>5. ASSUME NEW id \in DOMAIN expressionMap,
               c = [id |-> id, does |-> << "expression", expressionMap[id] >>]
        PROVE  on_command(c.id) = c.does /\ c = [id |-> c.id, does |-> c.does]
    <2>1. id \in 6000 .. 6067 /\ id \notin Single
      BY PageIds
    <2>2. id \notin DOMAIN actionMap /\ id \notin DOMAIN earMap
      BY <2>1, PageIds
    <2>3. Paged(id) = << "expression", expressionMap[id] >>
      BY <2>2 DEF Paged
    <2> QED BY <1>1, <1>5, <2>1, <2>3
  <1>6. ASSUME NEW id \in DOMAIN toneMap, c = [id |-> id, does |-> << "tone", toneMap[id] >>]
        PROVE  on_command(c.id) = c.does /\ c = [id |-> c.id, does |-> c.does]
    <2>1. id \in 7000 .. 7025 /\ id \notin Single
      BY PageIds
    <2>2. id \notin DOMAIN actionMap /\ id \notin DOMAIN earMap /\ id \notin DOMAIN expressionMap
      BY <2>1, PageIds
    <2>3. Paged(id) = << "tone", toneMap[id] >>
      BY <2>2 DEF Paged
    <2> QED BY <1>1, <1>6, <2>1, <2>3
  <1>7. ASSUME NEW level \in 0 .. 4, c = [id |-> 7100 + level, does |-> << "volume", level >>]
        PROVE  on_command(c.id) = c.does /\ c = [id |-> c.id, does |-> c.does]
    <2> DEFINE id == 7100 + level
    <2>1. id \in 7100 .. 7104 /\ id \notin Single /\ id - 7100 = level
      OBVIOUS
    <2> HIDE DEF id
    <2>2. /\ id \notin DOMAIN actionMap /\ id \notin DOMAIN earMap
          /\ id \notin DOMAIN expressionMap /\ id \notin DOMAIN toneMap
      BY <2>1, PageIds
    <2>3. Paged(id) = << "volume", level >>
      BY <2>1, <2>2 DEF Paged
    <2>4. c = [id |-> id, does |-> << "volume", level >>]
      BY <1>7 DEF id
    <2> QED BY <1>1, <2>1, <2>3, <2>4
  <1> QED BY <1>2, <1>3, <1>4, <1>5, <1>6, <1>7 DEF Controls

\* A button of the panel, or the joystick.
LEMMA ControlStep == Press \/ Drag => ControlsDoAsLabelled'
  <1>1. ASSUME NEW c \in Controls,
               call' = [function |-> "press", control |-> c, does |-> on_command(c.id)]
        PROVE  ControlsDoAsLabelled'
    <2>1. call'.function = "press" /\ call'.control = c /\ call'.does = on_command(c.id)
      BY <1>1
    <2>2. \A d \in Controls : d.id = c.id => d = c
      BY ControlsHandled
    <2>3. on_command(c.id) = c.does
      BY ControlsHandled
    <2> QED BY <2>1, <2>2, <2>3 DEF ControlsDoAsLabelled, Is
  <1>2. ASSUME NEW dx \in Offsets, NEW dy \in Offsets,
               call' = [function |-> "drag", dx |-> dx, dy |-> dy,
                        movement |-> JoystickMove(dx, dy)]
        PROVE  ControlsDoAsLabelled'
    <2>1. /\ call'.function = "drag" /\ call'.dx = dx /\ call'.dy = dy
          /\ call'.movement = JoystickMove(dx, dy)
      BY <1>2
    <2>2. dx \in Int /\ dy \in Int
      BY OffsetsAssumption
    <2>3. JoystickMove(-dx, -dy) = Opposite(JoystickMove(dx, dy))
      BY <2>2, JoystickIsSymmetric
    <2> QED BY <2>1, <2>3 DEF ControlsDoAsLabelled, Is
  <1> QED BY <1>1, <1>2 DEF Press, Drag

\* For every button and any position of the mouse: on_command does what the
\* control's label says, no identifier is given twice, and the joystick pushed the
\* other way gives the opposite movement.
THEOREM ControlsHold == Spec => []ControlsDoAsLabelled
  <1>1. Init => ControlsDoAsLabelled
    BY DEF Init, ControlsDoAsLabelled, Is
  <1>2. ControlsDoAsLabelled /\ [Next]_call => ControlsDoAsLabelled'
    <2> SUFFICES ASSUME ControlsDoAsLabelled, [Next]_call PROVE ControlsDoAsLabelled'
      OBVIOUS
    <2>1. CASE Press \/ Drag
      BY <2>1, ControlStep
    <2>2. CASE Perform \/ Interact \/ Resolve \/ Adjust \/ Move \/ Lease \/ Address \/ Notify
      <3>1. call'.function \notin {"press", "drag"}
        BY <2>2, OtherSteps
      <3> QED BY <3>1 DEF ControlsDoAsLabelled, Is
    <2>3. CASE UNCHANGED call
      BY <2>3 DEF ControlsDoAsLabelled, Is
    <2> QED BY <2>1, <2>2, <2>3 DEF Next
  <1> QED BY <1>1, <1>2, PTL DEF Spec

-----------------------------------------------------------------------------
(***************************************************************************)
(* The example programs.  A script is a sequence of commands that AiDog    *)
(* builds from shorter ones with \o, so the facts about scripts below are  *)
(* each closed under \o, and each stays true of what is left when the      *)
(* first command is done.                                                  *)
(***************************************************************************)
Simple == {"start", "check", "stop", "interrupt", "ear_down", "ear_up", "detect_on",
           "detect_off", "tone_on", "tone_off", "volume", "stream_on", "stream_off",
           "stream_try_off", "expression", "act", "basic", "exit", "unlink", "destroy"}

Command == [op : Simple] \cup [op : {"default"}, to : Int]
               \cup [op : {"pose"}, from : Int, to : Int]
               \cup [op : {"feet"}, delta : UNION {[D -> Int] : D \in SUBSET FootOrder}]

Stance == [feet : [FootOrder -> Int], height : Int]

Standing == [feet |-> Level, height |-> StandingHeight]

\* The stance that a command leaves, and the one it is written for: a check may
\* end the script, so it needs the robot standing.
After(c, s) ==
    [feet |-> CASE c.op = "feet" -> [f \in FootOrder |->
                     s.feet[f] + (IF f \in DOMAIN c.delta THEN c.delta[f] ELSE 0)]
                [] c.op = "basic" -> Level
                [] OTHER -> s.feet,
     height |-> CASE c.op \in {"default", "pose"} -> c.to
                  [] c.op = "basic" -> StandingHeight
                  [] OTHER -> s.height]

Fits(c, s) ==
    /\ c.op = "pose" => s.height = c.from
    /\ c.op \in {"basic", "check"} => s = Standing

\* The commands of q lead from one stance to another, each written for the
\* stance that the one before it leaves.
Joins(q, s, t) ==
    \E w \in [1 .. Len(q) + 1 -> Stance] :
        /\ w[1] = s /\ w[Len(q) + 1] = t
        /\ \A i \in 1 .. Len(q) : Fits(q[i], w[i]) /\ w[i + 1] = After(q[i], w[i])

\* Every start of a walk has its duration checked next, and then its stop.
Walks(q) ==
    \A i \in 1 .. Len(q) : q[i].op = "start" =>
        /\ i + 2 \in 1 .. Len(q)
        /\ q[i + 1].op = "check" /\ q[i + 2].op = "stop"

LinkOps == {"exit", "unlink", "destroy"}

\* The commands of a program, from one stance to another.
Script(q, s, t) == q \in Seq(Command) /\ Walks(q) /\ Joins(q, s, t)

\* A script that leaves the link and the session as they are.
KeepsLink(q) == \A i \in 1 .. Len(q) : q[i].op \notin LinkOps

\* A script that disturbs nothing and puts right every aspect in A for sure.
Puts(q, A) ==
    /\ \A i \in 1 .. Len(q) : Marks(q[i].op) = {}
    /\ \A a \in A : \E i \in 1 .. Len(q) :
           a \in Clears(q[i].op) /\ q[i].op # "stream_try_off"

LEMMA CommandOp ==
    ASSUME NEW c \in Command
    PROVE  /\ c.op \in Simple \cup {"default", "pose", "feet"}
           /\ c.op \in {"default", "pose"} => c.to \in Int
           /\ c.op = "feet" => \A f \in DOMAIN c.delta : c.delta[f] \in Int
  BY DEF Command, Simple

LEMMA AfterStance ==
    ASSUME NEW c \in Command, NEW s \in Stance
    PROVE  After(c, s) \in Stance
  <1>1. CASE c.op = "feet"
    <2>1. [f \in FootOrder |->
              s.feet[f] + (IF f \in DOMAIN c.delta THEN c.delta[f] ELSE 0)] \in [FootOrder -> Int]
      <3> SUFFICES ASSUME NEW f \in FootOrder
                   PROVE  s.feet[f] + (IF f \in DOMAIN c.delta THEN c.delta[f] ELSE 0) \in Int
        OBVIOUS
      <3>1. s.feet[f] \in Int
        BY DEF Stance
      <3>2. f \in DOMAIN c.delta => c.delta[f] \in Int
        BY <1>1, CommandOp
      <3> QED BY <3>1, <3>2
    <2> QED BY <1>1, <2>1 DEF After, Stance
  <1>2. CASE c.op # "feet"
    BY <1>2, CommandOp DEF After, Stance, Level, StandingHeight
  <1> QED BY <1>1, <1>2

LEMMA StandingStance == Standing \in Stance
  BY DEF Standing, Stance, Level, StandingHeight

\* Where the commands of two scripts are in the one they make.
LEMMA Concat ==
    ASSUME NEW q \in Seq(Command), NEW r \in Seq(Command)
    PROVE  /\ q \o r \in Seq(Command)
           /\ Len(q) \in Nat /\ Len(r) \in Nat /\ Len(q \o r) = Len(q) + Len(r)
           /\ \A i \in 1 .. Len(q) : (q \o r)[i] = q[i]
           /\ \A i \in 1 .. Len(r) : (q \o r)[i + Len(q)] = r[i]
  OBVIOUS

\* Scripts that meet in a stance make one script.
LEMMA JoinsConcat ==
    ASSUME NEW q \in Seq(Command), NEW r \in Seq(Command), NEW s, NEW t, NEW u,
           Joins(q, s, t), Joins(r, t, u)
    PROVE  Joins(q \o r, s, u)
  <1>1. PICK w \in [1 .. Len(q) + 1 -> Stance] :
            /\ w[1] = s /\ w[Len(q) + 1] = t
            /\ \A i \in 1 .. Len(q) : Fits(q[i], w[i]) /\ w[i + 1] = After(q[i], w[i])
    BY DEF Joins
  <1>2. PICK x \in [1 .. Len(r) + 1 -> Stance] :
            /\ x[1] = t /\ x[Len(r) + 1] = u
            /\ \A i \in 1 .. Len(r) : Fits(r[i], x[i]) /\ x[i + 1] = After(r[i], x[i])
    BY DEF Joins
  <1> DEFINE y == [i \in 1 .. Len(q \o r) + 1 |->
                      IF i <= Len(q) THEN w[i] ELSE x[i - Len(q)]]
  <1>3. /\ Len(q) \in Nat /\ Len(r) \in Nat /\ Len(q \o r) = Len(q) + Len(r)
        /\ \A i \in 1 .. Len(q) : (q \o r)[i] = q[i]
        /\ \A i \in 1 .. Len(r) : (q \o r)[i + Len(q)] = r[i]
    BY Concat
  <1>4. y \in [1 .. Len(q \o r) + 1 -> Stance]
    <2> SUFFICES ASSUME NEW i \in 1 .. Len(q \o r) + 1
                 PROVE  (IF i <= Len(q) THEN w[i] ELSE x[i - Len(q)]) \in Stance
      OBVIOUS
    <2>1. CASE i <= Len(q)
      <3>1. i \in 1 .. Len(q) + 1
        BY <1>3, <2>1
      <3> QED BY <2>1, <3>1
    <2>2. CASE ~(i <= Len(q))
      <3>1. i - Len(q) \in 1 .. Len(r) + 1
        BY <1>3, <2>2
      <3> QED BY <2>2, <3>1
    <2> QED BY <2>1, <2>2
  <1>5. \A i \in 1 .. Len(q) + 1 : y[i] = w[i]
    BY <1>1, <1>2, <1>3
  <1>6. \A i \in 1 .. Len(r) + 1 : y[i + Len(q)] = x[i]
    BY <1>1, <1>2, <1>3
  <1> HIDE DEF y
  <1>7. y[1] = s /\ y[Len(q \o r) + 1] = u
    BY <1>1, <1>2, <1>3, <1>5, <1>6
  <1>8. ASSUME NEW i \in 1 .. Len(q \o r)
        PROVE  Fits((q \o r)[i], y[i]) /\ y[i + 1] = After((q \o r)[i], y[i])
    <2>1. CASE i \in 1 .. Len(q)
      <3>1. y[i] = w[i] /\ y[i + 1] = w[i + 1] /\ (q \o r)[i] = q[i]
        BY <1>3, <1>5, <2>1
      <3> QED BY <1>1, <2>1, <3>1
    <2>2. CASE i \notin 1 .. Len(q)
      <3>1. PICK j \in 1 .. Len(r) : i = j + Len(q)
        <4>1. i - Len(q) \in 1 .. Len(r) /\ i = (i - Len(q)) + Len(q)
          BY <1>3, <2>2
        <4> QED BY <4>1
      <3>2. y[i] = x[j] /\ (q \o r)[i] = r[j]
        BY <1>3, <1>6, <3>1
      <3>3. y[i + 1] = x[j + 1]
        <4>1. j + 1 \in 1 .. Len(r) + 1 /\ i + 1 = (j + 1) + Len(q)
          BY <1>3, <3>1
        <4> QED BY <1>6, <4>1
      <3> QED BY <1>2, <3>1, <3>2, <3>3
    <2> QED BY <2>1, <2>2
  <1> QED BY <1>4, <1>7, <1>8 DEF Joins

\* What is left when the first command is done leads on from the stance it left.
LEMMA JoinsTail ==
    ASSUME NEW q \in Seq(Command), q # <<>>, NEW s, NEW t, Joins(q, s, t)
    PROVE  /\ Fits(Head(q), s)
           /\ Joins(Tail(q), After(Head(q), s), t)
  <1>1. PICK w \in [1 .. Len(q) + 1 -> Stance] :
            /\ w[1] = s /\ w[Len(q) + 1] = t
            /\ \A i \in 1 .. Len(q) : Fits(q[i], w[i]) /\ w[i + 1] = After(q[i], w[i])
    BY DEF Joins
  <1>2. /\ Len(q) \in Nat /\ Len(q) >= 1 /\ Len(Tail(q)) = Len(q) - 1 /\ Head(q) = q[1]
        /\ \A i \in 1 .. Len(Tail(q)) : Tail(q)[i] = q[i + 1]
    OBVIOUS
  <1> DEFINE x == [i \in 1 .. Len(Tail(q)) + 1 |-> w[i + 1]]
  <1>3. x \in [1 .. Len(Tail(q)) + 1 -> Stance]
    BY <1>2
  <1>4. \A i \in 1 .. Len(Tail(q)) + 1 : x[i] = w[i + 1]
    OBVIOUS
  <1> HIDE DEF x
  <1>5. Fits(Head(q), s) /\ w[2] = After(Head(q), s)
    BY <1>1, <1>2
  <1>6. x[1] = After(Head(q), s) /\ x[Len(Tail(q)) + 1] = t
    BY <1>1, <1>2, <1>4, <1>5
  <1>7. ASSUME NEW i \in 1 .. Len(Tail(q))
        PROVE  Fits(Tail(q)[i], x[i]) /\ x[i + 1] = After(Tail(q)[i], x[i])
    <2>1. i + 1 \in 1 .. Len(q) /\ i + 1 \in 1 .. Len(Tail(q)) + 1 /\ i \in 1 .. Len(Tail(q)) + 1
      BY <1>2
    <2>2. x[i] = w[i + 1] /\ x[i + 1] = w[(i + 1) + 1] /\ Tail(q)[i] = q[i + 1]
      BY <1>2, <1>4, <2>1
    <2> QED BY <1>1, <2>1, <2>2
  <1> QED BY <1>3, <1>5, <1>6, <1>7 DEF Joins

\* A script of no command, and of one.
LEMMA JoinsShort ==
    ASSUME NEW s \in Stance
    PROVE  /\ Joins(<<>>, s, s)
           /\ \A c \in Command : Fits(c, s) => Joins(<< c >>, s, After(c, s))
  <1>1. Joins(<<>>, s, s)
    <2> DEFINE w == [i \in 1 .. Len(<<>>) + 1 |-> s]
    <2>1. w \in [1 .. Len(<<>>) + 1 -> Stance] /\ w[1] = s /\ w[Len(<<>>) + 1] = s
      OBVIOUS
    <2>2. 1 .. Len(<<>>) = {}
      OBVIOUS
    <2> QED BY <2>1, <2>2 DEF Joins
  <1>2. ASSUME NEW c \in Command, Fits(c, s)
        PROVE  Joins(<< c >>, s, After(c, s))
    <2> DEFINE q == << c >>
               w == [i \in 1 .. Len(q) + 1 |-> IF i = 1 THEN s ELSE After(c, s)]
    <2>1. Len(q) = 1 /\ q[1] = c
      OBVIOUS
    <2>2. w \in [1 .. Len(q) + 1 -> Stance]
      BY AfterStance
    <2>3. w[1] = s /\ w[2] = After(c, s)
      BY <2>1
    <2> HIDE DEF w, q
    <2>4. \A i \in 1 .. Len(q) : Fits(q[i], w[i]) /\ w[i + 1] = After(q[i], w[i])
      <3> SUFFICES ASSUME NEW i \in 1 .. Len(q)
                   PROVE  Fits(q[i], w[i]) /\ w[i + 1] = After(q[i], w[i])
        OBVIOUS
      <3>1. i = 1
        BY <2>1
      <3> QED BY <1>2, <2>1, <2>3, <3>1
    <2>5. w[Len(q) + 1] = After(c, s)
      BY <2>1, <2>3
    <2>6. Joins(q, s, After(c, s))
      BY <2>2, <2>3, <2>4, <2>5 DEF Joins
    <2> QED BY <2>6 DEF q
  <1> QED BY <1>1, <1>2

LEMMA ScriptConcat ==
    ASSUME NEW q, NEW r, NEW s, NEW t, NEW u, Script(q, s, t), Script(r, t, u)
    PROVE  Script(q \o r, s, u)
  <1>1. q \in Seq(Command) /\ r \in Seq(Command) /\ q \o r \in Seq(Command)
    BY DEF Script
  <1>2. /\ Len(q) \in Nat /\ Len(r) \in Nat /\ Len(q \o r) = Len(q) + Len(r)
        /\ \A i \in 1 .. Len(q) : (q \o r)[i] = q[i]
        /\ \A i \in 1 .. Len(r) : (q \o r)[i + Len(q)] = r[i]
    BY <1>1, Concat
  <1>3. \A i \in 1 .. Len(q \o r) : i \in 1 .. Len(q) \/ i - Len(q) \in 1 .. Len(r)
    BY <1>2
  <1>5. Walks(q \o r)
    <2> SUFFICES ASSUME NEW i \in 1 .. Len(q \o r), (q \o r)[i].op = "start"
                 PROVE  /\ i + 2 \in 1 .. Len(q \o r)
                        /\ (q \o r)[i + 1].op = "check" /\ (q \o r)[i + 2].op = "stop"
      BY DEF Walks
    <2>1. CASE i \in 1 .. Len(q)
      <3>1. /\ i + 2 \in 1 .. Len(q)
            /\ q[i + 1].op = "check" /\ q[i + 2].op = "stop"
        BY <1>2, <2>1 DEF Script, Walks
      <3>2. i + 1 \in 1 .. Len(q)
        BY <3>1, <2>1
      <3> QED BY <1>2, <3>1, <3>2
    <2>2. CASE i - Len(q) \in 1 .. Len(r)
      <3>1. PICK j \in 1 .. Len(r) : i = j + Len(q)
        <4>1. (i - Len(q)) + Len(q) = i
          BY <1>2
        <4> QED BY <2>2, <4>1
      <3>2. /\ j + 2 \in 1 .. Len(r)
            /\ r[j + 1].op = "check" /\ r[j + 2].op = "stop"
        BY <1>2, <3>1 DEF Script, Walks
      <3>3. j + 1 \in 1 .. Len(r) /\ i + 1 = (j + 1) + Len(q) /\ i + 2 = (j + 2) + Len(q)
        <4>1. Len(q) \in Nat /\ Len(r) \in Nat
          BY <1>2
        <4>2. i + 1 = (j + 1) + Len(q) /\ i + 2 = (j + 2) + Len(q)
          BY <3>1, <4>1
        <4>3. j + 2 \in 1 .. Len(r)
          BY <3>2
        <4>4. j + 1 \in 1 .. Len(r)
          BY <4>1, <4>3
        <4> QED BY <4>2, <4>4
      <3>4. i + 2 \in 1 .. Len(q \o r)
        BY <1>2, <3>2, <3>3
      <3>5. (q \o r)[i + 1] = r[j + 1] /\ (q \o r)[i + 2] = r[j + 2]
        BY <1>2, <3>2, <3>3
      <3> QED BY <3>2, <3>4, <3>5
    <2> QED BY <1>3, <2>1, <2>2
  <1>6. Joins(q \o r, s, u)
    BY <1>1, JoinsConcat DEF Script
  <1> QED BY <1>1, <1>5, <1>6 DEF Script

LEMMA KeepsLinkConcat ==
    ASSUME NEW q \in Seq(Command), NEW r \in Seq(Command), KeepsLink(q), KeepsLink(r)
    PROVE  KeepsLink(q \o r)
  <1>1. /\ Len(q) \in Nat /\ Len(r) \in Nat /\ Len(q \o r) = Len(q) + Len(r)
        /\ \A i \in 1 .. Len(q) : (q \o r)[i] = q[i]
        /\ \A i \in 1 .. Len(r) : (q \o r)[i + Len(q)] = r[i]
    BY Concat
  <1> SUFFICES ASSUME NEW i \in 1 .. Len(q \o r) PROVE (q \o r)[i].op \notin LinkOps
    BY DEF KeepsLink
  <1>2. CASE i \in 1 .. Len(q)
    BY <1>1, <1>2 DEF KeepsLink
  <1>3. CASE i \notin 1 .. Len(q)
    <2>1. i - Len(q) \in 1 .. Len(r) /\ (i - Len(q)) + Len(q) = i
      BY <1>1, <1>3
    <2>2. (q \o r)[i] = r[i - Len(q)]
      BY <1>1, <2>1
    <2> QED BY <2>1, <2>2 DEF KeepsLink
  <1> QED BY <1>2, <1>3

LEMMA ScriptEmpty ==
    ASSUME NEW s \in Stance
    PROVE  Script(<<>>, s, s)
  BY JoinsShort DEF Script, Walks

LEMMA ScriptOne ==
    ASSUME NEW s \in Stance, NEW c \in Command, c.op # "start", Fits(c, s)
    PROVE  Script(<< c >>, s, After(c, s))
  BY JoinsShort DEF Script, Walks

\* The commands that leave the stance alone, from any stance.
LEMMA ScriptSame ==
    ASSUME NEW s \in Stance, NEW op \in Simple, op \notin {"start", "basic", "check"}
    PROVE  Script(<< Cmd(op) >>, s, s)
  <1>1. Cmd(op) \in Command /\ Cmd(op).op = op
    BY DEF Cmd, Command
  <1>2. Fits(Cmd(op), s)
    BY <1>1 DEF Fits, Simple
  <1>3. After(Cmd(op), s) = s
    BY <1>1 DEF After, Simple, Stance
  <1> QED BY <1>1, <1>2, <1>3, ScriptOne

LEMMA PutsConcat ==
    ASSUME NEW q \in Seq(Command), NEW r \in Seq(Command), NEW A, NEW B, Puts(q, A), Puts(r, B)
    PROVE  Puts(q \o r, A \cup B)
  <1>1. /\ Len(q) \in Nat /\ Len(r) \in Nat /\ Len(q \o r) = Len(q) + Len(r)
        /\ \A i \in 1 .. Len(q) : (q \o r)[i] = q[i]
        /\ \A i \in 1 .. Len(r) : (q \o r)[i + Len(q)] = r[i]
    BY Concat
  <1>2. ASSUME NEW i \in 1 .. Len(q \o r) PROVE Marks((q \o r)[i].op) = {}
    <2>1. CASE i \in 1 .. Len(q)
      BY <1>1, <2>1 DEF Puts
    <2>2. CASE i \notin 1 .. Len(q)
      <3>1. i - Len(q) \in 1 .. Len(r) /\ (i - Len(q)) + Len(q) = i
        BY <1>1, <2>2
      <3>2. (q \o r)[i] = r[i - Len(q)]
        BY <1>1, <3>1
      <3> QED BY <3>1, <3>2 DEF Puts
    <2> QED BY <2>1, <2>2
  <1>3. ASSUME NEW a \in A \cup B
        PROVE  \E i \in 1 .. Len(q \o r) :
                   a \in Clears((q \o r)[i].op) /\ (q \o r)[i].op # "stream_try_off"
    <2>1. CASE a \in A
      <3>1. PICK i \in 1 .. Len(q) : a \in Clears(q[i].op) /\ q[i].op # "stream_try_off"
        BY <2>1 DEF Puts
      <3>2. i \in 1 .. Len(q \o r) /\ (q \o r)[i] = q[i]
        BY <1>1
      <3> QED BY <3>1, <3>2
    <2>2. CASE a \in B
      <3>1. PICK i \in 1 .. Len(r) : a \in Clears(r[i].op) /\ r[i].op # "stream_try_off"
        BY <2>2 DEF Puts
      <3>2. i + Len(q) \in 1 .. Len(q \o r) /\ (q \o r)[i + Len(q)] = r[i]
        BY <1>1
      <3> QED BY <3>1, <3>2
    <2> QED BY <2>1, <2>2
  <1> QED BY <1>2, <1>3 DEF Puts

\* A script that begins and ends with the robot standing, over the open link, and
\* one of that kind that tidies up.
Closed(q) == Script(q, Standing, Standing) /\ KeepsLink(q)

Tidies(q, A) == Closed(q) /\ Puts(q, A)

LEMMA ClosedConcat ==
    ASSUME NEW q, NEW r, Closed(q), Closed(r)
    PROVE  Closed(q \o r)
  <1>1. q \in Seq(Command) /\ r \in Seq(Command)
    BY DEF Closed, Script
  <1> QED BY <1>1, ScriptConcat, KeepsLinkConcat DEF Closed

LEMMA TidiesConcat ==
    ASSUME NEW q, NEW r, NEW A, NEW B, Tidies(q, A), Tidies(r, B)
    PROVE  Tidies(q \o r, A \cup B)
  <1>1. q \in Seq(Command) /\ r \in Seq(Command)
    BY DEF Tidies, Closed, Script
  <1> QED BY <1>1, ClosedConcat, PutsConcat DEF Tidies

LEMMA ClosedOne ==
    ASSUME NEW op \in Simple, op \notin LinkOps, op # "start"
    PROVE  Closed(<< Cmd(op) >>)
  <1>1. Cmd(op) \in Command /\ Cmd(op).op = op
    BY DEF Cmd, Command
  <1>2. KeepsLink(<< Cmd(op) >>)
    BY <1>1 DEF KeepsLink
  <1>3. CASE op \notin {"basic", "check"}
    BY <1>2, <1>3, ScriptSame, StandingStance DEF Closed
  <1>4. CASE op \in {"basic", "check"}
    <2>1. Fits(Cmd(op), Standing)
      BY <1>1, <1>4 DEF Fits
    <2>2. After(Cmd(op), Standing) = Standing
      BY <1>1, <1>4 DEF After, Standing
    <2> QED BY <1>1, <1>2, <1>4, <2>1, <2>2, ScriptOne, StandingStance DEF Closed
  <1> QED BY <1>3, <1>4

LEMMA TidiesOne ==
    ASSUME NEW op \in Simple, op \notin LinkOps, Marks(op) = {}, op # "start",
           NEW A, A \subseteq Clears(op), A = {} \/ op # "stream_try_off"
    PROVE  Tidies(<< Cmd(op) >>, A)
  <1>1. Cmd(op).op = op /\ << Cmd(op) >>[1] = Cmd(op) /\ Len(<< Cmd(op) >>) = 1
    BY DEF Cmd
  <1>2. Puts(<< Cmd(op) >>, A)
    BY <1>1 DEF Puts
  <1> QED BY <1>2, ClosedOne DEF Tidies

LEMMA TidiesNothing == Tidies(<<>>, {})
  BY ScriptEmpty, StandingStance DEF Tidies, Closed, KeepsLink, Puts

\* The commands of AiDog that leave the stance alone.
LEMMA CommandsClosed ==
    /\ Closed(<<>>)
    /\ Closed(stop_movement) /\ Closed(send_movement) /\ Closed(reset)
    /\ \A b \in BOOLEAN : /\ Closed(send_ear(b)) /\ Closed(special_detection(b))
                          /\ Closed(send_audio(b)) /\ Closed(set_volume(b))
                          /\ Closed(request_stream(b))
    /\ Closed(send_expression) /\ Closed(perform_action) /\ Closed(request_basic_mode)
  <1>1. Closed(<<>>)
    BY TidiesNothing DEF Tidies
  <1>2. Closed(stop_movement) /\ Closed(send_expression) /\ Closed(perform_action)
        /\ Closed(request_basic_mode) /\ Closed(<< Cmd("interrupt") >>) /\ Closed(<< Cmd("volume") >>)
    BY ClosedOne DEF Simple, LinkOps, stop_movement, send_expression, perform_action,
                     request_basic_mode
  <1>3. Closed(reset)
    BY <1>2, ClosedConcat DEF reset
  <1>4. \A b \in BOOLEAN : /\ Closed(send_ear(b)) /\ Closed(special_detection(b))
                           /\ Closed(send_audio(b)) /\ Closed(request_stream(b))
    BY ClosedOne DEF Simple, LinkOps, send_ear, special_detection, send_audio, request_stream
  <1>5. \A b \in BOOLEAN : Closed(set_volume(b))
    BY <1>1, <1>2, <1>4, ClosedConcat DEF set_volume
  <1>6. Closed(send_movement)
    <2> DEFINE q == << Cmd("start"), Cmd("check") >> \o << Cmd("stop") >>
    <2>1. /\ q \in Seq(Command) /\ Len(q) = 3
          /\ q[1].op = "start" /\ q[2].op = "check" /\ q[3].op = "stop"
      BY DEF Cmd, Command, Simple
    <2>2. q = (<< Cmd("start") >> \o << Cmd("check") >>) \o << Cmd("stop") >>
      OBVIOUS
    <2>3. \A op \in {"start", "check", "stop"} : Joins(<< Cmd(op) >>, Standing, Standing)
      <3> SUFFICES ASSUME NEW op \in {"start", "check", "stop"}
                   PROVE  Joins(<< Cmd(op) >>, Standing, Standing)
        OBVIOUS
      <3>1. Cmd(op) \in Command /\ Cmd(op).op = op
        BY DEF Cmd, Command, Simple
      <3>2. Fits(Cmd(op), Standing) /\ After(Cmd(op), Standing) = Standing
        BY <3>1 DEF Fits, After, Standing
      <3> QED BY <3>1, <3>2, JoinsShort, StandingStance
    <2>4. Joins(q, Standing, Standing)
      <3> DEFINE a == << Cmd("start") >>
                 b == << Cmd("check") >>
                 c == << Cmd("stop") >>
      <3>1. a \in Seq(Command) /\ b \in Seq(Command) /\ c \in Seq(Command)
        BY DEF Cmd, Command, Simple
      <3>2. /\ Joins(a, Standing, Standing) /\ Joins(b, Standing, Standing)
            /\ Joins(c, Standing, Standing)
        BY <2>3
      <3>3. q = (a \o b) \o c
        BY <2>2
      <3> HIDE DEF a, b, c, q
      <3>4. a \o b \in Seq(Command)
        BY <3>1
      <3> QED BY <3>1, <3>2, <3>3, <3>4, JoinsConcat
    <2>5. Walks(q) /\ KeepsLink(q)
      <3> HIDE DEF q
      <3>1. \A i \in 1 .. Len(q) : i = 1 \/ i = 2 \/ i = 3
        BY <2>1
      <3> QED BY <2>1, <3>1 DEF Walks, KeepsLink, LinkOps
    <2>6. send_movement = q
      BY DEF send_movement, stop_movement
    <2> QED BY <2>1, <2>4, <2>5, <2>6 DEF Closed, Script
  <1> QED BY <1>1, <1>2, <1>3, <1>4, <1>5, <1>6

\* What tidies up, and what it puts right.
LEMMA CommandsTidy ==
    /\ Tidies(<<>>, {}) /\ Tidies(send_expression, {})
    /\ Tidies(<< Cmd("stream_try_off") >>, {})
    /\ Tidies(stop_movement, {"moving"}) /\ Tidies(reset, {"moving", "acting"})
    /\ Tidies(send_ear(TRUE), {"ears"}) /\ Tidies(special_detection(TRUE), {"detection"})
    /\ Tidies(send_audio(FALSE), {"tone"}) /\ Tidies(request_stream(FALSE), {"stream"})
    /\ Tidies(request_basic_mode, {"pose"})
  <1>1. Tidies(<< Cmd("stream_try_off") >>, {})
    <2>1. Marks("stream_try_off") = {} /\ "stream_try_off" \in Simple
      BY DEF Marks, Simple
    <2> QED BY <2>1, TidiesOne DEF LinkOps
  <1>2. Tidies(send_expression, {})
    <2>1. Marks("expression") = {} /\ "expression" \in Simple
      BY DEF Marks, Simple
    <2> QED BY <2>1, TidiesOne DEF LinkOps, send_expression
  <1>3. \A op \in {"stop", "interrupt", "ear_down", "detect_on", "tone_off", "stream_off", "basic"} :
            Tidies(<< Cmd(op) >>, Clears(op))
    <2> SUFFICES ASSUME NEW op \in {"stop", "interrupt", "ear_down", "detect_on", "tone_off",
                                    "stream_off", "basic"}
                 PROVE  Tidies(<< Cmd(op) >>, Clears(op))
      OBVIOUS
    <2>1. Marks(op) = {} /\ op \in Simple /\ op \notin LinkOps
      BY DEF Marks, Simple, LinkOps
    <2> QED BY <2>1, TidiesOne
  <1>4. /\ Clears("stop") = {"moving"} /\ Clears("interrupt") = {"acting"}
        /\ Clears("ear_down") = {"ears"} /\ Clears("detect_on") = {"detection"}
        /\ Clears("tone_off") = {"tone"} /\ Clears("stream_off") = {"stream"}
        /\ Clears("basic") = {"pose"}
    BY DEF Clears
  <1>5. Tidies(stop_movement, {"moving"}) /\ Tidies(<< Cmd("interrupt") >>, {"acting"})
    BY <1>3, <1>4 DEF stop_movement
  <1>6. Tidies(reset, {"moving", "acting"})
    <2>1. Tidies(reset, {"moving"} \cup {"acting"})
      BY <1>5, TidiesConcat DEF reset
    <2>2. {"moving"} \cup {"acting"} = {"moving", "acting"}
      OBVIOUS
    <2> QED BY <2>1, <2>2
  <1> QED BY <1>1, <1>2, <1>3, <1>4, <1>5, <1>6, TidiesNothing
          DEF send_ear, special_detection, send_audio, request_stream, request_basic_mode

\* No host is destroyed, and the link closes only behind the exit of the session,
\* unless the session is over already.
Guarded(q, over) ==
    \A i \in 1 .. Len(q) :
        /\ q[i].op # "destroy"
        /\ q[i].op = "unlink" => IF i = 1 THEN over ELSE q[i - 1].op = "exit"

\* What the invariants need of a program.
Sound(p) ==
    /\ p.link \in {"ble", "ws"} /\ p.auto \in BOOLEAN /\ p.caught \in BOOLEAN
    /\ Closed(p.body)
    /\ Script(p.tail, Standing, Standing) /\ Puts(p.tail, p.promise)
    /\ p.link = "ble" => Guarded(p.tail, FALSE)
    /\ p.caught => Tidies(p.cleanup, p.promise)

LEMMA LinkScripts ==
    \A op \in LinkOps : /\ Script(<< Cmd(op) >>, Standing, Standing)
                        /\ Puts(<< Cmd(op) >>, {})
  <1> SUFFICES ASSUME NEW op \in LinkOps
               PROVE  Script(<< Cmd(op) >>, Standing, Standing) /\ Puts(<< Cmd(op) >>, {})
    OBVIOUS
  <1>1. op \in Simple /\ op \notin {"start", "basic", "check"} /\ Marks(op) = {}
    BY DEF LinkOps, Simple, Marks
  <1>2. Script(<< Cmd(op) >>, Standing, Standing)
    BY <1>1, ScriptSame, StandingStance
  <1>3. Cmd(op).op = op /\ << Cmd(op) >>[1] = Cmd(op) /\ Len(<< Cmd(op) >>) = 1
    BY DEF Cmd
  <1> QED BY <1>1, <1>2, <1>3 DEF Puts

LEMMA DisconnectScript ==
    /\ Script(disconnect, Standing, Standing) /\ Puts(disconnect, {})
    /\ disconnect \in Seq(Command) /\ Len(disconnect) = 2
    /\ disconnect[1].op = "exit" /\ disconnect[2].op = "unlink"
    /\ Head(disconnect).op = "exit" /\ Tail(disconnect) = << Cmd("unlink") >>
  <1> DEFINE a == << Cmd("exit") >>
             b == << Cmd("unlink") >>
  <1>1. disconnect = a \o b
    BY DEF disconnect
  <1>2. /\ Script(a, Standing, Standing) /\ Puts(a, {})
        /\ Script(b, Standing, Standing) /\ Puts(b, {})
    BY LinkScripts DEF LinkOps
  <1>3. /\ Len(disconnect) = 2
        /\ disconnect[1].op = "exit" /\ disconnect[2].op = "unlink"
        /\ Head(disconnect).op = "exit" /\ Tail(disconnect) = << Cmd("unlink") >>
    BY DEF disconnect, Cmd
  <1> HIDE DEF a, b
  <1>4. a \in Seq(Command) /\ b \in Seq(Command)
    BY <1>2 DEF Script
  <1>5. Script(disconnect, Standing, Standing)
    BY <1>1, <1>2, ScriptConcat
  <1>6. Puts(disconnect, {} \cup {})
    BY <1>1, <1>2, <1>4, PutsConcat
  <1>7. {} \cup {} = {}
    OBVIOUS
  <1>8. disconnect \in Seq(Command)
    BY <1>5 DEF Script
  <1> QED BY <1>3, <1>5, <1>6, <1>7, <1>8

LEMMA BleSound ==
    ASSUME NEW auto \in BOOLEAN, NEW confirm, NEW body, NEW tail, NEW caught \in BOOLEAN, NEW A,
           Closed(body), Tidies(tail, A)
    PROVE  Sound(Ble(auto, confirm, body, tail, caught, A))
  <1>1. /\ Script(tail, Standing, Standing) /\ KeepsLink(tail) /\ Puts(tail, A)
        /\ tail \in Seq(Command)
    BY DEF Tidies, Closed, Script
  <1>2. Script(tail \o disconnect, Standing, Standing)
    BY <1>1, DisconnectScript, ScriptConcat
  <1>3. Puts(tail \o disconnect, A)
    <2>1. A \cup {} = A
      OBVIOUS
    <2>2. Puts(tail \o disconnect, A \cup {})
      BY <1>1, DisconnectScript, PutsConcat
    <2> QED BY <2>1, <2>2
  <1>4. Guarded(tail \o disconnect, FALSE)
    <2>1. /\ Len(tail) \in Nat /\ Len(tail \o disconnect) = Len(tail) + 2
          /\ \A i \in 1 .. Len(tail) : (tail \o disconnect)[i] = tail[i]
          /\ (tail \o disconnect)[Len(tail) + 1] = disconnect[1]
          /\ (tail \o disconnect)[Len(tail) + 2] = disconnect[2]
      <3>1. disconnect \in Seq(Command) /\ Len(disconnect) = 2
        BY DisconnectScript
      <3>2. /\ Len(tail) \in Nat /\ Len(tail \o disconnect) = Len(tail) + Len(disconnect)
            /\ \A i \in 1 .. Len(tail) : (tail \o disconnect)[i] = tail[i]
            /\ \A i \in 1 .. Len(disconnect) : (tail \o disconnect)[i + Len(tail)] = disconnect[i]
        BY <1>1, <3>1, Concat
      <3>3. /\ 1 \in 1 .. Len(disconnect) /\ 2 \in 1 .. Len(disconnect)
            /\ 1 + Len(tail) = Len(tail) + 1 /\ 2 + Len(tail) = Len(tail) + 2
        BY <3>1, <3>2
      <3> QED BY <3>1, <3>2, <3>3
    <2> SUFFICES ASSUME NEW i \in 1 .. Len(tail \o disconnect)
                 PROVE  /\ (tail \o disconnect)[i].op # "destroy"
                        /\ (tail \o disconnect)[i].op = "unlink" =>
                               i # 1 /\ (tail \o disconnect)[i - 1].op = "exit"
      BY DEF Guarded
    <2>2. CASE i \in 1 .. Len(tail)
      BY <1>1, <2>1, <2>2 DEF KeepsLink, LinkOps
    <2>3. CASE i = Len(tail) + 1
      BY <2>1, <2>3, DisconnectScript
    <2>4. CASE i = Len(tail) + 2
      <3>1. i # 1 /\ i - 1 = Len(tail) + 1
        BY <2>1, <2>4
      <3> QED BY <2>1, <2>4, <3>1, DisconnectScript
    <2> QED BY <2>1, <2>2, <2>3, <2>4
  <1> DEFINE p == Ble(auto, confirm, body, tail, caught, A)
  <1>5. /\ p.link = "ble" /\ p.auto = auto /\ p.body = body /\ p.caught = caught
        /\ p.tail = tail \o disconnect /\ p.cleanup = tail /\ p.promise = A
    BY DEF Ble
  <1> QED BY <1>2, <1>3, <1>4, <1>5 DEF Sound

LEMMA WsSound ==
    ASSUME NEW auto \in BOOLEAN, NEW confirm, NEW body, NEW tail, NEW A,
           Closed(body), Tidies(tail, A)
    PROVE  Sound(Ws(auto, confirm, body, tail, A))
  <1>1. Script(tail, Standing, Standing) /\ Puts(tail, A) /\ tail \in Seq(Command)
    BY DEF Tidies, Closed, Script
  <1> DEFINE b == << Cmd("unlink") >>
  <1>2. Script(b, Standing, Standing) /\ Puts(b, {})
    BY LinkScripts DEF LinkOps
  <1> HIDE DEF b
  <1>3. Script(tail \o b, Standing, Standing)
    BY <1>1, <1>2, ScriptConcat
  <1>4. Puts(tail \o b, A)
    <2>1. A \cup {} = A /\ b \in Seq(Command)
      BY <1>2 DEF Script
    <2>2. Puts(tail \o b, A \cup {})
      BY <1>1, <1>2, <2>1, PutsConcat
    <2> QED BY <2>1, <2>2
  <1> DEFINE p == Ws(auto, confirm, body, tail, A)
  <1>5. /\ p.link = "ws" /\ p.auto = auto /\ p.body = body /\ p.caught = FALSE
        /\ p.tail = tail \o b /\ p.promise = A
    BY DEF Ws, b
  <1> QED BY <1>3, <1>4, <1>5 DEF Sound

-----------------------------------------------------------------------------
(* The programs of the catalogue, one after the other. *)
LEMMA ConnectionSound ==
    /\ Sound(BleConnectByAddress) /\ Sound(BleScanAndConnect) /\ Sound(WsConnectionTest)
  BY CommandsClosed, CommandsTidy, BleSound, WsSound
     DEF BleConnectByAddress, BleScanAndConnect, WsConnectionTest

LEMMA MovementSound ==
    /\ Sound(BleDirectionalMove) /\ Sound(BleTimedMove)
    /\ Sound(WsDirectionalMove) /\ Sound(WsTimedMove)
  <1>1. Tidies(stop_movement \o reset, {"moving", "acting"})
    <2>1. Tidies(stop_movement \o reset, {"moving"} \cup {"moving", "acting"})
      BY CommandsTidy, TidiesConcat
    <2>2. {"moving"} \cup {"moving", "acting"} = {"moving", "acting"}
      OBVIOUS
    <2> QED BY <2>1, <2>2
  <1>2. Sound(BleDirectionalMove)
    BY <1>1, CommandsClosed, BleSound DEF BleDirectionalMove
  <1>3. Sound(WsDirectionalMove)
    BY CommandsClosed, CommandsTidy, WsSound DEF WsDirectionalMove
  <1>4. Sound(BleTimedMove)
    <2> DEFINE Leg == send_movement \o stop_movement
    <2>1. Closed(Leg)
      BY CommandsClosed, ClosedConcat
    <2> HIDE DEF Leg
    <2>2. Closed(Leg \o Leg \o Leg \o Leg \o Leg)
      BY <2>1, ClosedConcat
    <2>3. Sound(Ble(TRUE, TRUE, Leg \o Leg \o Leg \o Leg \o Leg, stop_movement \o reset, TRUE,
                    {"moving", "acting"}))
      BY <1>1, <2>2, BleSound
    <2> QED BY <2>3 DEF BleTimedMove, Leg
  <1>5. Sound(WsTimedMove)
    <2>1. Closed(send_movement \o send_movement \o send_movement \o send_movement)
      BY CommandsClosed, ClosedConcat
    <2> QED BY <2>1, CommandsTidy, WsSound DEF WsTimedMove
  <1> QED BY <1>2, <1>3, <1>4, <1>5

LEMMA ActionSound == Sound(BleBasicActions) /\ Sound(WsBasicActions)
  BY CommandsClosed, CommandsTidy, BleSound, WsSound DEF BleBasicActions, WsBasicActions

LEMMA EarsSound == Sound(BleEarsExpressionsAudio) /\ Sound(WsEarsExpressionsAudio)
  <1>1. Sound(BleEarsExpressionsAudio)
    <2>1. Closed(set_volume(FALSE) \o send_audio(TRUE) \o send_expression \o send_ear(FALSE)
                     \o send_ear(FALSE) \o special_detection(FALSE))
      BY CommandsClosed, ClosedConcat
    <2> QED BY <2>1, CommandsTidy, BleSound DEF BleEarsExpressionsAudio
  <1>2. Sound(WsEarsExpressionsAudio)
    <2> DEFINE Scene == send_ear(FALSE) \o send_expression \o send_audio(TRUE)
    <2>1. Closed(Scene)
      BY CommandsClosed, ClosedConcat
    <2> HIDE DEF Scene
    <2>2. Closed(set_volume(TRUE) \o Scene \o Scene)
      BY <2>1, CommandsClosed, ClosedConcat
    <2>3. Tidies(send_ear(TRUE) \o send_expression \o send_audio(FALSE),
                 ({"ears"} \cup {}) \cup {"tone"})
      BY CommandsTidy, TidiesConcat
    <2>4. ({"ears"} \cup {}) \cup {"tone"} = {"tone", "ears"}
      OBVIOUS
    <2>5. Sound(Ws(TRUE, FALSE, set_volume(TRUE) \o Scene \o Scene,
                   send_ear(TRUE) \o send_expression \o send_audio(FALSE), {"tone", "ears"}))
      BY <2>2, <2>3, <2>4, WsSound
    <2> QED BY <2>5 DEF WsEarsExpressionsAudio, Scene
  <1> QED BY <1>1, <1>2

LEMMA ChoreographySound == Sound(BleChoreography) /\ Sound(WsChoreography)
  <1>1. Sound(BleChoreography)
    <2>1. Closed(special_detection(FALSE) \o send_ear(FALSE) \o send_expression
                     \o send_audio(TRUE) \o perform_action \o perform_action \o send_movement
                     \o perform_action \o perform_action)
      BY CommandsClosed, ClosedConcat
    <2>2. Tidies(send_audio(FALSE) \o stop_movement \o special_detection(TRUE) \o reset,
                 (({"tone"} \cup {"moving"}) \cup {"detection"}) \cup {"moving", "acting"})
      BY CommandsTidy, TidiesConcat
    <2>3. (({"tone"} \cup {"moving"}) \cup {"detection"}) \cup {"moving", "acting"}
              = {"tone", "moving", "detection", "acting"}
      OBVIOUS
    <2> QED BY <2>1, <2>2, <2>3, BleSound DEF BleChoreography
  <1>2. Sound(WsChoreography)
    <2>1. Closed(special_detection(FALSE) \o send_expression \o send_audio(TRUE)
                     \o send_ear(FALSE) \o perform_action \o perform_action \o send_expression
                     \o send_audio(TRUE) \o perform_action \o send_ear(FALSE))
      BY CommandsClosed, ClosedConcat
    <2>2. Tidies(send_audio(FALSE) \o special_detection(TRUE) \o reset,
                 ({"tone"} \cup {"detection"}) \cup {"moving", "acting"})
      BY CommandsTidy, TidiesConcat
    <2>3. ({"tone"} \cup {"detection"}) \cup {"moving", "acting"}
              = {"tone", "detection", "acting", "moving"}
      OBVIOUS
    <2> QED BY <2>1, <2>2, <2>3, WsSound DEF WsChoreography
  <1> QED BY <1>1, <1>2

LEMMA StreamSound ==
    /\ Sound(BleImuRead) /\ Sound(BleTofRead)
    /\ \A b \in BOOLEAN : Sound(WsImuRead(b)) /\ Sound(WsTofRead(b))
  <1>1. Sound(BleImuRead) /\ Sound(BleTofRead)
    BY CommandsClosed, CommandsTidy, BleSound DEF BleImuRead, BleTofRead
  <1>2. \A b \in BOOLEAN : Sound(WsImuRead(b))
    BY CommandsClosed, CommandsTidy, WsSound DEF WsImuRead
  <1> QED BY <1>1, <1>2 DEF WsTofRead

\* Offsets that are numbers, one for each foot coordinate that is adjusted.
LEMMA FeetCommand ==
    ASSUME NEW d, DOMAIN d \subseteq FootOrder, d = [f \in DOMAIN d |-> d[f]],
           \A f \in DOMAIN d : d[f] \in Int
    PROVE  [op |-> "feet", delta |-> d] \in Command
  <1>1. d \in [DOMAIN d -> Int]
    OBVIOUS
  <1> QED BY <1>1 DEF Command

\* An adjustment of the feet leads from any stance to the one it leaves.
LEMMA FeetScript ==
    ASSUME NEW s \in Stance, NEW c \in Command, c.op = "feet"
    PROVE  Script(<< c >>, s, After(c, s)) /\ KeepsLink(<< c >>)
  <1>1. Fits(c, s)
    BY DEF Fits
  <1> QED BY <1>1, ScriptOne DEF KeepsLink, LinkOps

\* The opposite adjustment of the feet brings the stance back.
LEMMA FeetBack ==
    ASSUME NEW s \in Stance, NEW c \in Command, NEW d \in Command, c.op = "feet", d.op = "feet",
           DOMAIN d.delta = DOMAIN c.delta,
           \A f \in DOMAIN c.delta : d.delta[f] = -c.delta[f]
    PROVE  After(d, After(c, s)) = s
  <1>1. \A f \in DOMAIN c.delta : c.delta[f] \in Int
    BY CommandOp
  <1>2. After(c, s) \in Stance
    BY AfterStance
  <1>3. \A f \in FootOrder : After(d, After(c, s)).feet[f] = s.feet[f]
    <2> SUFFICES ASSUME NEW f \in FootOrder PROVE After(d, After(c, s)).feet[f] = s.feet[f]
      OBVIOUS
    <2>1. s.feet[f] \in Int
      BY DEF Stance
    <2>2. After(c, s).feet[f] = s.feet[f] + (IF f \in DOMAIN c.delta THEN c.delta[f] ELSE 0)
      BY DEF After
    <2>3. After(d, After(c, s)).feet[f]
              = After(c, s).feet[f] + (IF f \in DOMAIN d.delta THEN d.delta[f] ELSE 0)
      BY DEF After
    <2>4. CASE f \in DOMAIN c.delta
      BY <1>1, <2>1, <2>2, <2>3, <2>4
    <2>5. CASE f \notin DOMAIN c.delta
      BY <2>1, <2>2, <2>3, <2>5
    <2> QED BY <2>4, <2>5
  <1>4. After(d, After(c, s)).height = s.height
    BY DEF After
  <1>5. After(d, After(c, s)) \in Stance
    BY <1>2, AfterStance
  <1> QED BY <1>3, <1>4, <1>5 DEF Stance

\* Scripts over the open link, from one stance to another.
LEMMA LinkedConcat ==
    \A q, r, s, t, u : Script(q, s, t) /\ Script(r, t, u) /\ KeepsLink(q) /\ KeepsLink(r)
        => Script(q \o r, s, u) /\ KeepsLink(q \o r)
  BY ScriptConcat, KeepsLinkConcat DEF Script

LEMMA PoseSound == Sound(SafePoseAdjust)
  <1> DEFINE F(x) == [foot_0_x |-> x, foot_1_x |-> x, foot_2_x |-> x, foot_3_x |-> x]
             c(x) == [op |-> "feet", delta |-> F(x)]
             low == [feet |-> Level, height |-> 55]
             down == [op |-> "pose", from |-> 110, to |-> 55]
             up == [op |-> "pose", from |-> 55, to |-> 110]
             def == [op |-> "default", to |-> 110]
  <1>1. /\ Standing \in Stance /\ low \in Stance
        /\ Standing.height = 110 /\ Standing.feet = Level
    BY StandingStance DEF Stance, Standing, StandingHeight
  <1>2. down \in Command /\ up \in Command /\ def \in Command
    BY DEF Command
  <1>3. Script(<< def >>, Standing, Standing)
    <2>1. Fits(def, Standing) /\ After(def, Standing) = Standing
      BY <1>1 DEF Fits, After, Standing, StandingHeight
    <2> QED BY <1>1, <1>2, <2>1, ScriptOne
  <1>4. Script(<< down >>, Standing, low)
    <2>1. Fits(down, Standing) /\ After(down, Standing) = low
      BY <1>1 DEF Fits, After
    <2> QED BY <1>1, <1>2, <2>1, ScriptOne
  <1>5. Script(<< up >>, low, Standing)
    <2>1. Fits(up, low) /\ After(up, low) = Standing
      BY DEF Fits, After, Standing, StandingHeight
    <2> QED BY <1>1, <1>2, <2>1, ScriptOne
  <1>6. KeepsLink(<< def >>) /\ KeepsLink(<< down >>) /\ KeepsLink(<< up >>)
    BY DEF KeepsLink, LinkOps
  <1>7. \A x \in Int : c(x) \in Command /\ c(x).op = "feet"
    <2> SUFFICES ASSUME NEW x \in Int PROVE c(x) \in Command
      OBVIOUS
    <2>1. F(x) \in [{"foot_0_x", "foot_1_x", "foot_2_x", "foot_3_x"} -> Int]
      OBVIOUS
    <2>2. {"foot_0_x", "foot_1_x", "foot_2_x", "foot_3_x"} \in SUBSET FootOrder
      BY DEF FootOrder
    <2> QED BY <2>1, <2>2 DEF Command
  <1>8. After(c(-30), After(c(30), Standing)) = Standing
    <2>1. /\ DOMAIN c(30).delta = {"foot_0_x", "foot_1_x", "foot_2_x", "foot_3_x"}
          /\ DOMAIN c(-30).delta = {"foot_0_x", "foot_1_x", "foot_2_x", "foot_3_x"}
          /\ \A f \in {"foot_0_x", "foot_1_x", "foot_2_x", "foot_3_x"} :
                 c(-30).delta[f] = -30 /\ c(30).delta[f] = 30
      OBVIOUS
    <2>2. /\ c(30) \in Command /\ c(-30) \in Command
          /\ c(30).op = "feet" /\ c(-30).op = "feet"
      BY <1>7
    <2> HIDE DEF c
    <2>3. \A f \in DOMAIN c(30).delta : c(-30).delta[f] = -(c(30).delta[f])
      BY <2>1
    <2> QED BY <1>1, <2>1, <2>2, <2>3, FeetBack
  <1> DEFINE out == After(c(30), Standing)
  <1>9. /\ Script(<< c(30) >>, Standing, out) /\ Script(<< c(-30) >>, out, Standing)
        /\ KeepsLink(<< c(30) >>) /\ KeepsLink(<< c(-30) >>)
    <2>1. c(30) \in Command /\ c(-30) \in Command /\ c(30).op = "feet" /\ c(-30).op = "feet"
      BY <1>7
    <2>2. out \in Stance
      BY <1>1, <2>1, AfterStance
    <2> HIDE DEF c
    <2> QED BY <1>1, <1>8, <2>1, <2>2, FeetScript
  <1>10. SafePoseAdjust =
            Ble(FALSE, TRUE,
                request_basic_mode \o special_detection(FALSE) \o << def >> \o << down >> \o << up >>
                    \o << c(30) >> \o << c(-30) >>,
                request_basic_mode \o special_detection(TRUE) \o stop_movement, TRUE,
                {"pose", "detection", "moving"})
    BY DEF SafePoseAdjust, default_pose_output, syn_pose_adjust, syn_foot_adjust
  <1> DEFINE a1 == << def >>
             a2 == << down >>
             a3 == << up >>
             a4 == << c(30) >>
             a5 == << c(-30) >>
             a0 == request_basic_mode \o special_detection(FALSE)
  <1>11. Closed(a0)
    BY CommandsClosed, ClosedConcat
  <1>12. SafePoseAdjust =
            Ble(FALSE, TRUE, a0 \o a1 \o a2 \o a3 \o a4 \o a5,
                request_basic_mode \o special_detection(TRUE) \o stop_movement, TRUE,
                {"pose", "detection", "moving"})
    BY <1>10
  <1>13. /\ Script(a0, Standing, Standing) /\ Script(a1, Standing, Standing)
         /\ Script(a2, Standing, low) /\ Script(a3, low, Standing)
         /\ Script(a4, Standing, out) /\ Script(a5, out, Standing)
         /\ KeepsLink(a0) /\ KeepsLink(a1) /\ KeepsLink(a2) /\ KeepsLink(a3)
         /\ KeepsLink(a4) /\ KeepsLink(a5)
    BY <1>3, <1>4, <1>5, <1>6, <1>9, <1>11 DEF Closed
  <1> HIDE DEF a0, a1, a2, a3, a4, a5, low, out
  <1>14. Closed(a0 \o a1 \o a2 \o a3 \o a4 \o a5)
    <2>1. Script(a0 \o a1, Standing, Standing) /\ KeepsLink(a0 \o a1)
      BY <1>13, LinkedConcat
    <2>2. Script(a0 \o a1 \o a2, Standing, low) /\ KeepsLink(a0 \o a1 \o a2)
      BY <1>13, LinkedConcat, <2>1
    <2>3. Script(a0 \o a1 \o a2 \o a3, Standing, Standing) /\ KeepsLink(a0 \o a1 \o a2 \o a3)
      BY <1>13, LinkedConcat, <2>2
    <2>4. /\ Script(a0 \o a1 \o a2 \o a3 \o a4, Standing, out)
          /\ KeepsLink(a0 \o a1 \o a2 \o a3 \o a4)
      BY <1>13, LinkedConcat, <2>3
    <2> QED BY <1>13, LinkedConcat, <2>4 DEF Closed
  <1>15. Tidies(request_basic_mode \o special_detection(TRUE) \o stop_movement,
                {"pose", "detection", "moving"})
    <2>1. Tidies(request_basic_mode \o special_detection(TRUE) \o stop_movement,
                 ({"pose"} \cup {"detection"}) \cup {"moving"})
      BY CommandsTidy, TidiesConcat
    <2>2. ({"pose"} \cup {"detection"}) \cup {"moving"} = {"pose", "detection", "moving"}
      OBVIOUS
    <2> QED BY <2>1, <2>2
  <1> QED BY <1>12, <1>14, <1>15, BleSound

LEMMA CustomSound == Sound(CustomAction)
  <1> DEFINE d1 == [foot_0_x |-> 25, foot_2_x |-> 25, foot_1_x |-> 25, foot_3_x |-> 25]
             d2 == [foot_0_z |-> 40, foot_2_z |-> 40, foot_0_x |-> -20, foot_2_x |-> -20]
             d3 == [foot_0_z |-> -40, foot_2_z |-> -40, foot_0_x |-> 20, foot_2_x |-> 20]
             d4 == [foot_0_x |-> -25, foot_2_x |-> -25, foot_1_x |-> -25, foot_3_x |-> -25]
             c1 == [op |-> "feet", delta |-> d1]
             c2 == [op |-> "feet", delta |-> d2]
             c3 == [op |-> "feet", delta |-> d3]
             c4 == [op |-> "feet", delta |-> d4]
             def == [op |-> "default", to |-> 110]
             near == {"foot_0_x", "foot_1_x", "foot_2_x", "foot_3_x"}
             front == {"foot_0_z", "foot_2_z", "foot_0_x", "foot_2_x"}
  <1>1. /\ c1 \in Command /\ c2 \in Command /\ c3 \in Command /\ c4 \in Command
        /\ def \in Command
    <2>1. near \in SUBSET FootOrder /\ front \in SUBSET FootOrder
      BY DEF FootOrder
    <2>2. d1 \in [near -> Int] /\ d4 \in [near -> Int]
      OBVIOUS
    <2>3. d2 \in [front -> Int] /\ d3 \in [front -> Int]
      OBVIOUS
    <2> QED BY <2>1, <2>2, <2>3 DEF Command
  <1>2. c1.op = "feet" /\ c2.op = "feet" /\ c3.op = "feet" /\ c4.op = "feet"
    OBVIOUS
  <1>3. /\ DOMAIN c4.delta = DOMAIN c1.delta
        /\ \A f \in DOMAIN c1.delta : c4.delta[f] = -c1.delta[f]
    OBVIOUS
  <1>4. /\ DOMAIN c3.delta = DOMAIN c2.delta
        /\ \A f \in DOMAIN c2.delta : c3.delta[f] = -c2.delta[f]
    OBVIOUS
  <1>5. Script(<< def >>, Standing, Standing) /\ KeepsLink(<< def >>)
    <2>1. Fits(def, Standing) /\ After(def, Standing) = Standing
      BY DEF Fits, After, Standing, StandingHeight
    <2>2. KeepsLink(<< def >>)
      BY DEF KeepsLink, LinkOps
    <2> QED BY <1>1, <2>1, <2>2, ScriptOne, StandingStance
  <1> DEFINE forth == After(c1, Standing)
             sniff == After(c2, forth)
             a0 == special_detection(FALSE)
             a1 == request_basic_mode
             a2 == << def >>
             a3 == << c1 >>
             a4 == << c2 >>
             a5 == << c3 >>
             a6 == << c4 >>
  <1>6. _run_sniff_motion = a1 \o a2 \o a3 \o a4 \o send_expression \o send_audio(TRUE)
                                \o send_audio(FALSE) \o a5 \o a6 \o a1
    BY DEF _run_sniff_motion, default_pose_output, syn_foot_adjust
  <1> HIDE DEF c1, c2, c3, c4
  <1>7. forth \in Stance /\ sniff \in Stance
    BY <1>1, AfterStance, StandingStance
  <1>8. After(c3, sniff) = forth
    BY <1>1, <1>2, <1>4, <1>7, FeetBack
  <1>9. After(c4, forth) = Standing
    BY <1>1, <1>2, <1>3, FeetBack, StandingStance
  <1>10. /\ Script(a3, Standing, forth) /\ KeepsLink(a3)
         /\ Script(a4, forth, sniff) /\ KeepsLink(a4)
         /\ Script(a5, sniff, forth) /\ KeepsLink(a5)
         /\ Script(a6, forth, Standing) /\ KeepsLink(a6)
    BY <1>1, <1>2, <1>7, <1>8, <1>9, FeetScript, StandingStance
  <1>11. /\ Script(send_expression, sniff, sniff) /\ KeepsLink(send_expression)
         /\ \A b \in BOOLEAN : Script(send_audio(b), sniff, sniff) /\ KeepsLink(send_audio(b))
    <2>1. /\ KeepsLink(send_expression)
          /\ \A b \in BOOLEAN : KeepsLink(send_audio(b))
      BY CommandsClosed DEF Closed
    <2>2. Script(send_expression, sniff, sniff)
      BY <1>7, ScriptSame DEF send_expression, Simple
    <2>3. \A b \in BOOLEAN : Script(send_audio(b), sniff, sniff)
      BY <1>7, ScriptSame DEF send_audio, Simple
    <2> QED BY <2>1, <2>2, <2>3
  <1>12. /\ Script(a1, Standing, Standing) /\ KeepsLink(a1)
         /\ Script(a2, Standing, Standing) /\ KeepsLink(a2)
    BY <1>5, CommandsClosed DEF Closed
  <1> HIDE DEF forth, sniff, a1, a2, a3, a4, a5, a6
  <1>13. Closed(_run_sniff_motion)
    <2> DEFINE b1 == a1 \o a2 \o a3 \o a4
               b2 == b1 \o send_expression \o send_audio(TRUE) \o send_audio(FALSE)
    <2>1. Script(b1, Standing, sniff) /\ KeepsLink(b1)
      <3>1. Script(a1 \o a2, Standing, Standing) /\ KeepsLink(a1 \o a2)
        BY <1>12, LinkedConcat
      <3>2. Script(a1 \o a2 \o a3, Standing, forth) /\ KeepsLink(a1 \o a2 \o a3)
        BY <1>10, <3>1, LinkedConcat
      <3> QED BY <1>10, <3>2, LinkedConcat
    <2> HIDE DEF b1
    <2>2. Script(b2, Standing, sniff) /\ KeepsLink(b2)
      <3>1. Script(b1 \o send_expression, Standing, sniff) /\ KeepsLink(b1 \o send_expression)
        BY <1>11, <2>1, LinkedConcat
      <3>2. /\ Script(b1 \o send_expression \o send_audio(TRUE), Standing, sniff)
            /\ KeepsLink(b1 \o send_expression \o send_audio(TRUE))
        BY <1>11, <3>1, LinkedConcat
      <3> QED BY <1>11, <3>2, LinkedConcat
    <2>3. _run_sniff_motion = b2 \o a5 \o a6 \o a1
      BY <1>6 DEF b1
    <2> HIDE DEF b2
    <2>4. Script(b2 \o a5, Standing, forth) /\ KeepsLink(b2 \o a5)
      BY <1>10, <2>2, LinkedConcat
    <2>5. Script(b2 \o a5 \o a6, Standing, Standing) /\ KeepsLink(b2 \o a5 \o a6)
      BY <1>10, <2>4, LinkedConcat
    <2>6. Script(b2 \o a5 \o a6 \o a1, Standing, Standing) /\ KeepsLink(b2 \o a5 \o a6 \o a1)
      BY <1>12, <2>5, LinkedConcat
    <2> QED BY <2>3, <2>6 DEF Closed
  <1>14. Closed(special_detection(FALSE) \o _run_sniff_motion)
    BY <1>13, CommandsClosed, ClosedConcat
  <1>15. Tidies(send_audio(FALSE) \o request_basic_mode \o special_detection(TRUE) \o reset,
                {"tone", "pose", "detection", "moving", "acting"})
    <2>1. Tidies(send_audio(FALSE) \o request_basic_mode \o special_detection(TRUE) \o reset,
                 (({"tone"} \cup {"pose"}) \cup {"detection"}) \cup {"moving", "acting"})
      BY CommandsTidy, TidiesConcat
    <2>2. (({"tone"} \cup {"pose"}) \cup {"detection"}) \cup {"moving", "acting"}
              = {"tone", "pose", "detection", "moving", "acting"}
      OBVIOUS
    <2> QED BY <2>1, <2>2
  <1> QED BY <1>14, <1>15, BleSound DEF CustomAction

\* Every program of the catalogue.
LEMMA CatalogueSound == \A n \in DOMAIN Catalogue : Sound(Catalogue[n])
  <1>1. DOMAIN Catalogue =
            {"connect_by_address", "scan_and_connect", "ws_connection_test",
             "ble_directional_move", "ble_timed_move", "ws_directional_move", "ws_timed_move",
             "ble_basic_actions", "ws_basic_actions", "ble_ears_expressions_audio",
             "ws_ears_expressions_audio", "ble_choreography", "ws_choreography",
             "ble_imu_read", "ble_tof_read", "ws_imu_read", "ws_imu_read_stop", "ws_tof_read",
             "ws_tof_read_stop", "safe_pose_adjust", "custom_action"}
    BY DEF Catalogue
  <1>2. /\ Catalogue.connect_by_address = BleConnectByAddress
        /\ Catalogue.scan_and_connect = BleScanAndConnect
        /\ Catalogue.ws_connection_test = WsConnectionTest
        /\ Catalogue.ble_directional_move = BleDirectionalMove
        /\ Catalogue.ble_timed_move = BleTimedMove
        /\ Catalogue.ws_directional_move = WsDirectionalMove
        /\ Catalogue.ws_timed_move = WsTimedMove
        /\ Catalogue.ble_basic_actions = BleBasicActions
        /\ Catalogue.ws_basic_actions = WsBasicActions
        /\ Catalogue.ble_ears_expressions_audio = BleEarsExpressionsAudio
        /\ Catalogue.ws_ears_expressions_audio = WsEarsExpressionsAudio
        /\ Catalogue.ble_choreography = BleChoreography
        /\ Catalogue.ws_choreography = WsChoreography
        /\ Catalogue.ble_imu_read = BleImuRead
        /\ Catalogue.ble_tof_read = BleTofRead
        /\ Catalogue.ws_imu_read = WsImuRead(FALSE)
        /\ Catalogue.ws_imu_read_stop = WsImuRead(TRUE)
        /\ Catalogue.ws_tof_read = WsTofRead(FALSE)
        /\ Catalogue.ws_tof_read_stop = WsTofRead(TRUE)
        /\ Catalogue.safe_pose_adjust = SafePoseAdjust
        /\ Catalogue.custom_action = CustomAction
    BY DEF Catalogue
  <1>3. /\ Sound(Catalogue.connect_by_address) /\ Sound(Catalogue.scan_and_connect)
        /\ Sound(Catalogue.ws_connection_test) /\ Sound(Catalogue.ble_directional_move)
        /\ Sound(Catalogue.ble_timed_move) /\ Sound(Catalogue.ws_directional_move)
        /\ Sound(Catalogue.ws_timed_move) /\ Sound(Catalogue.ble_basic_actions)
        /\ Sound(Catalogue.ws_basic_actions) /\ Sound(Catalogue.ble_ears_expressions_audio)
        /\ Sound(Catalogue.ws_ears_expressions_audio) /\ Sound(Catalogue.ble_choreography)
        /\ Sound(Catalogue.ws_choreography) /\ Sound(Catalogue.ble_imu_read)
        /\ Sound(Catalogue.ble_tof_read) /\ Sound(Catalogue.ws_imu_read)
        /\ Sound(Catalogue.ws_imu_read_stop) /\ Sound(Catalogue.ws_tof_read)
        /\ Sound(Catalogue.ws_tof_read_stop) /\ Sound(Catalogue.safe_pose_adjust)
        /\ Sound(Catalogue.custom_action)
    BY <1>2, ConnectionSound, MovementSound, ActionSound, EarsSound, ChoreographySound,
       StreamSound, PoseSound, CustomSound
  <1> QED BY <1>1, <1>3

-----------------------------------------------------------------------------
(***************************************************************************)
(* The inductive invariant of Programs.                                    *)
(***************************************************************************)
ScriptTyped == TypeOK /\ todo \in Seq(Command)

\* Nothing has happened while the program looks for its robot.
NothingYet ==
    block = "setup" =>
        /\ todo = <<>> /\ ~tidied /\ disturbed = {}
        /\ feet = Level /\ height = StandingHeight
        /\ ~session /\ ~entering

\* What is left to do begins in the stance that the robot has.
LeftJoins ==
    fails = 0 => Joins(todo, [feet |-> feet, height |-> height], Standing)

\* A walk that started is about to be checked and stopped.
StopIsNext ==
    /\ Walks(todo)
    /\ (fails = 0 /\ positive /\ "moving" \in disturbed) =>
           /\ Running
           /\ \/ Head(todo).op = "stop"
              \/ Head(todo).op = "check" /\ Len(todo) > 1 /\ todo[2].op = "stop"

\* The end, and the catch block, disturb nothing more, and still hold what puts
\* right each promised aspect that is not right yet.
StillPuts ==
    block \in {"tail", "cleanup"} =>
        /\ \A i \in 1 .. Len(todo) : Marks(todo[i].op) = {}
        /\ \A a \in P.promise \cap disturbed : \E i \in 1 .. Len(todo) :
               a \in Clears(todo[i].op) /\ todo[i].op # "stream_try_off"

Leaving ==
    /\ block = "cleanup" => P.caught
    /\ block = "leave" => \A i \in 1 .. Len(todo) : todo[i].op \in LinkOps
    /\ tidied => block \in {"leave", "ended", "aborted"} /\ P.promise \cap disturbed = {}

\* While a BLE program may have a session its link is up, and the exit comes
\* before the link goes.
ExitFirst ==
    P.link = "ble" =>
        /\ ~entering /\ exited # "gone"
        /\ session => link = "up"
        /\ Guarded(todo, ~session)
        /\ block = "leave" /\ session => todo # <<>> /\ Head(todo).op = "exit"
        /\ block \in {"setup", "ended"} => ~session

ProgramInv ==
    /\ ScriptTyped /\ NothingYet /\ LeftJoins /\ StopIsNext /\ StillPuts /\ Leaving /\ ExitFirst

Now == [feet |-> feet, height |-> height]

LEMMA ProgramIsSound ==
    ASSUME TypeOK
    PROVE  Sound(P)
  BY CatalogueSound, NamesAssumption DEF TypeOK, P

LEMMA TailFacts ==
    ASSUME NEW q \in Seq(Command), q # <<>>
    PROVE  /\ Head(q) = q[1] /\ Head(q) \in Command /\ Len(q) \in Nat /\ Len(q) >= 1
           /\ Tail(q) \in Seq(Command) /\ Len(Tail(q)) = Len(q) - 1
           /\ \A i \in 1 .. Len(Tail(q)) : i + 1 \in 1 .. Len(q) /\ Tail(q)[i] = q[i + 1]
  OBVIOUS

LEMMA WalksTail ==
    ASSUME NEW q \in Seq(Command), q # <<>>, Walks(q)
    PROVE  Walks(Tail(q))
  <1> SUFFICES ASSUME NEW i \in 1 .. Len(Tail(q)), Tail(q)[i].op = "start"
               PROVE  /\ i + 2 \in 1 .. Len(Tail(q))
                      /\ Tail(q)[i + 1].op = "check" /\ Tail(q)[i + 2].op = "stop"
    BY DEF Walks
  <1>1. /\ Len(q) \in Nat /\ Len(Tail(q)) = Len(q) - 1
        /\ \A j \in 1 .. Len(Tail(q)) : j + 1 \in 1 .. Len(q) /\ Tail(q)[j] = q[j + 1]
    BY TailFacts
  <1>2. /\ (i + 1) + 2 \in 1 .. Len(q)
        /\ q[(i + 1) + 1].op = "check" /\ q[(i + 1) + 2].op = "stop"
    BY <1>1 DEF Walks
  <1>3. i + 2 \in 1 .. Len(Tail(q)) /\ i + 1 \in 1 .. Len(Tail(q))
    BY <1>1, <1>2
  <1>4. Tail(q)[i + 1] = q[(i + 1) + 1] /\ Tail(q)[i + 2] = q[(i + 2) + 1]
    BY <1>1, <1>3
  <1>5. (i + 2) + 1 = (i + 1) + 2
    OBVIOUS
  <1> QED BY <1>2, <1>3, <1>4, <1>5

\* Behind an exit the session is over.
LEMMA GuardedTail ==
    ASSUME NEW q \in Seq(Command), q # <<>>, NEW over, NEW overNext, Guarded(q, over),
           Head(q).op = "exit" => overNext
    PROVE  Guarded(Tail(q), overNext)
  <1>1. /\ Head(q) = q[1] /\ Len(q) \in Nat /\ Len(Tail(q)) = Len(q) - 1
        /\ \A j \in 1 .. Len(Tail(q)) : j + 1 \in 1 .. Len(q) /\ Tail(q)[j] = q[j + 1]
    BY TailFacts
  <1> SUFFICES ASSUME NEW i \in 1 .. Len(Tail(q))
               PROVE  /\ Tail(q)[i].op # "destroy"
                      /\ Tail(q)[i].op = "unlink" =>
                             IF i = 1 THEN overNext ELSE Tail(q)[i - 1].op = "exit"
    BY DEF Guarded
  <1>2. /\ q[i + 1].op # "destroy"
        /\ q[i + 1].op = "unlink" => q[(i + 1) - 1].op = "exit"
    BY <1>1 DEF Guarded
  <1>3. (i + 1) - 1 = i
    OBVIOUS
  <1>4. CASE i = 1
    BY <1>1, <1>2, <1>3, <1>4
  <1>5. CASE i # 1
    <2>1. i - 1 \in 1 .. Len(Tail(q)) /\ (i - 1) + 1 = i
      BY <1>1, <1>5
    <2>2. Tail(q)[i - 1] = q[i]
      BY <1>1, <2>1
    <2> QED BY <1>1, <1>2, <1>3, <1>5, <2>2
  <1> QED BY <1>4, <1>5

LEMMA DestructorsScript ==
    ASSUME Sound(P)
    PROVE  /\ Script(Destructors, Standing, Standing)
           /\ \A i \in 1 .. Len(Destructors) : Destructors[i].op \in LinkOps
           /\ P.link = "ble" => Destructors = disconnect
  <1>1. CASE P.link = "ws"
    <2> DEFINE a == << Cmd("unlink") >>
               b == << Cmd("destroy") >>
               c == << Cmd("exit") >>
    <2>1. Destructors = (a \o b) \o c
      BY <1>1 DEF Destructors
    <2>2. /\ Script(a, Standing, Standing) /\ Script(b, Standing, Standing)
          /\ Script(c, Standing, Standing)
      BY LinkScripts DEF LinkOps
    <2>3. \A i \in 1 .. Len(Destructors) : Destructors[i].op \in LinkOps
      BY <1>1 DEF Destructors, LinkOps, Cmd
    <2> HIDE DEF a, b, c
    <2>4. Script(a \o b, Standing, Standing)
      BY <2>2, ScriptConcat
    <2>5. Script((a \o b) \o c, Standing, Standing)
      BY <2>2, <2>4, ScriptConcat
    <2> QED BY <1>1, <2>1, <2>3, <2>5
  <1>2. CASE P.link # "ws"
    <2>1. Destructors = disconnect
      BY <1>2 DEF Destructors
    <2>2. \A i \in 1 .. 2 : i = 1 \/ i = 2
      OBVIOUS
    <2> QED BY <1>2, <2>1, <2>2, DisconnectScript DEF LinkOps
  <1> QED BY <1>1, <1>2

\* What holds of the commands of a part of main that begins.
LEMMA NewBlock ==
    ASSUME TypeOK, name' = name,
           \/ block' = "body" /\ todo' = P.body
           \/ block' = "tail" /\ todo' = P.tail
           \/ block' = "cleanup" /\ todo' = P.cleanup /\ P.caught
           \/ block' = "leave" /\ todo' \in {disconnect, Destructors}
    PROVE  /\ P' = P
           /\ todo' \in Seq(Command) /\ Walks(todo') /\ Joins(todo', Standing, Standing)
           /\ block' \in {"tail", "cleanup"} => Puts(todo', P.promise)
           /\ block' = "leave" => \A i \in 1 .. Len(todo') : todo'[i].op \in LinkOps
           /\ P.link = "ble" =>
                  /\ \A over \in BOOLEAN : Guarded(todo', over)
                  /\ block' = "leave" => todo' # <<>> /\ Head(todo').op = "exit"
  <1>1. P' = P
    BY DEF P
  <1>2. Sound(P)
    BY ProgramIsSound
  <1>3. CASE block' = "body" /\ todo' = P.body
    <2>1. Script(P.body, Standing, Standing) /\ KeepsLink(P.body)
      BY <1>2 DEF Sound, Closed
    <2>2. \A over \in BOOLEAN : Guarded(P.body, over)
      BY <2>1 DEF KeepsLink, Guarded, LinkOps
    <2> QED BY <1>1, <1>3, <2>1, <2>2 DEF Script
  <1>4. CASE block' = "tail" /\ todo' = P.tail
    <2>1. Script(P.tail, Standing, Standing) /\ Puts(P.tail, P.promise)
      BY <1>2 DEF Sound
    <2>2. P.link = "ble" => \A over \in BOOLEAN : Guarded(P.tail, over)
      BY <1>2 DEF Sound, Guarded
    <2> QED BY <1>1, <1>4, <2>1, <2>2 DEF Script
  <1>5. CASE block' = "cleanup" /\ todo' = P.cleanup /\ P.caught
    <2>1. /\ Script(P.cleanup, Standing, Standing) /\ KeepsLink(P.cleanup)
          /\ Puts(P.cleanup, P.promise)
      BY <1>2, <1>5 DEF Sound, Tidies, Closed
    <2>2. \A over \in BOOLEAN : Guarded(P.cleanup, over)
      BY <2>1 DEF KeepsLink, Guarded, LinkOps
    <2> QED BY <1>1, <1>5, <2>1, <2>2 DEF Script
  <1>6. CASE block' = "leave" /\ todo' \in {disconnect, Destructors}
    <2>1. /\ Script(disconnect, Standing, Standing)
          /\ disconnect # <<>> /\ Head(disconnect).op = "exit"
          /\ \A i \in 1 .. Len(disconnect) : disconnect[i].op \in LinkOps
          /\ \A over \in BOOLEAN : Guarded(disconnect, over)
      <3>1. /\ disconnect \in Seq(Command) /\ Len(disconnect) = 2
            /\ disconnect[1].op = "exit" /\ disconnect[2].op = "unlink"
        BY DisconnectScript
      <3>2. \A i \in 1 .. Len(disconnect) : i = 1 \/ i = 2
        BY <3>1
      <3>3. disconnect # <<>>
        BY <3>1
      <3>4. \A i \in 1 .. Len(disconnect) : disconnect[i].op \in LinkOps
        BY <3>1, <3>2 DEF LinkOps
      <3>5. \A over \in BOOLEAN : Guarded(disconnect, over)
        BY <3>1, <3>2 DEF Guarded
      <3> QED BY <3>3, <3>4, <3>5, DisconnectScript
    <2>2. /\ Script(Destructors, Standing, Standing)
          /\ \A i \in 1 .. Len(Destructors) : Destructors[i].op \in LinkOps
          /\ P.link = "ble" => Destructors = disconnect
      BY <1>2, DestructorsScript
    <2> QED BY <1>1, <1>6, <2>1, <2>2 DEF Script
  <1> QED BY <1>3, <1>4, <1>5, <1>6

\* The robot's stance after a command it took.
LEMMA TakeAfter ==
    ASSUME NEW c, Take(c)
    PROVE  [feet |-> feet', height |-> height'] = After(c, Now)
  BY DEF Take, After, Now

LEMMA NowStance ==
    ASSUME TypeOK
    PROVE  Now \in Stance
  BY DEF TypeOK, Now, Stance

\* What holds of the commands that are left when the first one is done.
LEMMA CommandDone ==
    ASSUME ProgramInv, Running, name' = name, block' = block, todo' = Tail(todo)
    PROVE  /\ P' = P
           /\ Head(todo) \in Command /\ Head(todo) = todo[1]
           /\ todo' \in Seq(Command) /\ Walks(todo')
           /\ block' = "leave" => \A i \in 1 .. Len(todo') : todo'[i].op \in LinkOps
           /\ fails = 0 => /\ Fits(Head(todo), Now)
                           /\ Joins(todo', After(Head(todo), Now), Standing)
           /\ block' = "leave" => Head(todo).op \in LinkOps
  <1>1. todo \in Seq(Command) /\ todo # <<>> /\ Walks(todo)
    BY DEF ProgramInv, ScriptTyped, StopIsNext, Running
  <1>2. P' = P
    BY DEF P
  <1>3. /\ Head(todo) = todo[1] /\ Head(todo) \in Command /\ Len(todo) \in Nat /\ Len(todo) >= 1
        /\ todo' \in Seq(Command) /\ Len(todo') = Len(todo) - 1
        /\ \A i \in 1 .. Len(todo') : i + 1 \in 1 .. Len(todo) /\ todo'[i] = todo[i + 1]
    BY <1>1, TailFacts
  <1>4. Walks(todo')
    BY <1>1, WalksTail
  <1>5. block' = "leave" =>
            /\ \A i \in 1 .. Len(todo') : todo'[i].op \in LinkOps
            /\ Head(todo).op \in LinkOps
    <2> SUFFICES ASSUME block' = "leave"
                 PROVE  /\ \A i \in 1 .. Len(todo') : todo'[i].op \in LinkOps
                        /\ Head(todo).op \in LinkOps
      OBVIOUS
    <2>1. \A i \in 1 .. Len(todo) : todo[i].op \in LinkOps
      BY DEF ProgramInv, Leaving
    <2>2. 1 \in 1 .. Len(todo)
      BY <1>3
    <2> QED BY <1>3, <2>1, <2>2
  <1>6. fails = 0 => /\ Fits(Head(todo), Now)
                     /\ Joins(todo', After(Head(todo), Now), Standing)
    <2>1. fails = 0 => Joins(todo, Now, Standing)
      BY DEF ProgramInv, LeftJoins, Now
    <2> QED BY <1>1, <2>1, JoinsTail
  <1> QED BY <1>2, <1>3, <1>4, <1>5, <1>6

LEMMA PutsDone ==
    ASSUME ProgramInv, Running, name' = name, block' = block, todo' = Tail(todo),
           disturbed' \subseteq disturbed \cup Marks(Head(todo).op),
           Head(todo).op = "stream_try_off" \/ disturbed' \cap Clears(Head(todo).op) = {}
    PROVE  StillPuts'
  <1>1. todo \in Seq(Command) /\ todo # <<>> /\ P' = P
    BY DEF ProgramInv, ScriptTyped, Running, P
  <1>2. /\ Head(todo) = todo[1] /\ Len(todo) \in Nat /\ Len(todo) >= 1
        /\ Len(todo') = Len(todo) - 1
        /\ \A i \in 1 .. Len(todo') : i + 1 \in 1 .. Len(todo) /\ todo'[i] = todo[i + 1]
    BY <1>1, TailFacts
  <1> SUFFICES ASSUME block \in {"tail", "cleanup"}
               PROVE  /\ \A i \in 1 .. Len(todo') : Marks(todo'[i].op) = {}
                      /\ \A a \in P.promise \cap disturbed' : \E i \in 1 .. Len(todo') :
                             a \in Clears(todo'[i].op) /\ todo'[i].op # "stream_try_off"
    BY <1>1 DEF StillPuts
  <1>3. /\ \A i \in 1 .. Len(todo) : Marks(todo[i].op) = {}
        /\ \A a \in P.promise \cap disturbed : \E i \in 1 .. Len(todo) :
               a \in Clears(todo[i].op) /\ todo[i].op # "stream_try_off"
    BY DEF ProgramInv, StillPuts
  <1>4. \A i \in 1 .. Len(todo') : Marks(todo'[i].op) = {}
    BY <1>2, <1>3
  <1>5. ASSUME NEW a \in P.promise \cap disturbed'
        PROVE  \E i \in 1 .. Len(todo') :
                   a \in Clears(todo'[i].op) /\ todo'[i].op # "stream_try_off"
    <2>1. a \in P.promise \cap disturbed
      <3>1. 1 \in 1 .. Len(todo)
        BY <1>2
      <3>2. Marks(todo[1].op) = {}
        BY <1>3, <3>1
      <3> QED BY <1>2, <1>5, <3>2
    <2>2. PICK i \in 1 .. Len(todo) : a \in Clears(todo[i].op) /\ todo[i].op # "stream_try_off"
      BY <1>3, <2>1
    <2>3. i # 1
      BY <1>2, <2>2
    <2>4. i - 1 \in 1 .. Len(todo') /\ (i - 1) + 1 = i
      BY <1>2, <2>3
    <2>5. todo'[i - 1] = todo[i]
      BY <1>2, <2>4
    <2> QED BY <2>2, <2>4, <2>5
  <1> QED BY <1>4, <1>5

\* An accepted message.
LEMMA SendKeeps ==
    ASSUME ProgramInv, Send
    PROVE  ProgramInv'
  <1>1. /\ Running /\ Head(todo).op \notin Local /\ link = "up" /\ Take(Head(todo))
        /\ name' = name /\ positive' = positive /\ block' = block /\ todo' = Tail(todo)
        /\ tidied' = tidied /\ fails' = fails /\ link' = link /\ entering' = entering
        /\ session' = session /\ edu' = edu /\ exited' = exited
    BY DEF Send, Sending, own, eduVars
  <1>2. TypeOK /\ todo \in Seq(Command) /\ todo # <<>>
    BY <1>1 DEF ProgramInv, ScriptTyped, Running
  <1>3. /\ P' = P
        /\ Head(todo) \in Command /\ Head(todo) = todo[1]
        /\ todo' \in Seq(Command) /\ Walks(todo')
        /\ block' = "leave" => \A i \in 1 .. Len(todo') : todo'[i].op \in LinkOps
        /\ fails = 0 => Joins(todo', After(Head(todo), Now), Standing)
        /\ block' = "leave" => Head(todo).op \in LinkOps
    BY <1>1, CommandDone
  <1>4. [feet |-> feet', height |-> height'] = After(Head(todo), Now)
    BY <1>1, TakeAfter
  <1>5. disturbed' = (disturbed \ Clears(Head(todo).op)) \cup Marks(Head(todo).op)
    BY <1>1 DEF Take
  <1>6. block # "leave"
    BY <1>1, <1>3 DEF Local, LinkOps
  <1>7. ScriptTyped'
    <2>1. feet' \in [FootOrder -> Int] /\ height' \in Int
      <3>1. [feet |-> feet', height |-> height'] \in Stance
        BY <1>2, <1>3, <1>4, AfterStance, NowStance
      <3> QED BY <3>1 DEF Stance
    <2>2. disturbed' \subseteq Aspects
      BY <1>2, <1>5 DEF TypeOK, Marks, Aspects
    <2> QED BY <1>1, <1>2, <1>3, <2>1, <2>2 DEF TypeOK, ScriptTyped
  <1>8. NothingYet'
    BY <1>1 DEF NothingYet, Running
  <1>9. LeftJoins'
    BY <1>1, <1>3, <1>4 DEF LeftJoins
  <1>10. StopIsNext'
    <2> SUFFICES ASSUME fails = 0, positive, "moving" \in disturbed'
                 PROVE  /\ todo' # <<>> /\ Head(todo').op = "check"
                        /\ Len(todo') > 1 /\ todo'[2].op = "stop"
      BY <1>1, <1>3 DEF StopIsNext, Running
    <2>1. Head(todo).op = "start"
      <3>1. CASE "moving" \in disturbed
        <4>1. Head(todo).op = "stop"
          BY <1>1, <3>1 DEF ProgramInv, StopIsNext, Local
        <4>2. Clears("stop") = {"moving"} /\ Marks("stop") = {}
          BY DEF Clears, Marks
        <4> QED BY <1>5, <4>1, <4>2
      <3>2. CASE "moving" \notin disturbed
        <4>1. "moving" \in Marks(Head(todo).op)
          BY <1>5, <3>2
        <4> QED BY <4>1 DEF Marks
      <3> QED BY <3>1, <3>2
    <2>2. /\ Len(todo) \in Nat /\ Len(todo') = Len(todo) - 1 /\ Len(todo) >= 1
          /\ \A i \in 1 .. Len(todo') : todo'[i] = todo[i + 1]
      BY <1>1, <1>2, TailFacts
    <2>3. /\ 1 + 2 \in 1 .. Len(todo)
          /\ todo[1 + 1].op = "check" /\ todo[1 + 2].op = "stop"
      BY <1>3, <2>1, <2>2 DEF ProgramInv, StopIsNext, Walks
    <2>4. Len(todo') > 1 /\ 1 \in 1 .. Len(todo') /\ 2 \in 1 .. Len(todo')
      BY <2>2, <2>3
    <2>5. todo'[1].op = "check" /\ todo'[2].op = "stop"
      BY <2>2, <2>3, <2>4
    <2>6. todo' # <<>> /\ Head(todo') = todo'[1]
      BY <1>3, <2>4
    <2> QED BY <2>4, <2>5, <2>6
  <1>11. StillPuts'
    <2>1. disturbed' \subseteq disturbed \cup Marks(Head(todo).op)
      BY <1>5
    <2>2. disturbed' \cap Clears(Head(todo).op) = {}
      BY <1>5 DEF Clears, Marks
    <2> QED BY <1>1, <2>1, <2>2, PutsDone
  <1>12. Leaving'
    BY <1>1, <1>3, <1>6 DEF ProgramInv, Leaving, Running
  <1>13. ExitFirst'
    <2> SUFFICES ASSUME P.link = "ble"
                 PROVE  Guarded(todo', ~session)
      BY <1>1, <1>3, <1>6 DEF ProgramInv, ExitFirst, Running
    <2>1. Guarded(todo, ~session) /\ Head(todo).op # "exit"
      BY <1>1 DEF ProgramInv, ExitFirst, Local
    <2> QED BY <1>1, <1>2, <2>1, GuardedTail
  <1> QED BY <1>7, <1>8, <1>9, <1>10, <1>11, <1>12, <1>13 DEF ProgramInv

\* Exceptions: where they lead to, and what they leave to be done.
LEMMA Thrown ==
    ASSUME ProgramInv, Throw, name' = name, block # "leave"
    PROVE  /\ block' \in {"cleanup", "leave"}
           /\ \/ block' = "cleanup" /\ todo' = P.cleanup /\ P.caught
              \/ block' = "leave" /\ todo' \in {disconnect, Destructors}
  <1>1. CASE block = "body" /\ P.caught
    BY <1>1 DEF Throw, Begin
  <1>2. CASE block = "cleanup"
    BY <1>2 DEF Throw, Leave
  <1>3. CASE ~(block = "body" /\ P.caught) /\ block # "cleanup"
    BY <1>3 DEF Throw, Leave
  <1> QED BY <1>1, <1>2, <1>3

\* A message that is refused, or not answered: past it, or out by an exception.
LEMMA SendFailsKeeps ==
    ASSUME ProgramInv, SendFails
    PROVE  ProgramInv'
  <1>1. /\ Running /\ Head(todo).op \notin Local /\ fails < MaxFails /\ fails' = fails + 1
        /\ Take(Head(todo)) \/ (disturbed' = disturbed /\ feet' = feet /\ height' = height)
        /\ name' = name /\ positive' = positive /\ tidied' = tidied /\ link' = link
        /\ entering' = entering /\ session' = session /\ edu' = edu /\ exited' = exited
    BY DEF SendFails, Sending, Failing, own, eduVars, robot
  <1>2. /\ TypeOK /\ todo \in Seq(Command) /\ todo # <<>> /\ Head(todo) \in Command
        /\ P' = P /\ fails \in Nat
    BY <1>1, TailFacts DEF ProgramInv, ScriptTyped, Running, P, TypeOK
  <1>3. fails' # 0 /\ fails' \in 0 .. MaxFails
    BY <1>1, <1>2, FailsAssumption
  <1>4. block # "leave"
    <2>1. Head(todo) = todo[1] /\ 1 \in 1 .. Len(todo)
      BY <1>2, TailFacts
    <2> QED BY <1>1, <2>1 DEF ProgramInv, Leaving, Local, LinkOps
  <1>5. ~tidied /\ block \in {"body", "tail", "cleanup"}
    BY <1>1, <1>4 DEF ProgramInv, Leaving, Running
  <1>6. feet' \in [FootOrder -> Int] /\ height' \in Int /\ disturbed' \subseteq Aspects
    <2>1. CASE Take(Head(todo))
      <3>1. [feet |-> feet', height |-> height'] \in Stance
        BY <1>2, <2>1, AfterStance, NowStance, TakeAfter
      <3>2. disturbed' = (disturbed \ Clears(Head(todo).op)) \cup Marks(Head(todo).op)
        BY <2>1 DEF Take
      <3>3. disturbed' \subseteq Aspects
        BY <1>2, <3>2 DEF TypeOK, Marks, Aspects
      <3> QED BY <3>1, <3>3 DEF Stance
    <2>2. CASE disturbed' = disturbed /\ feet' = feet /\ height' = height
      BY <1>2, <2>2 DEF TypeOK
    <2> QED BY <1>1, <2>1, <2>2
  <1>7. CASE Head(todo).op = "stream_try_off"
    <2>1. todo' = Tail(todo) /\ block' = block
      BY <1>7 DEF SendFails
    <2>2. /\ todo' \in Seq(Command) /\ Walks(todo')
      BY <1>1, <2>1, CommandDone
    <2>3. ScriptTyped'
      BY <1>1, <1>2, <1>3, <1>6, <2>1, <2>2 DEF TypeOK, ScriptTyped
    <2>4. NothingYet' /\ LeftJoins' /\ StopIsNext'
      BY <1>3, <1>5, <2>1, <2>2 DEF NothingYet, LeftJoins, StopIsNext
    <2>5. StillPuts'
      <3>1. Marks(Head(todo).op) = {}
        BY <1>7 DEF Marks
      <3>2. disturbed' \subseteq disturbed \cup Marks(Head(todo).op)
        BY <1>1, <3>1 DEF Take
      <3> QED BY <1>1, <1>7, <2>1, <3>2, PutsDone
    <2>6. Leaving'
      BY <1>1, <1>2, <1>5, <2>1 DEF ProgramInv, Leaving
    <2>7. ExitFirst'
      <3> SUFFICES ASSUME P.link = "ble"
                   PROVE  Guarded(todo', ~session)
        BY <1>1, <1>2, <1>5, <2>1 DEF ProgramInv, ExitFirst
      <3>1. Guarded(todo, ~session) /\ Head(todo).op # "exit"
        BY <1>1 DEF ProgramInv, ExitFirst, Local
      <3> QED BY <1>2, <2>1, <3>1, GuardedTail
    <2> QED BY <2>3, <2>4, <2>5, <2>6, <2>7 DEF ProgramInv
  <1>8. CASE Throw
    <2>1. Throw
      BY <1>8
    <2>2. /\ block' \in {"cleanup", "leave"}
          /\ \/ block' = "cleanup" /\ todo' = P.cleanup /\ P.caught
             \/ block' = "leave" /\ todo' \in {disconnect, Destructors}
      BY <1>1, <1>4, <2>1, Thrown
    <2>3. /\ todo' \in Seq(Command) /\ Walks(todo')
          /\ block' \in {"tail", "cleanup"} => Puts(todo', P.promise)
          /\ block' = "leave" => \A i \in 1 .. Len(todo') : todo'[i].op \in LinkOps
          /\ P.link = "ble" =>
                 /\ \A over \in BOOLEAN : Guarded(todo', over)
                 /\ block' = "leave" => todo' # <<>> /\ Head(todo').op = "exit"
      BY <1>1, <1>2, <2>2, NewBlock
    <2>4. ScriptTyped'
      BY <1>1, <1>2, <1>3, <1>6, <2>2, <2>3 DEF TypeOK, ScriptTyped
    <2>5. NothingYet' /\ LeftJoins' /\ StopIsNext'
      BY <1>3, <2>2, <2>3 DEF NothingYet, LeftJoins, StopIsNext
    <2>6. StillPuts'
      BY <1>2, <2>3 DEF StillPuts, Puts
    <2>7. Leaving'
      BY <1>1, <1>2, <1>5, <2>2, <2>3 DEF Leaving
    <2>8. ExitFirst'
      BY <1>1, <1>2, <2>2, <2>3 DEF ProgramInv, ExitFirst
    <2> QED BY <2>4, <2>5, <2>6, <2>7, <2>8 DEF ProgramInv
  <1>9. CASE Uncaught
    <2>1. block' = "aborted" /\ todo' = todo
      BY <1>9 DEF Uncaught
    <2>2. ScriptTyped'
      BY <1>1, <1>2, <1>3, <1>6, <2>1 DEF ProgramInv, TypeOK, ScriptTyped
    <2>3. NothingYet' /\ LeftJoins' /\ StopIsNext'
      BY <1>3, <2>1 DEF ProgramInv, NothingYet, LeftJoins, StopIsNext
    <2>4. StillPuts' /\ Leaving'
      BY <1>1, <1>5, <2>1 DEF StillPuts, Leaving
    <2>5. ExitFirst'
      BY <1>1, <1>2, <2>1 DEF ProgramInv, ExitFirst
    <2> QED BY <2>2, <2>3, <2>4, <2>5 DEF ProgramInv
  <1> QED BY <1>7, <1>8, <1>9 DEF SendFails

\* An action that ends by itself.
LEMMA ActionOverKeeps ==
    ASSUME ProgramInv, ActionOver
    PROVE  ProgramInv'
  <1>1. /\ disturbed' = disturbed \ {"acting"}
        /\ name' = name /\ positive' = positive /\ block' = block /\ todo' = todo
        /\ tidied' = tidied /\ fails' = fails /\ link' = link /\ entering' = entering
        /\ session' = session /\ edu' = edu /\ exited' = exited
        /\ feet' = feet /\ height' = height
    BY DEF ActionOver, own, eduVars
  <1>2. P' = P
    BY <1>1 DEF P
  <1>3. ScriptTyped' /\ NothingYet' /\ LeftJoins'
    BY <1>1 DEF ProgramInv, ScriptTyped, TypeOK, NothingYet, LeftJoins
  <1>4. StopIsNext'
    BY <1>1 DEF ProgramInv, StopIsNext, Running
  <1>5. StillPuts'
    BY <1>1, <1>2 DEF ProgramInv, StillPuts
  <1>6. Leaving'
    BY <1>1, <1>2 DEF ProgramInv, Leaving
  <1>7. ExitFirst'
    BY <1>1, <1>2 DEF ProgramInv, ExitFirst
  <1> QED BY <1>3, <1>4, <1>5, <1>6, <1>7 DEF ProgramInv

\* The duration is looked at: behind the start, with the stop still to come.
LEMMA CheckDurationKeeps ==
    ASSUME ProgramInv, CheckDuration
    PROVE  ProgramInv'
  <1>1. /\ Running /\ Head(todo).op = "check"
        /\ name' = name /\ positive' = positive /\ tidied' = tidied /\ fails' = fails
        /\ link' = link /\ entering' = entering /\ session' = session /\ edu' = edu
        /\ exited' = exited /\ disturbed' = disturbed /\ feet' = feet /\ height' = height
    BY DEF CheckDuration, own, eduVars, robot
  <1>2. /\ TypeOK /\ todo \in Seq(Command) /\ todo # <<>> /\ Head(todo) \in Command
        /\ P' = P
    BY <1>1, TailFacts DEF ProgramInv, ScriptTyped, Running, P
  <1>3. block # "leave"
    <2>1. Head(todo) = todo[1] /\ 1 \in 1 .. Len(todo)
      BY <1>2, TailFacts
    <2> QED BY <1>1, <2>1 DEF ProgramInv, Leaving, LinkOps
  <1>4. ~tidied /\ block \in {"body", "tail", "cleanup"}
    BY <1>1, <1>3 DEF ProgramInv, Leaving, Running
  <1>5. fails = 0 => Now = Standing
    <2>1. fails = 0 => Joins(todo, Now, Standing)
      BY DEF ProgramInv, LeftJoins, Now
    <2>2. fails = 0 => Fits(Head(todo), Now)
      BY <1>2, <2>1, JoinsTail
    <2> QED BY <1>1, <2>2 DEF Fits
  <1>6. CASE positive
    <2>1. todo' = Tail(todo) /\ block' = block
      BY <1>6 DEF CheckDuration
    <2>2. /\ todo' \in Seq(Command) /\ Walks(todo')
          /\ fails = 0 => Joins(todo', After(Head(todo), Now), Standing)
      BY <1>1, <2>1, CommandDone
    <2>3. ScriptTyped'
      BY <1>1, <1>2, <2>1, <2>2 DEF TypeOK, ScriptTyped
    <2>4. NothingYet'
      BY <1>4, <2>1 DEF NothingYet
    <2>5. LeftJoins'
      <3>1. After(Head(todo), Now) = Now
        BY <1>1 DEF After, Now
      <3> QED BY <1>1, <2>2, <3>1 DEF LeftJoins, Now
    <2>6. StopIsNext'
      <3> SUFFICES ASSUME fails = 0, "moving" \in disturbed
                   PROVE  todo' # <<>> /\ Head(todo').op = "stop"
        BY <1>1, <2>1, <2>2 DEF StopIsNext, Running
      <3>1. Len(todo) > 1 /\ todo[2].op = "stop"
        BY <1>1, <1>6 DEF ProgramInv, StopIsNext
      <3>2. /\ Len(todo) \in Nat /\ Len(todo') = Len(todo) - 1
            /\ \A i \in 1 .. Len(todo') : todo'[i] = todo[i + 1]
        BY <1>2, <2>1, TailFacts
      <3>3. 1 \in 1 .. Len(todo') /\ todo'[1] = todo[1 + 1]
        BY <3>1, <3>2
      <3>4. todo' # <<>> /\ Head(todo') = todo'[1]
        BY <2>2, <3>3
      <3> QED BY <3>1, <3>3, <3>4
    <2>7. StillPuts'
      <3>1. Marks(Head(todo).op) = {} /\ Clears(Head(todo).op) = {}
        BY <1>1 DEF Marks, Clears
      <3>2. /\ disturbed' \subseteq disturbed \cup Marks(Head(todo).op)
            /\ disturbed' \cap Clears(Head(todo).op) = {}
        BY <1>1, <3>1
      <3> QED BY <1>1, <2>1, <3>2, PutsDone
    <2>8. Leaving'
      BY <1>1, <1>2, <1>4, <2>1 DEF ProgramInv, Leaving
    <2>9. ExitFirst'
      <3> SUFFICES ASSUME P.link = "ble"
                   PROVE  Guarded(todo', ~session)
        BY <1>1, <1>2, <1>4, <2>1 DEF ProgramInv, ExitFirst
      <3>1. Guarded(todo, ~session)
        BY DEF ProgramInv, ExitFirst
      <3> QED BY <1>1, <1>2, <2>1, <3>1, GuardedTail
    <2> QED BY <2>3, <2>4, <2>5, <2>6, <2>7, <2>8, <2>9 DEF ProgramInv
  <1>7. CASE ~positive
    <2>1. Throw
      BY <1>7 DEF CheckDuration
    <2>2. /\ block' \in {"cleanup", "leave"}
          /\ \/ block' = "cleanup" /\ todo' = P.cleanup /\ P.caught
             \/ block' = "leave" /\ todo' \in {disconnect, Destructors}
      BY <1>1, <1>3, <2>1, Thrown
    <2>3. /\ todo' \in Seq(Command) /\ Walks(todo') /\ Joins(todo', Standing, Standing)
          /\ block' \in {"tail", "cleanup"} => Puts(todo', P.promise)
          /\ block' = "leave" => \A i \in 1 .. Len(todo') : todo'[i].op \in LinkOps
          /\ P.link = "ble" =>
                 /\ \A over \in BOOLEAN : Guarded(todo', over)
                 /\ block' = "leave" => todo' # <<>> /\ Head(todo').op = "exit"
      BY <1>1, <1>2, <2>2, NewBlock
    <2>4. ScriptTyped'
      BY <1>1, <1>2, <2>2, <2>3 DEF TypeOK, ScriptTyped
    <2>5. NothingYet' /\ StopIsNext'
      BY <1>1, <1>7, <2>2, <2>3 DEF NothingYet, StopIsNext
    <2>6. LeftJoins'
      BY <1>1, <1>5, <2>3 DEF LeftJoins, Now
    <2>7. StillPuts'
      BY <1>2, <2>3 DEF StillPuts, Puts
    <2>8. Leaving'
      BY <1>1, <1>2, <1>4, <2>2, <2>3 DEF Leaving
    <2>9. ExitFirst'
      BY <1>1, <1>2, <2>2, <2>3 DEF ProgramInv, ExitFirst
    <2> QED BY <2>4, <2>5, <2>6, <2>7, <2>8, <2>9 DEF ProgramInv
  <1> QED BY <1>2, <1>6, <1>7 DEF TypeOK

\* The commands that touch the link, but for what they make of it.
LEMMA LinkStep ==
    ASSUME ProgramInv, Running, Head(todo).op \in LinkOps,
           name' = name, positive' = positive, block' = block, todo' = Tail(todo),
           tidied' = tidied, entering' = entering,
           disturbed' = disturbed, feet' = feet, height' = height,
           fails' = fails \/ Failing,
           link' \in {link, "stopped", "gone"}, session' \in BOOLEAN, edu' \in BOOLEAN,
           exited' \in {exited, "sent", "gone"}
    PROVE  /\ ScriptTyped' /\ NothingYet' /\ LeftJoins' /\ StopIsNext' /\ StillPuts' /\ Leaving'
           /\ P' = P /\ block' \notin {"setup", "ended"}
           /\ \A over \in BOOLEAN : \A next \in BOOLEAN :
                  Guarded(todo, over) /\ (Head(todo).op = "exit" => next) => Guarded(todo', next)
  <1>1. /\ TypeOK /\ todo \in Seq(Command) /\ todo # <<>> /\ Head(todo) \in Command
        /\ P' = P /\ fails \in Nat /\ block \in {"body", "tail", "cleanup", "leave"}
    BY TailFacts DEF ProgramInv, ScriptTyped, Running, P, TypeOK
  <1>2. /\ todo' \in Seq(Command) /\ Walks(todo')
        /\ block' = "leave" => \A i \in 1 .. Len(todo') : todo'[i].op \in LinkOps
        /\ fails = 0 => Joins(todo', After(Head(todo), Now), Standing)
    BY CommandDone
  <1>3. fails' \in 0 .. MaxFails /\ (fails' = 0 => fails = 0)
    BY <1>1, FailsAssumption DEF Failing, TypeOK
  <1>4. ScriptTyped'
    BY <1>1, <1>2, <1>3 DEF TypeOK, ScriptTyped
  <1>5. NothingYet'
    BY <1>1 DEF NothingYet
  <1>6. LeftJoins'
    <2>1. After(Head(todo), Now) = Now
      BY DEF After, Now, LinkOps
    <2> QED BY <1>2, <1>3, <2>1 DEF LeftJoins, Now
  <1>7. StopIsNext'
    <2>1. ~(fails = 0 /\ positive /\ "moving" \in disturbed)
      BY DEF ProgramInv, StopIsNext, LinkOps
    <2> QED BY <1>2, <1>3, <2>1 DEF StopIsNext
  <1>8. StillPuts'
    <2>1. Marks(Head(todo).op) = {} /\ Clears(Head(todo).op) = {}
      BY DEF Marks, Clears, LinkOps
    <2>2. /\ disturbed' \subseteq disturbed \cup Marks(Head(todo).op)
          /\ disturbed' \cap Clears(Head(todo).op) = {}
      BY <2>1
    <2> QED BY <2>2, PutsDone
  <1>9. Leaving'
    BY <1>1, <1>2 DEF ProgramInv, Leaving
  <1>10. ASSUME NEW over \in BOOLEAN, NEW next \in BOOLEAN,
                Guarded(todo, over), Head(todo).op = "exit" => next
         PROVE  Guarded(todo', next)
    BY <1>1, <1>10, GuardedTail
  <1> QED BY <1>1, <1>4, <1>5, <1>6, <1>7, <1>8, <1>9, <1>10

LEMMA ExitEduKeeps ==
    ASSUME ProgramInv, ExitEdu
    PROVE  ProgramInv'
  <1>1. /\ Running /\ Head(todo).op = "exit" /\ todo' = Tail(todo)
        /\ session' = FALSE
        /\ exited' = IF ~session THEN exited ELSE IF link = "up" THEN "sent" ELSE "gone"
        /\ name' = name /\ positive' = positive /\ block' = block
        /\ tidied' = tidied /\ link' = link /\ entering' = entering
        /\ disturbed' = disturbed /\ feet' = feet /\ height' = height
    BY DEF ExitEdu, own, robot
  <1>2. edu' \in BOOLEAN /\ (fails' = fails \/ Failing)
    BY DEF ExitEdu, ProgramInv, ScriptTyped, TypeOK
  <1>3. Head(todo).op \in LinkOps
    BY <1>1 DEF LinkOps
  <1>4. link' \in {link, "stopped", "gone"} /\ exited' \in {exited, "sent", "gone"}
        /\ session' \in BOOLEAN
    BY <1>1
  <1>5. /\ ScriptTyped' /\ NothingYet' /\ LeftJoins' /\ StopIsNext' /\ StillPuts' /\ Leaving'
        /\ P' = P /\ block' \notin {"setup", "ended"}
        /\ \A over \in BOOLEAN : \A next \in BOOLEAN :
               Guarded(todo, over) /\ (Head(todo).op = "exit" => next) => Guarded(todo', next)
    BY <1>1, <1>2, <1>3, <1>4, LinkStep
  <1>6. ExitFirst'
    <2> SUFFICES ASSUME P.link = "ble" PROVE ExitFirst'
      BY <1>5 DEF ExitFirst
    <2>1. ~entering /\ exited # "gone" /\ (session => link = "up") /\ Guarded(todo, ~session)
      BY DEF ProgramInv, ExitFirst
    <2>2. Guarded(todo', TRUE)
      BY <1>5, <2>1
    <2>3. Guarded(todo', ~session')
      BY <1>1, <2>2 DEF Guarded
    <2> QED BY <1>1, <2>1, <2>3 DEF ExitFirst
  <1> QED BY <1>5, <1>6 DEF ProgramInv

\* The link closes: a BLE program has no session any more.
LEMMA UnlinkKeeps ==
    ASSUME ProgramInv, Unlink
    PROVE  ProgramInv'
  <1>1. /\ Running /\ Head(todo).op = "unlink" /\ todo' = Tail(todo)
        /\ link' = IF link = "up" THEN "stopped" ELSE link
        /\ name' = name /\ positive' = positive /\ block' = block /\ fails' = fails
        /\ tidied' = tidied /\ entering' = entering /\ session' = session
        /\ edu' = edu /\ exited' = exited
        /\ disturbed' = disturbed /\ feet' = feet /\ height' = height
    BY DEF Unlink, own, robot, eduVars
  <1>2. /\ edu' \in BOOLEAN /\ session' \in BOOLEAN /\ link' \in {link, "stopped", "gone"}
        /\ exited' \in {exited, "sent", "gone"} /\ Head(todo).op \in LinkOps
        /\ todo \in Seq(Command) /\ todo # <<>>
    BY <1>1 DEF ProgramInv, ScriptTyped, TypeOK, LinkOps, Running
  <1>3. /\ ScriptTyped' /\ NothingYet' /\ LeftJoins' /\ StopIsNext' /\ StillPuts' /\ Leaving'
        /\ P' = P /\ block' \notin {"setup", "ended"}
        /\ \A over \in BOOLEAN : \A next \in BOOLEAN :
               Guarded(todo, over) /\ (Head(todo).op = "exit" => next) => Guarded(todo', next)
    BY <1>1, <1>2, LinkStep
  <1>4. ExitFirst'
    <2> SUFFICES ASSUME P.link = "ble" PROVE ExitFirst'
      BY <1>3 DEF ExitFirst
    <2>1. ~entering /\ exited # "gone" /\ Guarded(todo, ~session)
      BY DEF ProgramInv, ExitFirst
    <2>2. ~session
      <3>1. Head(todo) = todo[1] /\ 1 \in 1 .. Len(todo)
        BY <1>2, TailFacts
      <3> QED BY <1>1, <2>1, <3>1 DEF Guarded
    <2>3. Guarded(todo', ~session)
      <3>1. (~session) \in BOOLEAN
        OBVIOUS
      <3> QED BY <1>1, <1>3, <2>1, <3>1
    <2> QED BY <1>1, <1>3, <2>1, <2>2, <2>3 DEF ExitFirst
  <1> QED BY <1>3, <1>4 DEF ProgramInv

\* The host goes: no BLE program has one.
LEMMA DestroyHostKeeps ==
    ASSUME ProgramInv, DestroyHost
    PROVE  ProgramInv'
  <1>1. /\ Running /\ Head(todo).op = "destroy" /\ todo' = Tail(todo) /\ link' = "gone"
        /\ name' = name /\ positive' = positive /\ block' = block /\ fails' = fails
        /\ tidied' = tidied /\ entering' = entering /\ session' = session
        /\ edu' = edu /\ exited' = exited
        /\ disturbed' = disturbed /\ feet' = feet /\ height' = height
    BY DEF DestroyHost, own, robot, eduVars
  <1>2. /\ edu' \in BOOLEAN /\ session' \in BOOLEAN /\ link' \in {link, "stopped", "gone"}
        /\ exited' \in {exited, "sent", "gone"} /\ Head(todo).op \in LinkOps
        /\ todo \in Seq(Command) /\ todo # <<>>
    BY <1>1 DEF ProgramInv, ScriptTyped, TypeOK, LinkOps, Running
  <1>3. /\ ScriptTyped' /\ NothingYet' /\ LeftJoins' /\ StopIsNext' /\ StillPuts' /\ Leaving'
        /\ P' = P
    BY <1>1, <1>2, LinkStep
  <1>4. P.link # "ble"
    <2>1. Head(todo) = todo[1] /\ 1 \in 1 .. Len(todo)
      BY <1>2, TailFacts
    <2> QED BY <1>1, <2>1 DEF ProgramInv, ExitFirst, Guarded
  <1> QED BY <1>3, <1>4 DEF ProgramInv, ExitFirst

\* The end of a part of main.
LEMMA EndOfBlockKeeps ==
    ASSUME ProgramInv, EndOfBlock
    PROVE  ProgramInv'
  <1>1. /\ block \in {"body", "tail", "cleanup", "leave"} /\ todo = <<>>
        /\ name' = name /\ positive' = positive /\ fails' = fails /\ link' = link
        /\ entering' = entering /\ session' = session /\ edu' = edu /\ exited' = exited
        /\ disturbed' = disturbed /\ feet' = feet /\ height' = height
    BY DEF EndOfBlock, own, eduVars, robot
  <1>2. TypeOK /\ P' = P
    BY <1>1 DEF ProgramInv, ScriptTyped, P
  <1>3. fails = 0 => Now = Standing
    <2>1. fails = 0 => Joins(<<>>, Now, Standing)
      BY <1>1 DEF ProgramInv, LeftJoins, Now
    <2>2. Joins(<<>>, Now, Standing) => Now = Standing
      BY DEF Joins
    <2> QED BY <2>1, <2>2
  <1>4. ~(fails = 0 /\ positive /\ "moving" \in disturbed)
    BY <1>1 DEF ProgramInv, StopIsNext, Running
  <1>5. block \in {"tail", "cleanup"} => P.promise \cap disturbed = {}
    BY <1>1 DEF ProgramInv, StillPuts
  <1>6. CASE block # "leave"
    <2>1. /\ \/ block' = "tail" /\ todo' = P.tail /\ tidied' = tidied
             \/ /\ block \in {"tail", "cleanup"} /\ tidied'
                /\ block' = "leave" /\ todo' \in {disconnect, Destructors}
          /\ tidied' \in BOOLEAN
      BY <1>1, <1>2, <1>6 DEF EndOfBlock, Begin, Leave, TypeOK
    <2>2. /\ todo' \in Seq(Command) /\ Walks(todo') /\ Joins(todo', Standing, Standing)
          /\ block' \in {"tail", "cleanup"} => Puts(todo', P.promise)
          /\ block' = "leave" => \A i \in 1 .. Len(todo') : todo'[i].op \in LinkOps
          /\ P.link = "ble" =>
                 /\ \A over \in BOOLEAN : Guarded(todo', over)
                 /\ block' = "leave" => todo' # <<>> /\ Head(todo').op = "exit"
      BY <1>1, <1>2, <2>1, NewBlock
    <2>3. ScriptTyped'
      BY <1>1, <1>2, <2>1, <2>2 DEF TypeOK, ScriptTyped
    <2>4. NothingYet' /\ StopIsNext'
      BY <1>1, <1>4, <2>1, <2>2 DEF NothingYet, StopIsNext
    <2>5. LeftJoins'
      BY <1>1, <1>3, <2>2 DEF LeftJoins, Now
    <2>6. StillPuts'
      BY <1>2, <2>2 DEF StillPuts, Puts
    <2>7. Leaving'
      <3>1. tidied => block \in {"leave", "ended", "aborted"}
        BY DEF ProgramInv, Leaving
      <3> QED BY <1>1, <1>2, <1>5, <1>6, <2>1, <2>2, <3>1 DEF Leaving
    <2>8. ExitFirst'
      BY <1>1, <1>2, <2>1, <2>2 DEF ProgramInv, ExitFirst
    <2> QED BY <2>3, <2>4, <2>5, <2>6, <2>7, <2>8 DEF ProgramInv
  <1>7. CASE block = "leave"
    <2>1. block' = "ended" /\ todo' = todo /\ tidied' = tidied
      BY <1>7 DEF EndOfBlock
    <2>2. ScriptTyped' /\ NothingYet' /\ LeftJoins'
      BY <1>1, <2>1 DEF ProgramInv, ScriptTyped, TypeOK, NothingYet, LeftJoins
    <2>3. StopIsNext' /\ StillPuts'
      BY <1>1, <1>4, <2>1 DEF ProgramInv, StopIsNext, StillPuts
    <2>4. Leaving'
      BY <1>1, <1>2, <1>7, <2>1 DEF ProgramInv, Leaving
    <2>5. ExitFirst'
      BY <1>1, <1>2, <1>7, <2>1 DEF ProgramInv, ExitFirst
    <2> QED BY <2>2, <2>3, <2>4, <2>5 DEF ProgramInv
  <1> QED BY <1>6, <1>7

\* The program finds its robot, or leaves.
LEMMA SetupStep ==
    ASSUME ProgramInv, block = "setup", name' = name, positive' = positive,
           tidied' = tidied, disturbed' = disturbed, feet' = feet, height' = height,
           fails' = fails \/ Failing,
           link' \in {link, "up", "closed"}, entering' \in BOOLEAN, session' \in BOOLEAN,
           edu' \in BOOLEAN, exited' = exited,
           \/ block' = "body" /\ todo' = P.body
           \/ block' = "leave" /\ todo' \in {disconnect, Destructors},
           P.link = "ble" => ~entering' /\ (session' => link' = "up")
    PROVE  ProgramInv'
  <1>1. TypeOK /\ fails \in Nat /\ P' = P
    BY DEF ProgramInv, ScriptTyped, TypeOK, P
  <1>2. ~tidied /\ disturbed = {} /\ Now = Standing
    BY DEF ProgramInv, NothingYet, Now, Standing
  <1>3. /\ todo' \in Seq(Command) /\ Walks(todo') /\ Joins(todo', Standing, Standing)
        /\ block' = "leave" => \A i \in 1 .. Len(todo') : todo'[i].op \in LinkOps
        /\ P.link = "ble" =>
               /\ \A over \in BOOLEAN : Guarded(todo', over)
               /\ block' = "leave" => todo' # <<>> /\ Head(todo').op = "exit"
    BY <1>1, NewBlock
  <1>4. fails' \in 0 .. MaxFails
    BY <1>1, FailsAssumption DEF Failing, TypeOK
  <1>5. block' \in {"body", "leave"}
    OBVIOUS
  <1>6. ScriptTyped'
    BY <1>1, <1>3, <1>4, <1>5 DEF TypeOK, ScriptTyped
  <1>7. NothingYet' /\ StopIsNext' /\ StillPuts'
    BY <1>2, <1>3, <1>5 DEF NothingYet, StopIsNext, StillPuts
  <1>8. LeftJoins'
    BY <1>2, <1>3 DEF LeftJoins, Now
  <1>9. Leaving'
    BY <1>2, <1>3, <1>5 DEF Leaving
  <1>10. ExitFirst'
    BY <1>1, <1>3, <1>5 DEF ProgramInv, ExitFirst
  <1> QED BY <1>6, <1>7, <1>8, <1>9, <1>10 DEF ProgramInv

\* The program cannot connect, and no catch takes the exception.
LEMMA SetupUncaught ==
    ASSUME ProgramInv, block = "setup", name' = name, positive' = positive,
           tidied' = tidied, disturbed' = disturbed, feet' = feet, height' = height,
           Failing, Uncaught, link' \in {"up", "closed"}, entering' = entering,
           session' \in BOOLEAN, edu' \in BOOLEAN, exited' = exited,
           session' => link' = "up"
    PROVE  ProgramInv'
  <1>1. TypeOK /\ P' = P /\ block' = "aborted" /\ todo' = todo
    BY DEF ProgramInv, ScriptTyped, P, Uncaught
  <1>2. fails' # 0 /\ fails' \in 0 .. MaxFails
    BY <1>1, FailsAssumption DEF Failing, TypeOK
  <1>3. todo = <<>> /\ ~tidied /\ disturbed = {}
    BY DEF ProgramInv, NothingYet
  <1>4. ScriptTyped'
    BY <1>1, <1>2 DEF ProgramInv, ScriptTyped, TypeOK
  <1>5. NothingYet' /\ LeftJoins' /\ StopIsNext'
    BY <1>1, <1>2, <1>3 DEF ProgramInv, NothingYet, LeftJoins, StopIsNext
  <1>6. StillPuts' /\ Leaving'
    BY <1>1, <1>3 DEF StillPuts, Leaving
  <1>7. ExitFirst'
    BY <1>1, <1>3 DEF ProgramInv, ExitFirst, Guarded
  <1> QED BY <1>4, <1>5, <1>6, <1>7 DEF ProgramInv

LEMMA ConnectBleKeeps ==
    ASSUME ProgramInv, ConnectBle
    PROVE  ProgramInv'
  <1>1. /\ block = "setup" /\ P.link = "ble"
        /\ name' = name /\ positive' = positive /\ tidied' = tidied
        /\ entering' = entering /\ exited' = exited
        /\ disturbed' = disturbed /\ feet' = feet /\ height' = height
    BY DEF ConnectBle, own, robot
  <1>2. /\ TypeOK /\ P.auto \in BOOLEAN /\ ~session /\ ~entering
        /\ entering' \in BOOLEAN
    BY <1>1, ProgramIsSound DEF ProgramInv, ScriptTyped, NothingYet, ExitFirst, Sound, TypeOK
  <1>3. CASE /\ link' = "up" /\ session' = P.auto /\ edu' = P.auto
             /\ Begin("body") /\ UNCHANGED fails
    <2>1. block' = "body" /\ todo' = P.body
      BY <1>3 DEF Begin
    <2> QED BY <1>1, <1>2, <1>3, <2>1, SetupStep
  <1>4. ASSUME Failing, link' \in {"up", "closed"}, session' \in BOOLEAN, edu' \in BOOLEAN,
               session' => link' = "up", Leave(disconnect) \/ Uncaught
        PROVE  ProgramInv'
    <2>1. CASE Leave(disconnect)
      <3>1. block' = "leave" /\ todo' = disconnect
        BY <2>1 DEF Leave
      <3> QED BY <1>1, <1>2, <1>4, <3>1, SetupStep
    <2>2. CASE Uncaught
      BY <1>1, <1>2, <1>4, <2>2, SetupUncaught
    <2> QED BY <1>4, <2>1, <2>2
  <1>5. CASE /\ Failing /\ link' = "closed" /\ UNCHANGED << session, edu >>
             /\ Leave(disconnect) \/ Uncaught
    <2>1. edu' \in BOOLEAN /\ session' \in BOOLEAN /\ ~session'
      BY <1>2, <1>5 DEF TypeOK
    <2> QED BY <1>4, <1>5, <2>1
  <1>6. CASE /\ Failing /\ P.auto
             /\ link' = "up" /\ session' = TRUE /\ edu' \in BOOLEAN
             /\ Leave(disconnect) \/ Uncaught
    BY <1>4, <1>6
  <1> QED BY <1>3, <1>5, <1>6 DEF ConnectBle

LEMMA WaitRobotKeeps ==
    ASSUME ProgramInv, WaitRobot
    PROVE  ProgramInv'
  <1>1. /\ block = "setup" /\ P.link = "ws"
        /\ name' = name /\ positive' = positive /\ tidied' = tidied
        /\ session' = session /\ edu' = edu /\ exited' = exited
        /\ disturbed' = disturbed /\ feet' = feet /\ height' = height
    BY DEF WaitRobot, own, robot
  <1>2. /\ TypeOK /\ P.auto \in BOOLEAN /\ P.link # "ble"
        /\ session' \in BOOLEAN /\ edu' \in BOOLEAN
    BY <1>1, ProgramIsSound DEF ProgramInv, ScriptTyped, Sound, TypeOK
  <1>3. CASE link' = "up" /\ entering' = P.auto /\ Begin("body") /\ UNCHANGED fails
    <2>1. block' = "body" /\ todo' = P.body
      BY <1>3 DEF Begin
    <2> QED BY <1>1, <1>2, <1>3, <2>1, SetupStep
  <1>4. CASE Failing /\ Leave(Destructors) /\ UNCHANGED << link, entering >>
    <2>1. block' = "leave" /\ todo' = Destructors
      BY <1>4 DEF Leave
    <2>2. entering' \in BOOLEAN
      BY <1>2, <1>4 DEF TypeOK
    <2> QED BY <1>1, <1>2, <1>4, <2>1, <2>2, SetupStep
  <1> QED BY <1>3, <1>4 DEF WaitRobot

LEMMA RefuseKeeps ==
    ASSUME ProgramInv, Refuse
    PROVE  ProgramInv'
  <1>1. /\ block = "setup" /\ block' = "ended"
        /\ name' = name /\ positive' = positive /\ todo' = todo
        /\ tidied' = tidied /\ fails' = fails /\ link' = link /\ entering' = entering
        /\ session' = session /\ edu' = edu /\ exited' = exited
        /\ disturbed' = disturbed /\ feet' = feet /\ height' = height
    BY DEF Refuse, own, eduVars, robot
  <1>2. P' = P /\ ~tidied /\ disturbed = {}
    BY <1>1 DEF P, ProgramInv, NothingYet
  <1>3. ScriptTyped' /\ NothingYet' /\ LeftJoins'
    BY <1>1 DEF ProgramInv, ScriptTyped, TypeOK, NothingYet, LeftJoins
  <1>4. StopIsNext' /\ StillPuts' /\ Leaving'
    BY <1>1, <1>2 DEF ProgramInv, StopIsNext, StillPuts, Leaving
  <1>5. ExitFirst'
    BY <1>1, <1>2 DEF ProgramInv, ExitFirst
  <1> QED BY <1>3, <1>4, <1>5 DEF ProgramInv

\* The detached thread of a host: no BLE program has one.
LEMMA EnterDetachedKeeps ==
    ASSUME ProgramInv, EnterDetached
    PROVE  ProgramInv'
  <1>1. /\ entering /\ entering' = FALSE /\ session' = TRUE
        /\ name' = name /\ positive' = positive /\ todo' = todo
        /\ tidied' = tidied /\ link' = link /\ exited' = exited
        /\ disturbed' = disturbed /\ feet' = feet /\ height' = height
    BY DEF EnterDetached, own, robot
  <1>2. P' = P /\ P.link # "ble" /\ TypeOK
    BY <1>1 DEF P, ProgramInv, ExitFirst, ScriptTyped
  <1>3. ExitFirst'
    BY <1>2 DEF ExitFirst
  <1>4. block # "setup"
    BY <1>1 DEF ProgramInv, NothingYet
  <1>5. CASE edu' = TRUE /\ UNCHANGED << block, fails >>
    <2>1. ScriptTyped' /\ NothingYet' /\ LeftJoins'
      BY <1>1, <1>4, <1>5 DEF ProgramInv, ScriptTyped, TypeOK, NothingYet, LeftJoins
    <2>2. StopIsNext'
      BY <1>1, <1>5 DEF ProgramInv, StopIsNext, Running
    <2>3. StillPuts' /\ Leaving'
      BY <1>1, <1>2, <1>5 DEF ProgramInv, StillPuts, Leaving
    <2> QED BY <1>3, <2>1, <2>2, <2>3 DEF ProgramInv
  <1>6. CASE Failing /\ block' = "aborted" /\ edu' \in {edu, link = "up"}
    <2>1. fails' # 0 /\ fails' \in 0 .. MaxFails /\ edu' \in BOOLEAN
      <3>1. fails \in Nat /\ fails' = fails + 1 /\ fails < MaxFails
        BY <1>2, <1>6 DEF Failing, TypeOK
      <3>2. edu' \in BOOLEAN
        BY <1>2, <1>6 DEF TypeOK
      <3> QED BY <3>1, <3>2, FailsAssumption
    <2>2. ScriptTyped' /\ NothingYet' /\ LeftJoins'
      BY <1>1, <1>6, <2>1 DEF ProgramInv, ScriptTyped, TypeOK, NothingYet, LeftJoins
    <2>3. StopIsNext' /\ StillPuts' /\ Leaving'
      BY <1>1, <1>2, <1>6, <2>1 DEF ProgramInv, StopIsNext, StillPuts, Leaving
    <2> QED BY <1>3, <2>2, <2>3 DEF ProgramInv
  <1> QED BY <1>5, <1>6 DEF EnterDetached

LEMMA ProgramInvInit == ProgramInit => ProgramInv
  <1> SUFFICES ASSUME ProgramInit PROVE ProgramInv
    OBVIOUS
  <1>1. /\ name \in ProgramNames /\ positive \in BOOLEAN
        /\ block = "setup" /\ todo = <<>>
        /\ tidied = FALSE /\ fails = 0 /\ link = "closed"
        /\ entering = FALSE /\ session = FALSE /\ edu = FALSE /\ exited = "none"
        /\ disturbed = {} /\ feet = Level /\ height = StandingHeight
    BY DEF ProgramInit
  <1>2. Level \in [FootOrder -> Int] /\ StandingHeight \in Int
    BY DEF Level, StandingHeight
  <1>3. ScriptTyped /\ NothingYet
    <2>1. fails \in 0 .. MaxFails /\ disturbed \subseteq Aspects
      BY <1>1, FailsAssumption
    <2>2. feet \in [FootOrder -> Int] /\ height \in Int
      BY <1>1, <1>2
    <2>3. TypeOK
      BY <1>1, <2>1, <2>2 DEF TypeOK
    <2>4. todo \in Seq(Command)
      BY <1>1
    <2> QED BY <1>1, <2>3, <2>4 DEF ScriptTyped, NothingYet
  <1>4. LeftJoins
    <2>1. Joins(<<>>, Standing, Standing)
      BY JoinsShort, StandingStance
    <2> QED BY <1>1, <2>1 DEF LeftJoins, Standing
  <1>5. StopIsNext /\ StillPuts /\ Leaving
    BY <1>1 DEF StopIsNext, StillPuts, Leaving, Walks
  <1>6. ExitFirst
    BY <1>1 DEF ExitFirst, Guarded
  <1> QED BY <1>3, <1>4, <1>5, <1>6 DEF ProgramInv

LEMMA ProgramInvNext == ProgramInv /\ [ProgramNext]_vars => ProgramInv'
  <1> SUFFICES ASSUME ProgramInv, [ProgramNext]_vars PROVE ProgramInv'
    OBVIOUS
  <1>1. CASE Refuse
    BY <1>1, RefuseKeeps
  <1>2. CASE ConnectBle
    BY <1>2, ConnectBleKeeps
  <1>3. CASE WaitRobot
    BY <1>3, WaitRobotKeeps
  <1>4. CASE EnterDetached
    BY <1>4, EnterDetachedKeeps
  <1>5. CASE Send
    BY <1>5, SendKeeps
  <1>6. CASE SendFails
    BY <1>6, SendFailsKeeps
  <1>7. CASE ActionOver
    BY <1>7, ActionOverKeeps
  <1>8. CASE CheckDuration
    BY <1>8, CheckDurationKeeps
  <1>9. CASE ExitEdu
    BY <1>9, ExitEduKeeps
  <1>10. CASE Unlink
    BY <1>10, UnlinkKeeps
  <1>11. CASE DestroyHost
    BY <1>11, DestroyHostKeeps
  <1>12. CASE EndOfBlock
    BY <1>12, EndOfBlockKeeps
  <1>13. CASE UNCHANGED vars
    <2>1. /\ name' = name /\ positive' = positive /\ block' = block /\ todo' = todo
          /\ tidied' = tidied /\ fails' = fails /\ link' = link /\ entering' = entering
          /\ session' = session /\ edu' = edu /\ exited' = exited
          /\ disturbed' = disturbed /\ feet' = feet /\ height' = height
      BY <1>13 DEF vars
    <2>2. P' = P
      BY <2>1 DEF P
    <2>3. ScriptTyped' /\ NothingYet' /\ LeftJoins'
      BY <2>1 DEF ProgramInv, ScriptTyped, TypeOK, NothingYet, LeftJoins
    <2>4. StopIsNext'
      BY <2>1 DEF ProgramInv, StopIsNext, Running
    <2>5. StillPuts' /\ Leaving' /\ ExitFirst'
      BY <2>1, <2>2 DEF ProgramInv, StillPuts, Leaving, ExitFirst
    <2> QED BY <2>3, <2>4, <2>5 DEF ProgramInv
  <1> QED BY <1>1, <1>2, <1>3, <1>4, <1>5, <1>6, <1>7, <1>8, <1>9, <1>10, <1>11, <1>12, <1>13
          DEF ProgramNext

\* ProgramInv holds in every state of every set of example programs.
THEOREM ProgramInvariant == ProgramSpec => []ProgramInv
  BY ProgramInvInit, ProgramInvNext, PTL DEF ProgramSpec

\* Whichever programs of the catalogue run, and however many of their messages fail,
\* taken by the robot or not: one whose orderly end or whose catch block ran through
\* has put right all that its header comment promises.
THEOREM PromisesKept == ProgramSpec => []TidiedKeepsPromise
  <1>1. ProgramInv => TidiedKeepsPromise
    BY DEF ProgramInv, Leaving, TidiedKeepsPromise
  <1> QED BY <1>1, ProgramInvariant, PTL

\* As long as nothing failed and the duration is one that send_movement accepts, the
\* robot walks only between the start and the stop of send_movement.
THEOREM WalksStayInside == ProgramSpec => []WalksInsideMovement
  <1>1. ProgramInv => WalksInsideMovement
    BY DEF ProgramInv, StopIsNext, WalksInsideMovement
  <1> QED BY <1>1, ProgramInvariant, PTL

\* As long as nothing failed, each pose adjustment starts at the height the one before
\* it left, and basic mode is asked for with the robot standing as it was found.
THEOREM StepsJoin == ProgramSpec => []AdjustmentsJoin
  <1>1. ProgramInv => AdjustmentsJoin
    <2> SUFFICES ASSUME ProgramInv, Running, fails = 0
                 PROVE  /\ Head(todo).op = "pose" => height = Head(todo).from
                        /\ Head(todo).op = "basic" => feet = Level /\ height = StandingHeight
      BY DEF AdjustmentsJoin
    <2>1. todo \in Seq(Command) /\ todo # <<>> /\ Joins(todo, Now, Standing)
      BY DEF ProgramInv, ScriptTyped, LeftJoins, Running, Now
    <2>2. Fits(Head(todo), Now)
      BY <2>1, JoinsTail
    <2> QED BY <2>2 DEF Fits, Now, Standing
  <1> QED BY <1>1, ProgramInvariant, PTL

\* On every path out of the main of a BLE program that runs its destructors, whatever
\* failed, the exit of its session was tried before its link was closed.
THEOREM BleExits == ProgramSpec => []BleExitIsSent
  <1>1. ProgramInv => BleExitIsSent
    BY DEF ProgramInv, ExitFirst, BleExitIsSent
  <1> QED BY <1>1, ProgramInvariant, PTL
=============================================================================
