------------------------------- MODULE BleLink -------------------------------
(***************************************************************************)
(* The BLE transport under AiDog: BleTransportWin::Impl's connect,         *)
(* connect_once, subscribe_notify, disconnect and write_raw                *)
(* (src/src/ble_transport_win.cpp) as AiDog::connect and AiDog::disconnect *)
(* call them (src/src/aidog.cpp), beside the EDU heartbeat and the exit    *)
(* message, which write through the same characteristics.  Only disconnect *)
(* takes the mutex.                                                        *)
(*                                                                         *)
(* Abstracted: the EDU session to whether it is on and where its heartbeat *)
(* thread is (EduSession has the detail); a GATT object to the number of   *)
(* the discovery it comes from; ae01 and ae10 are left out, they are set   *)
(* and cleared like ae03 and nothing requires them.  External: every GATT  *)
(* call may fail; C++/WinRT's removal of a handler does not.               *)
(***************************************************************************)
EXTENDS Naturals

CONSTANTS
    Callers,      \* the threads that call AiDog::connect and disconnect
    Retries,      \* ConnectOptions::retries
    NoObject,     \* nullptr
    MaxCalls      \* bound: calls in one behaviour

ASSUME LinkAssumption ==
    /\ Retries \in Nat /\ MaxCalls \in Nat
    /\ NoObject \notin Nat /\ NoObject \notin Callers

Notifying == {"notify", "sensor"}              \* ae02 and ae04
Chars == Notifying \cup {"write"}              \* ae03

\* connect tries max(1, retries) times.
Attempts == IF Retries > 1 THEN Retries ELSE 1

VARIABLES
    owner,        \* the thread that holds the mutex, or NoObject
    device,       \* device: is there one
    field,        \* configChar, notifyChar, ...: the object in each field
    token,        \* notifyToken, sensorNotifyToken
    connected,
    handlers,     \* external: the live handlers, <<characteristic, object>>
    pc,           \* where each caller is
    op,           \* "connect" or "disconnect"
    attempt,      \* local "i" of connect
    session,      \* eduMaybeActive_, over BLE
    hb,           \* the heartbeat thread: none, waiting, or with a copy in write_raw
    hbChar,       \* its copy "ch"
    exitChar,     \* the copy "ch" of each caller's exit message
    opens,        \* discoveries so far
    calls,        \* bound: calls so far
    reconnected,  \* history: connect was called while a heartbeat thread lived
    overlapped,   \* history: a connect and another call were under way at once
    doubled,      \* history: an exit began while another one was under way
    raced,        \* history: a field was copied while it was assigned
    stale         \* history: a write went to an object that is in no field

linkVars == <<owner, device, field, token, connected, handlers>>
callVars == <<pc, op, attempt>>
hbVars == <<session, hb, hbChar, exitChar>>
pastVars == <<reconnected, overlapped, doubled, raced, stale>>
vars == <<linkVars, callVars, hbVars, opens, calls, pastVars>>

Objects == Nat \cup {NoObject}
LinkPc == {"idle", "exit", "join", "send", "sent", "lock", "revoke", "clear", "open", "discover",
           "ae02", "ae02_cccd", "ae04", "ae04_cccd", "connected", "enter"}

Init ==
    /\ owner = NoObject
    /\ device = FALSE
    /\ field = [c \in Chars |-> NoObject]
    /\ token = [c \in Notifying |-> NoObject]
    /\ connected = FALSE
    /\ handlers = {}
    /\ pc = [t \in Callers |-> "idle"]
    /\ op = [t \in Callers |-> "disconnect"]
    /\ attempt = [t \in Callers |-> 0]
    /\ session = FALSE
    /\ hb = "none"
    /\ hbChar = NoObject
    /\ exitChar = [t \in Callers |-> NoObject]
    /\ opens = 0
    /\ calls = 0
    /\ reconnected = FALSE /\ overlapped = FALSE /\ doubled = FALSE
    /\ raced = FALSE /\ stale = FALSE

Goto(t, l) == pc' = [pc EXCEPT ![t] = l]

\* A call starts: is a connect under way beside another call?
Overlaps(t, o) ==
    \E u \in Callers : pc[u] # "idle" /\ (o = "connect" \/ op[u] = "connect")

-----------------------------------------------------------------------------
(* AiDog's calls.                                                          *)

\* AiDog::connect goes to the transport at once; a session of an earlier
\* connection stays on.
CallConnect(t) ==
    /\ pc[t] = "idle" /\ calls < MaxCalls
    /\ calls' = calls + 1
    /\ op' = [op EXCEPT ![t] = "connect"]
    /\ attempt' = [attempt EXCEPT ![t] = 1]
    /\ reconnected' = (reconnected \/ hb # "none")
    /\ overlapped' = (overlapped \/ Overlaps(t, "connect"))
    /\ Goto(t, "lock")
    /\ UNCHANGED <<linkVars, hbVars, opens, doubled, raced, stale>>

\* AiDog::disconnect and shutdown leave EDU mode first.
CallDisconnect(t) ==
    /\ pc[t] = "idle" /\ calls < MaxCalls
    /\ calls' = calls + 1
    /\ op' = [op EXCEPT ![t] = "disconnect"]
    /\ overlapped' = (overlapped \/ Overlaps(t, "disconnect"))
    /\ Goto(t, "exit")
    /\ UNCHANGED <<linkVars, attempt, hbVars, opens, reconnected, doubled, raced, stale>>

\* exit_edu_mode: the thread that finds the session on joins the heartbeat, if
\* there is one, and sends the exit message; another one returns at once.
Exit(t) ==
    /\ pc[t] = "exit"
    /\ session' = FALSE
    /\ doubled' = (doubled \/ \E u \in Callers : pc[u] \in {"join", "send", "sent"})
    /\ Goto(t, IF session THEN "join" ELSE "lock")
    /\ UNCHANGED <<linkVars, op, attempt, hb, hbChar, exitChar, opens, calls,
                   reconnected, overlapped, raced, stale>>

\* Mutant: the heartbeat is detached, not joined.
JoinDetached(t) ==
    /\ pc[t] = "join"
    /\ Goto(t, "send")
    /\ UNCHANGED <<linkVars, op, attempt, hbVars, opens, calls, pastVars>>

\* The heartbeat ends between two writes, and the join with it.
Join(t) ==
    /\ pc[t] = "join"
    /\ hb # "writing"
    /\ hb' = "none"
    /\ Goto(t, "send")
    /\ UNCHANGED <<linkVars, op, attempt, session, hbChar, exitChar, opens, calls, pastVars>>

\* Some thread is assigning the fields.
Assigning == \E t \in Callers : pc[t] \in {"clear", "discover"}

\* send_control_json copies writeChar without the mutex.  While it is assigned
\* the copy is undefined: the old object, the new one or neither.
Copied == IF Assigning THEN {field["write"], NoObject} ELSE {field["write"]}

\* write_raw tests the copy, and connected, and writes to it: a dead one if it
\* is in the field no more.
Dead(ch) == connected /\ ch # NoObject /\ ch # field["write"]

\* The exit message; its exceptions are dropped.
SendExit(t) ==
    /\ pc[t] = "send"
    /\ \E ch \in Copied : exitChar' = [exitChar EXCEPT ![t] = ch]
    /\ raced' = (raced \/ Assigning)
    /\ Goto(t, "sent")
    /\ UNCHANGED <<linkVars, op, attempt, session, hb, hbChar, opens, calls, reconnected,
                   overlapped, doubled, stale>>

WriteExit(t) ==
    /\ pc[t] = "sent"
    /\ stale' = (stale \/ Dead(exitChar[t]))
    /\ Goto(t, "lock")
    /\ UNCHANGED <<linkVars, op, attempt, hbVars, opens, calls, reconnected, overlapped,
                   doubled, raced>>

-----------------------------------------------------------------------------
(* disconnect, and the first line of connect_once.                         *)

Lock(t) ==
    /\ pc[t] = "lock"
    /\ owner = NoObject
    /\ owner' = t
    /\ Goto(t, "revoke")
    /\ UNCHANGED <<device, field, token, connected, handlers, op, attempt, hbVars, opens,
                   calls, pastVars>>

\* Mutant: only the handler of ae02 is removed.
RevokeFirst(t) ==
    /\ pc[t] = "revoke"
    /\ handlers' = handlers \ {<<"notify", field["notify"]>>}
    /\ Goto(t, "clear")
    /\ UNCHANGED <<owner, device, field, token, connected, op, attempt, hbVars,
                   opens, calls, pastVars>>

\* Each field that is set gives up the handler its token names.  A token is
\* never reset: on another object it removes nothing.
Revoke(t) ==
    /\ pc[t] = "revoke"
    /\ handlers' = handlers \ {<<c, field[c]>> : c \in {d \in Notifying : token[d] = field[d]}}
    /\ Goto(t, "clear")
    /\ UNCHANGED <<owner, device, field, token, connected, op, attempt, hbVars,
                   opens, calls, pastVars>>

\* The fields are cleared and the mutex is released; connect_once goes on.
Clear(t) ==
    /\ pc[t] = "clear"
    /\ owner' = NoObject
    /\ device' = FALSE
    /\ field' = [c \in Chars |-> NoObject]
    /\ connected' = FALSE
    /\ Goto(t, IF op[t] = "connect" THEN "open" ELSE "idle")
    /\ UNCHANGED <<token, handlers, op, attempt, hbVars, opens, calls, pastVars>>

-----------------------------------------------------------------------------
(* The rest of connect_once; connect retries what throws.                  *)

\* An exception: the next attempt, or the caller gets it.  Nothing is undone.
Fail(t) ==
    /\ attempt' = [attempt EXCEPT ![t] = @ + 1]
    /\ Goto(t, IF attempt[t] < Attempts THEN "lock" ELSE "idle")

\* The device is opened, or its address or the opening fails.
Open(t) ==
    /\ pc[t] = "open"
    /\ \/ device' = TRUE /\ Goto(t, "discover") /\ UNCHANGED attempt
       \/ Fail(t) /\ UNCHANGED device
    /\ UNCHANGED <<owner, field, token, connected, handlers, op, hbVars, opens,
                   calls, pastVars>>

\* Mutant: nobody asks whether ae03 was found.
DiscoverAny(t) ==
    /\ pc[t] = "discover"
    /\ device
    /\ opens' = opens + 1
    /\ \E found \in SUBSET Chars :
         field' = [c \in Chars |-> IF c \in found THEN opens + 1 ELSE field[c]]
    /\ Goto(t, "ae02")
    /\ UNCHANGED <<owner, device, token, connected, handlers, op, attempt, hbVars, calls,
                   pastVars>>

\* The discovery sets the fields of the characteristics it finds: a service that
\* cannot be read is skipped, and an exception may end the search with some of
\* the fields set.  ae03 is required, after the fields are set.  (A device that
\* another thread has cleared ends the process: nothing follows.)
Discover(t) ==
    /\ pc[t] = "discover"
    /\ device
    /\ opens' = opens + 1
    /\ \E found \in SUBSET Chars :
         /\ field' = [c \in Chars |-> IF c \in found THEN opens + 1 ELSE field[c]]
         /\ \/ field'["write"] # NoObject /\ Goto(t, "ae02") /\ UNCHANGED attempt
            \/ Fail(t)
    /\ UNCHANGED <<owner, device, token, connected, handlers, op, hbVars, calls, pastVars>>

\* subscribe_notify: the handler is registered before the robot is asked to
\* notify.  A characteristic that was not found is skipped.
Subscribe(t, c, here, cccd, next) ==
    /\ pc[t] = here
    /\ IF field[c] = NoObject
       THEN Goto(t, next) /\ UNCHANGED <<token, handlers>>
       ELSE /\ token' = [token EXCEPT ![c] = field[c]]
            /\ handlers' = handlers \cup {<<c, field[c]>>}
            /\ Goto(t, cccd)
    /\ UNCHANGED <<owner, device, field, connected, op, attempt, hbVars, opens,
                   calls, pastVars>>

\* The write of the descriptor may throw, with the handler registered; a
\* refusal of both Notify and Indicate goes unnoticed.
Cccd(t, here, next) ==
    /\ pc[t] = here
    /\ \/ Goto(t, next) /\ UNCHANGED attempt
       \/ Fail(t)
    /\ UNCHANGED <<linkVars, op, hbVars, opens, calls, pastVars>>

SetConnected(t) ==
    /\ pc[t] = "connected"
    /\ connected' = TRUE
    /\ Goto(t, "enter")
    /\ UNCHANGED <<owner, device, field, token, handlers, op, attempt, hbVars, opens,
                   calls, pastVars>>

\* AiDog::connect enters EDU mode: the heartbeat of an earlier session is
\* joined, and the enter may throw; eduMaybeActive_ is set before it, so that the
\* next exit sends its message either way.  (The caller that writes here is the
\* one that set the fields.)
Enter(t) ==
    /\ pc[t] = "enter"
    /\ hb = "none" \/ (session /\ hb = "waiting")
    /\ session' = TRUE
    /\ hb' \in {"none", "waiting"}
    /\ Goto(t, "idle")
    /\ UNCHANGED <<linkVars, op, attempt, hbChar, exitChar, opens, calls, pastVars>>

-----------------------------------------------------------------------------
(* The heartbeat thread: send_control_json and write_raw.                  *)

HbCopy ==
    /\ hb = "waiting"
    /\ hbChar' \in Copied
    /\ raced' = (raced \/ Assigning)
    /\ hb' = "writing"
    /\ UNCHANGED <<linkVars, callVars, session, exitChar, opens, calls, reconnected,
                   overlapped, doubled, stale>>

\* A failed heartbeat is dropped too.
HbWrite ==
    /\ hb = "writing"
    /\ stale' = (stale \/ Dead(hbChar))
    /\ hb' = "waiting"
    /\ UNCHANGED <<linkVars, callVars, session, hbChar, exitChar, opens, calls, reconnected,
                   overlapped, doubled, raced>>

Next ==
    \/ \E t \in Callers :
         \/ CallConnect(t) \/ CallDisconnect(t) \/ Exit(t) \/ Join(t)
         \/ SendExit(t) \/ WriteExit(t)
         \/ Lock(t) \/ Revoke(t) \/ Clear(t)
         \/ Open(t) \/ Discover(t)
         \/ Subscribe(t, "notify", "ae02", "ae02_cccd", "ae04") \/ Cccd(t, "ae02_cccd", "ae04")
         \/ Subscribe(t, "sensor", "ae04", "ae04_cccd", "connected") \/ Cccd(t, "ae04_cccd", "connected")
         \/ SetConnected(t) \/ Enter(t)
    \/ HbCopy \/ HbWrite

Spec == Init /\ [][Next]_vars

-----------------------------------------------------------------------------
(* Properties                                                              *)

\* Every variable holds a value of its kind, and the mutex belongs to the
\* thread that revokes and clears.
TypeOK ==
    /\ owner \in Callers \cup {NoObject}
    /\ \A t \in Callers : (pc[t] \in {"revoke", "clear"}) <=> (owner = t)
    /\ device \in BOOLEAN
    /\ field \in [Chars -> Objects]
    /\ token \in [Notifying -> Objects]
    /\ connected \in BOOLEAN
    /\ handlers \subseteq Notifying \X Nat
    /\ pc \in [Callers -> LinkPc]
    /\ op \in [Callers -> {"connect", "disconnect"}]
    /\ attempt \in [Callers -> Nat]
    /\ session \in BOOLEAN
    /\ hb \in {"none", "waiting", "writing"}
    /\ hbChar \in Objects /\ exitChar \in [Callers -> Objects]
    /\ opens \in Nat /\ calls \in Nat
    /\ reconnected \in BOOLEAN /\ overlapped \in BOOLEAN /\ doubled \in BOOLEAN
    /\ raced \in BOOLEAN /\ stale \in BOOLEAN

\* Unless a connect and another call overlap, the fields name every live
\* handler, so the next disconnect removes them all: whatever failed in the
\* connects before, no notification is ever dispatched twice, and none after a
\* disconnect.
HandlersAreKnown ==
    ~overlapped =>
        \A h \in handlers : field[h[1]] = h[2] /\ token[h[1]] = h[2]

\* Unless calls overlap, is_connected means a link that one discovery set up
\* whole: it has ae03, and a handler on each notifying characteristic found.
ConnectedIsWhole ==
    ~overlapped /\ connected /\ owner = NoObject =>
        /\ field["write"] # NoObject
        /\ \A c \in Notifying : field[c] # NoObject => <<c, field[c]>> \in handlers
        /\ \A c \in Chars : field[c] \in {opens, NoObject}

\* The heartbeat or an exit message copies a characteristic while it is
\* assigned, or writes to a dead one, only after one of three misuses: connect
\* without disconnect before it, a connect beside another call, or a second
\* disconnect while the first still joins the heartbeat or sends the exit.
RaceIsMisuse == raced \/ stale => reconnected \/ overlapped \/ doubled
=============================================================================
