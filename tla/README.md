# A TLA+ model of the Gogobot EDU SDK (C++)

This directory models the SDK in `src/src`, its control panel in `src/tools` and
its example programs: TLA+ modules, TLC configurations that check them on
small instances, and TLAPS proofs of what matters most for every instance.
`PROJECT.json` relates every definition to the lines it translates, every
property to a mutant of the code that breaks it, and lists the hazards.

## 1. Inventory: the system and its parts

The SDK lets a PC control a robot dog over two links, BLE and a WebSocket that
the robot opens to the PC. `AiDog` is the front; it owns a `BleTransportWin` and
is given a `WebSocketHost`. The threads are:

- the user's threads (an example's `main`, the worker of the control panel);
- the heartbeat thread of the current EDU session (`eduThread_`);
- the io thread of `WebSocketHost`, which runs its handlers;
- a detached thread per connect and per disconnect of the robot, which calls
  `AiDog::on_ws_robot_connected` and `on_ws_robot_disconnected`;
- the BLE stack's thread, which delivers notifications;
- in the audio example, the playback worker and the driver's callbacks.

| Part | State | Operations | What makes it correct |
|---|---|---|---|
| EDU session, `aidog.cpp` 333-371, 440-452, 494-546 | `eduMutex_`, `eduThread_`, `eduStop_`, `eduSessionSeq_`, `eduTransport_`, `eduLeaseMs_`, `eduMaybeActive_`, `shutdownDone_` | enter, exit, shutdown, robot connected and gone, heartbeat loop | no `std::terminate`; each heartbeat thread joined once; no heartbeat after an exit; no session forgotten; every call returns |
| WebSocket commands, `aidog.cpp` 468-525, `websocket_host.cpp` 142-156, 278-348 | `wsControlSeq_`, `acks`, `active` | send, wait for the acknowledgement, file one | a call is answered by the acknowledgement of its own command; the map does not fill up |
| Action completion, `aidog.cpp` 103-158, 417-428, 548-584 | `lastInteractionTaskStatus_`, `interactionStatusNotifySeq_`, the locals of `perform_action` | `perform_action`, `wait_interaction_ready`, dispatch of a status | true only when this action is over; every call returns |
| Connection life of the host, `websocket_host.cpp` 40-140, 210-276 | `thread`, `active`, `connected`, `ready`, `stopping`, `startError` | `start`, `stop`, `run`, open, close and fail handlers | no closed handle is used; a start that succeeds listens; stop returns |
| BLE transport, `ble_transport_win.cpp` 134-316 | the device, five characteristics, two tokens, `connected`, the mutex | connect with retries, discovery, subscribe, disconnect, write | one handler per characteristic, all of them known; connected is whole; nobody uses a characteristic while it is replaced |
| Listeners and sensor cache, `aidog.cpp` 373-412, 561-600 | callback lists, `nextCallbackId_`, `lastImu_`, `lastTof_` | add, remove, dispatch | a sample goes once to those listed when it was stored |
| Control panel, `tools/user_control_ble_win.cpp` | `activeMovement_`, `connected_`, the ear slider's throttle, the worker's queue and `stop_` | joystick, buttons and slider, connect, disconnect, close, the worker's tasks | the robot does what the panel shows; close drains the queue and ends; every control does what its label says |
| Movement and single-shot controls, `aidog.cpp` 165-330; the examples | the robot's own state | encode and send; scripts of commands | start is followed by stop; a program leaves the robot as it promises; an EDU session is exited |
| Codec, sensor parser, action catalogue | none | pure functions | encodings fit their widths and read back; units are understood; aliases resolve to one id |
| Audio example, `bidirectional_pcm_ws_host.cpp` | playback queue and buffers, capture buffers, flags | write, play, capture, stop | order; no buffer lost; playback goes on; main returns |
| Stubs, WiFi tool, tests | - | throw, or send one message | - |

What is hard in this code: many kinds of threads meet in one object and only
some fields are protected; exceptions report lost messages, also where nobody
catches them; answers are late or lost on both links; the robot reconnects
before the host learned that the old connection died; the status of an action is
a single overwritten variable; and programs tidy up in catch blocks that can fail
in turn.

## 2. The modules

| Module | Models | State | Actions |
|---|---|---|---|
| `EduSession` | the EDU session | the fields of `AiDog` by name; `hb`: the live heartbeat threads by session number and where each is; `pc`, `op`, `arg`, `moved`, `sendExit`: each caller's place and locals | `Call*` start a call; `Exit*` and `Enter*` are the stretches of `exit_edu_mode` and `enter_edu_mode` between two points where another thread can interfere; `Hb*` the steps of the loop; `LeaseExpires` is the robot |
| `HeartbeatContract` | abstract: what the session promises about its heartbeat threads | `current`, `running`, `closed` | `Open`, `Release`, `Stop`, `Close` |
| `AckRouting` | commands and acknowledgements over WebSocket | `wsControlSeq`, `acks`, per-thread `pc`, `loaded`, `id` | `++wsControlSeq_` is a `Load` and a `Store`; `Send`, `TakeAck`, `WaitTimeout`; `HandleAck`, `Disconnect`, `Reconnect` |
| `ActionWait` | waiting for an action | the status, its number, per-caller locals; the robot's queue, task and reports | `WaitIdle`, `Capture`, `Send`, `Sample`, `Deadline`; `Dispatch`; the robot |
| `WsHost` | the host's connection life | its fields; `io` and `pc` the places of the io thread and the caller of start and stop; the connections | `Start*`, `Stop*`, `IoListen`, `Handle*`, `Callback` (the user's `onConnection`, after each handler's critical section), `HandlerThrows`, `DogIsTold` |
| `BleLink` | the BLE transport under `AiDog::connect` and `disconnect`, beside the writes of the heartbeat and of the exit message | `owner` (the mutex), `device`, `field`, `token`, `connected`, `handlers`; each caller's `pc`, `op`, `attempt`; `hb` | `Lock`, `Revoke`, `Clear`, `Open`, `Discover`, the subscriptions, `Join`; `SendExit`/`WriteExit` and `HbCopy`/`HbWrite`: the copy of the characteristic and the write to it |
| `Listeners` | listeners and sensor cache | `last`, `callbacks`, `nextCallbackId`; each dispatcher's `handling` and `toCall` | `AddListener`, `RemoveListener`; `Store` (the critical section), `Call`, `Return` |
| `ControlPanel` | joystick, buttons, ear slider and worker of the BLE panel | `activeMovement`, `connected`, `tasks`, `stop`, `lastEarPercent`, `pendingEarPercent`, `sinceEar`; places of both threads; the connection, the robot's motion and ears | window: `StartMovement`, `TestMovement` and `CompareMovement` (the two reads of the optional), `MoveSlider`, `FlushEarPercent` ... `Close`; worker: `Take`, `Run*`, `Cleanup*` |
| `PcmStream` | the audio example | the queue, worker, buffers and device of the playback; flags and buffers of the capture; the place of `main` | `Write`, the steps of `_run`, `Done`; the driver's callback; `main`'s start and stop |
| `PlaybackContract` | abstract: what the audio example's output promises to the code that writes chunks to it | `last`, `waiting`, `playing`, `phase` | `Arrive`, `Start`, `Finish`, `Stop`, `Close` |
| `Programs` | nineteen example programs | the commands still to do, the block they are in, the robot's disturbed aspects, session and stance | `Send`, `SendFails` (`Throw` to the catch block or the destructors, or `Uncaught`), `ActionOver`, `CheckDuration`, `ExitEdu`, `Unlink`, `DestroyHost`, `EndOfBlock` |
| `Actions`, `Frames`, `SensorText`, `PanelButtons` | the pure functions of `actions.cpp`, `protocol.cpp`, `sensor_parser.cpp` and the panel's tables | - | - |
| `Codec` | these functions as calls | the last call: its argument and its answer | one per function |

`MC<Module>` gives the constants of a module values for TLC, `<Module>_proofs`
holds its theorems (`Streams_proofs` those of `Listeners` and `PcmStream`, `Commands_proofs` those of
`Codec` and `Programs`). The modules meet where one thread calls another part:
`WsHost`'s `DogIsTold` is a `CallEnter` or `CallRobotGone` of a detached thread
in `EduSession` (which lets these calls come at any time and in any order, so it
covers every host); an `EnterSend`, `ExitSend` or `HbSend` over the WebSocket is
a command of `AckRouting`, whose outcomes are the `Outcome`s of `EduSession`, and over
BLE a write of `BleLink`; `AckRouting`'s `Disconnect` and `Reconnect` are the effect of
`WsHost`'s handlers on `active`; `ControlPanel`'s connect and cleanup tasks call
`AiDog::connect` and `disconnect`, which `BleLink` has step by step; the notifications
that `BleLink`'s handlers receive are `Dispatch` in `ActionWait` and `Store` in
`Listeners`; a command of `Programs` is a message of `Frames`.

### How steps were cut

A step ends wherever another thread can see or change what the next one uses: at
every lock and unlock, before every send, join and wait, and between a load and a
store of an unprotected field. A critical section that does not wait is one step;
`enter_edu_mode` holds `eduMutex_` over its send and has a step on each side of it
(`eduMutex` is then taken). Sends are one step because both links keep the order of
messages; what can differ is whether the robot got the message and whether the
caller saw an error (`Outcome`). Reads of a torn `std::string` (`eduTransport_`
without its mutex) are undefined behaviour without a sensible set of outcomes:
they are modelled as reads of the current value, at any time.

`AckRouting` numbers the commands (`cmd`, `no`) so that a property can say *which*
command an acknowledgement answers; no guard looks at these numbers. In the
same way `closed`, `exitLost`, `gaveUp`, `act`, `upset`, `overlapped`, `reconnected`, `doubled`,
`raced`, `stale`, `together`, `carries`, `listens`, `calls`, and `started` of `WsHost`, are
history: no action of the code depends on them.

A call into the platform that may fail is one step with both outcomes. The pure functions take
one step per call, and `Codec` keeps the argument beside the answer so that a
property can compare them.

## 3. What the runs check

### `edu_one_enterer` (EduSession; passes)

Three callers: a user's thread that enters, exits and shuts down, a second one
that exits and shuts down, and a detached thread that reports a lost robot. Every
message may be delivered, delivered with an error at the caller, or lost.
`MaxCalls = 4`: four calls are enough for an enter, two overlapping exits of it
and a further enter, which is every pair of overlapping calls on top of a running
session with a predecessor. Checked:
`NoTerminate`, `OneOwner`, `NoHeartbeatAfterExit`, `CurrentKeptAlive`,
`NoForgottenSession`, the liveness property `EveryCallReturns`, and the refinement `ContractSpec` of `HeartbeatContract`
(current is `eduThread`, running is the set of live threads).

The interesting case is the second enter: it resets `eduStop_` while the thread of
the first session may still be anywhere in its loop. That is safe only because
`exit_edu_mode` joined it first, or another exit is about to (then its session
number is old and `HbLock` ends it).

The run has ONE entering thread. This is what the code needs and does not say:

### `edu_two_enterers` (violated: `NoTerminate`)

A user's enter and the one a connecting robot triggers overlap: both leave
`exit_edu_mode`, then one after the other take `eduMutex_`, and the second assigns
a thread to the joinable `eduThread_`: `std::terminate`. `AiDog` enters by
itself whenever the robot connects, so every explicit enter over WebSocket is
exposed to it; two connections in a row are too.

### `ack_routing` (AckRouting; passes)

A user's thread (movements and ear percentages, which nobody waits for) and the
heartbeat send three commands in all over a link that can drop and come back, and whose `send` can fail at
any time (`not_sent`). Acknowledgements of an older connection may still arrive and are filed like all others.
`AcceptedById`: a call accepts only an acknowledgement with its id. `LeftoverIsAbandoned`:
what stays in the map belongs to a call that gave up. `OwnUnlessOverlapped`: what a call
accepts answers this very command, unless two increments of `wsControlSeq_` overlapped at some
time. Three sends are the least with which an id can be used twice and once before.

### `action_wait` (ActionWait; passes)

One caller, two actions, five reports, each of which can be late, repeated or lost,
and any wait may time out. With two actions, the reports of the first one can meet the
second call. `TrueMeansOver` holds as long as no call was left before the last
report of its action (`gaveUp`): after a timeout the late end of the old action is taken
for the new one's, and no client of a single overwritten status could tell. `KilledIsOwn`, under the same
condition: the killed status that makes a call return false is that of its own action. `Sample` asks
for a new status number only before it returns true (148), not for a killed one (152), so what protects the call
is `WaitIdle` before it, which ends, in time, only with an idle status or none. `EveryCallReturns` holds whatever the robot does.
The result of the six-second wait for the old action is dropped (`aidog.cpp` 105): after it
timed out the new action is sent all the same (`WaitIdle` sets `gaveUp`), although the design
notes say that the old action is idle by then. A status 2 that is still there then ends the new call at once.
A killed action whose status 2 is overwritten by 0 before the caller samples it
counts as done: `TrueMeansOver` says over, not finished.

### `ws_host` (WsHost; passes)

Three connections and two starts: a connection that dies, one that replaces it and one after
a restart. The user's `onConnection` may throw after the open and after the close handler's critical section, which
ends the io thread. `ActiveIsOpen`, `ConnectedHasActive`, `StartedListens`, `StopReturns`.
Also seen in these behaviours, and promised by no document: a start after a start that failed
returns normally and does nothing (the thread is still joinable); a start that
times out before the io thread listens leaves a thread that `stop` joins without ever having
called `server.stop()`; after a stop, `io_context` is not reset, so a second start
succeeds and serves nobody.

### `ble_link` (BleLink; passes)

Two threads connect and disconnect, three calls in all, two attempts each, over a radio
where any step of an attempt can fail (a discovery also half-way, with some fields set), while a heartbeat and the
exit messages write. A failed enter leaves the session noted without a heartbeat, so the next call sends an exit. Three calls are the least for a
connect, a reconnect and a call of the other thread beside it. `HandlersAreKnown`: the next disconnect
removes every handler that lives. `ConnectedIsWhole`: the fields are those of one discovery, with
the write characteristic and the handlers of what was found. `RaceIsMisuse`: `write_raw` copies a
characteristic without the mutex, and meets one that is being assigned or is dead only after a
connect without a disconnect before it (the heartbeat of the old session is still there), a
call beside a connect, or two disconnects at once (one of which still joins the heartbeat or sends the exit). The model shows all three happening:
the code offers no protection against them. `WhileApart` stops the search where a connect overlapped
another call; every property claims nothing from there on and that never ends, so nothing is lost.
Also seen: a connect that failed in its last attempt leaves its live handlers until the next
disconnect; when the characteristic refuses both Notify and Indicate nobody notices (257-261);
the watcher's callback in `scan` captures locals by reference (151-169) and can outlive them.

### `listeners` (Listeners; passes)

Two dispatching threads, three samples and two listeners that come and go: enough for a listener
that is removed between the copy and its call, and for one added meanwhile. `ServesThoseListed`
fixes what the code means by listed: at the moment of storing. A listener can therefore run after its
removal returned. `SeenInOrder`: with one notification at a time a listener sees the samples in order
and last the one in the cache. Two threads that dispatch at once can turn this round, and
leave a listener with the older sample for good. The threads are interchangeable (symmetry).

### `control_panel` (ControlPanel; passes)

Two directions, two positions of the slider and five user events beside the close: a connect, a movement, a release
or a slider move, a disconnect and a reconnect. A write over BLE may fail at any time with the link up, with or
without effect; then `upset` remembers what failed, and `Undisturbed` says that neither a movement
nor the stop of a cleanup did.
`PanelMatchesRobot`: once the queue is empty the robot does what the panel shows, connected or not, if undisturbed. What happens otherwise: a movement
button pressed while disconnected sets `activeMovement_` without a command, and after the
connect the same button does nothing; a stop that fails leaves `activeMovement_`
empty, so the next stop is not sent; and if Connect is queued behind a running Disconnect, a movement
started meanwhile is forgotten by the cleanup and sent after the reconnect, so that releasing the joystick
does not stop it. A reconnect that fails leaves `connected_` true (1291).
`EarsFollowSlider`: however fast the slider is moved, the last position reaches the ears, unless one was
refused, failed or overtaken (see below). The clock is in the three ranges the code tells apart:
less than 60 ms, less than 250 ms, or more since the last send; it and the 100 ms timer may run
at any moment. `ClosedIsDone` and `CloseEnds`: closing the window runs every posted task and ends.
`LeftIsStopped`: a robot that has lost its connection, by Disconnect or by the close, does not move, if undisturbed.
The condition is needed: `cleanup_robot` swallows the failure of its stop (1628-1631) and then disconnects
(`panel_stop_fails.cfg` below). And the window thread reads `activeMovement_` twice (1335) while the worker
may reset it: `CompareMovement` has what `value()` does of an emptied optional: it throws, and the
process ends (`panel_crash.cfg` below).

### `pcm` (PcmStream; passes)

Two playback and two capture buffers, a queue of one, four chunks: one plays, one waits in the
device, one in the queue, and one makes the queue drop. `PlayedInOrder`, `CaptureGoesRound`,
`PlaybackGoesOn` and `MainReturns`, and the refinement `PlaybackContractSpec` of `PlaybackContract`: the chunk in the
worker's hand still waits (that is `Waiting`), what plays is what the buffers of the device hold at this moment
(`Playing`, so a buffer that is overwritten too early is a step the contract forbids), and `Phase` is read off
`stopping_`, the worker and the place of `main`. The contract bounds what waits by two above the limit (the code
drops only above it, and one chunk is in the worker's hand); when the queue is full while the worker holds a chunk, the second
oldest is the one that is lost; after `stop` the worker may still start the chunk it holds, and no other. What
the properties except, because the code does it: a buffer that is filled before `start` sets
`running_` never goes back to the device (200-204); a constructor or start that throws leaves
prepared buffers with the device (175-183, 201); and `waveOutProc` notifies without the mutex (302-309), so that a
worker between its test and its sleep (345) can miss the last `WOM_DONE`. It then sleeps on `doneCv_` over an
idle device (`Stalled`), and no chunk wakes it, because `write` notifies only `cv_` (272): the playback is
dead until `stop`. `PlaybackGoesOn` therefore says that a queued chunk is taken out unless the output was stopped or
stalls after such a miss (`missed`); a miss while the device still holds a buffer is made good by that
buffer's `WOM_DONE`. `pcm_lost_wakeup.cfg` below shows the stall.

### `programs` (Programs; passes) and `programs_ws_exit` (violated: `ExitIsSent`)

Nineteen programs, every command a step that can fail with or without effect, at most two failures: one in the body
and one in what tidies up. `TidiedKeepsPromise`, `WalksInsideMovement`,
`AdjustmentsJoin`, `BleExitIsSent`. What they leave out, and the code does: the commands of a catch block stop
at the first that fails, and a failure in the orderly tail skips the rest of it and the catch block
repeats only a part; `send_movement` checks its duration after the start was sent (`aidog.cpp` 174), so
`ws_timed_move --duration 0` leaves the robot walking. A failing C++/WinRT call throws `winrt::hresult_error`, which
is no `std::exception`: where no `catch (...)` is in between, `main` does not catch it, and the process ends
without destructors (`Uncaught`, block `aborted`). `BleExitIsSent` speaks of the programs that ran them.
The second run finds what every WebSocket program does: `stop()` closes the link without telling `AiDog`, and the
host, declared after the dog, is destroyed before it. `~AiDog` then sends its exit through a
dangling pointer. The design notes promise that `shutdown()` tries to send an exit.

### `codec` (Codec; passes)

Every pure function with every argument of a set that has a value on both sides of each clamp and threshold
(`MCCodec`); addresses have two bytes instead of six, and an `int` has three bits (`IntHalf = 4`), so that whole
numbers beyond it occur. `ActionsAsAsked`: parameters are clamped to
what the message carries, the wait is longer than the action, aliases and numbers lead to
listed actions. `FramesReadBack`, `NotifyReadsBack`, `ControlsDoAsLabelled`. The limits
the properties name are facts of the code: `resolve_action` narrows a number to 8 bits first (263 is
SitDown); a level robot that reports thousandths of a degree, none beyond 180, is read as degrees and
so a thousand times too large; a number written as 1.9999999999 becomes 1; a status
beyond `int` is narrowed, and as a floating-point number its cast is undefined (`IntValue` then gives either end of
the range), so `NotifyReadsBack` speaks of statuses within `int`; a MAC address without separators
is taken for a decimal number when all its digits are decimal.

### Configurations the code fails

Beside the runs of `PROJECT.json` there are nine configurations to run by hand. Each checks one
property a user may well expect of the code and no document promises in so many words; TLC finds each violated.

| Configuration | Property | What happens |
|---|---|---|
| `edu_connect_fails.cfg` | `NoTerminate` | The enter that a connection triggers runs in a lambda of a detached thread without a handler (`websocket_host.cpp` 50-54). A late or missing acknowledgement is an exception in `enter_edu_mode`, and ends the process. |
| `edu_stale_exit.cfg` | `RobotInSession` | No message is lost. An exit has left its critical section and not sent its message; the connection's enter is sent first and gets its thread; then the exit arrives. The host keeps a session alive that the robot has left (that heartbeats let the robot re-enter is not known from this code). |
| `edu_shutdown.cfg` | `ShutdownStopsHeartbeat` | One thread: shutdown, enter, shutdown. The last one returns with a running heartbeat thread. (The destructor is such a second shutdown; it would then destroy a joinable thread.) |
| `ack_race.cfg` | `AcceptedIsOwn` | The unprotected increments lose an update, and the stale acknowledgement of an older command carries the id of a newer one. |
| `ws_old_close.cfg` | `OpenIsReported` | The close handler forgets whichever connection is active. |
| `panel_ears.cfg` | `EarsNeverGoBack` | The slider goes to 40 and is sent, goes to 60 within 60 ms and is pending, and goes back to 40: that is skipped, because 40 was sent less than 250 ms ago (1364). The timer then sends the pending 60. The same happens when a newer position is sent directly before the timer fires: nothing resets `pendingEarPercent_`. |
| `panel_stop_fails.cfg` | `LeftIsStoppedAnyway` | The robot moves, the user presses Disconnect, and the write of the stop fails with the link up (`ble_transport_win.cpp` 290-293). `cleanup_robot` swallows the exception (`user_control_ble_win.cpp` 1628-1631), forgets the movement and disconnects: the robot walks on. |
| `panel_crash.cfg` | `NeverCrashes` | A movement is active and a Disconnect runs. The user moves the joystick: `has_value()` is true, the worker resets the optional, and `value()` throws `std::bad_optional_access` out of the window procedure (1335). |
| `pcm_lost_wakeup.cfg` | `PlaybackNeverStalls` | The worker has tested `_has_free_header`, the device plays its last buffers and notifies, and only then the worker sleeps. Chunks queue up and are dropped at the limit; nothing is played until `stop`. |

### Bounds

`MaxCalls`, `MaxSends`, `MaxActions`, `MaxReports`, `MaxConns`, `MaxStarts`, `MaxEvents`, `MaxSamples`,
`MaxListeners`, `MaxChunks` and `MaxFails` bound how often the environment acts; they occur only in
the guards of those actions (`MaxSamples` and `MaxListeners` also as the sizes of histories).
All other state follows from them. Where a property is proved, the bounds do not matter.

Every configuration says `CHECK_DEADLOCK FALSE`: when the bounds are used up and every call
has returned, nothing is left to do. That calls do return is what the liveness properties state.

### Fairness

Weak fairness on the steps of threads that already run a call, on the heartbeat threads, the io
thread and the threads of the audio example: the operating system schedules them, their sends and waits have
deadlines (1.2 s for an acknowledgement, the caller's timeout for an action), their sleeps are finite,
and mutexes are held for bounded times. The audio device plays and fills the buffers it holds. Nothing is
assumed of the user, the robot or the link. Weak fairness is enough even at
a mutex in these instances; `std::mutex` promises no more. `BleLink`, `Listeners`, `Programs` and `Codec`
check safety only and need none.

## 4. What is proved

All proofs are checked by TLAPS from the assumptions named in the modules (`CallersAssumption`,
`NobodyAssumption`, `AckAssumption`, `ActionAssumption`, `HostAssumption`, `LinkAssumption`, `PanelAssumption`,
`ListenerAssumption`, `PcmAssumption`, `FailsAssumption` and `NamesAssumption` of `Programs`, and those of `Codec` and
its parts). `Streams_proofs` holds the proofs about `Listeners` and about `PcmStream`, `Commands_proofs` those about
`Codec` and about `Programs`.

| Theorem | States | Under |
|---|---|---|
| `EduSession_proofs!TypeCorrect` | `TypeOK` | - |
| `NeverTerminates`, `HeartbeatsAreOwned`, `ExitIsFinal`, `CurrentSessionIsKept`, `SessionsAreRemembered` | the five invariants of `edu_one_enterer` | `SingleEnterer`, `DetachedEntersReliably` |
| `ImplementsContract` | `ContractSpec` | the same |
| `AckRouting_proofs!TypeCorrect`, `AcceptedByIdHolds`, `OwnUnlessOverlappedHolds` | `TypeOK`, `AcceptedById`, `OwnUnlessOverlapped` | - |
| `NoLeftovers` | `LeftoverIsAbandoned` | - |
| `SingleSenderOwnsItsAck` | `AcceptedIsOwn` | `SingleSender` |
| `ActionWait_proofs!TypeCorrect` | `TypeOK` | - |
| `TrueMeansOverHolds`, `KilledIsOwnHolds` | `TrueMeansOver`, `KilledIsOwn` | `SingleCaller` |
| `WsHost_proofs!NoStaleHandle`, `FlagHasHandle`, `StartIsTrue` | `ActiveIsOpen`, `ConnectedHasActive`, `StartedListens` | - |
| `BleLink_proofs!TypeCorrect`, `NoOrphanHandler`, `ConnectedMeansWhole`, `RacesAreMisuse` | `TypeOK`, `HandlersAreKnown`, `ConnectedIsWhole`, `RaceIsMisuse` | - |
| `ControlPanel_proofs!TypeCorrect`, `CloseIsOrderly`, `EarsSettle` | `TypeOK`, `ClosedIsDone`, `EarsFollowSlider` | - |
| `PanelSettles`, `LeavingStops` | `PanelMatchesRobot`, `LeftIsStopped` | - |
| `Commands_proofs!ActionsHold`, `NotifyHolds`, `ControlsHold` | `ActionsAsAsked`, `NotifyReadsBack`, `ControlsDoAsLabelled` | - |
| `Streams_proofs!ServesListed`, `SeesInOrder` | `ServesThoseListed`, `SeenInOrder` | - |
| `Streams_proofs!PcmTypes`, `PlaysInOrder`, `BuffersGoRound` | `TypeOK`, `PlayedInOrder`, `CaptureGoesRound` of `PcmStream` | - |
| `KeepsPlaybackContract` | `PlaybackContractSpec` of `PcmStream` | - |
| `Commands_proofs!ProgramInvariant` | `ProgramInv` of `Programs` | - |
| `PromisesKept`, `WalksStayInside`, `StepsJoin`, `BleExits` | `TidiedKeepsPromise`, `WalksInsideMovement`, `AdjustmentsJoin`, `BleExitIsSent` | - |

The EDU session: the five invariants lean on each other and on three facts that none of them
states. `MutexInv`: `eduMutex_` is held exactly by a caller between taking it and its spawn. `CallerInv`: once the
enterer has left its own critical section in `exit_edu_mode`, `eduThread_` stays empty, because only the single
enterer fills it (here `SingleEnterer` is used, and here the two-enterer run breaks), and what a caller
moved out is older than the current session. `SessionInv`: every number in use is at most `eduSessionSeq_`, and the number of a
session being entered is not in use. With them every step is local; the proof has one lemma per
action. `DetachedEntersReliably` is used only for `NoTerminate` in `EnterSend`.

Acknowledgements: while increments do not overlap, the number being taken is the largest given out, and
nothing in the map or on its way carries it (`Unused`) until the command itself is sent. So what
`wait_ack` finds is its own answer, and stale answers, which the code never removes, are harmless.
Threads may share an id all the same (the counter wraps, increments overlap). `LeftoverIsAbandoned` then needs a
count: of every id that no call abandoned, the answers in the map and on their way are no more than
the threads that wait. `MatchInv` says so without counting: they can be matched one to one
(`Matched`), and each step takes from one side or adds to both.

Action completion: as long as no call stopped listening early, every action but the caller's own is over, and the reports on
their way have one shape: idle reports from before, running ones, the end, idle ones. `Whereabouts` says which part of it
the caller's status is in (`NotStarted`, `Performing`, `Ended`); the shape survives the loss of any report. A caller
that saw a running state and then idle is past the end, and all that is still on its way is idle,
which is what the next call needs. No killed status is left from before, because the wait before the action ended idle: a
killed status is the end of the caller's own action (`KilledIsOwnHolds`).

The BLE transport: `PlaceInv` ties the fields to the place of the thread that sets them up, `LinkInv` says that
handlers, fields and tokens agree and that a connected link is whole, `HbInv` follows the characteristic that
the heartbeat and the exit messages copied. Outside overlapping calls only one thread builds, and what it has not yet reached is empty.

The host: `StartStopInv` links the thread that starts and stops to the io thread. The panel:
`ShutdownInv` says that a stopped worker still has the Shutdown last in its queue, or runs it, or
has done it; `EarsInv` follows the newest percentage from the window thread through the queue and the worker to
the robot. `PanelSettles` follows a movement the same way, but Connect and Disconnect go through the same queue, and
a movement behind a Disconnect cannot succeed. `Lost` says that such a movement is on its way, and `LostStep` that it
stays so until it has failed; `DriveInv` says, of every state that is not lost, what is in force: the last movement
posted (`PanelInForce`), and no movement ahead of a Connect (`ConnectsStill`). `OrderInv` orders
Connect, Disconnect and Shutdown in the queue. `StillInv` is behind `LeavingStops`: without a connection the robot
stands, and it stands already from the stop of a cleanup on, unless that stop or a movement failed (`StillStep`).

The pure functions: arithmetic on each clamp and on the unit guess; the panel's controls by the page
each identifier belongs to, the joystick by its symmetry.

The listeners: `ListInv` says that a list holds, oldest first, exactly the listeners that were added and not yet
removed. With it `Copy` is what `Expected` says at the moment of storing. From then on `UnderWay` holds
until the dispatch ends: what was copied is expected and in order, everything expected was called or is
still to be called, and whoever was called comes before whoever is to be called. No add or remove changes
what an earlier sample expects (`Frame`). `OneAtATime` and `LastInv` add the order of samples.

The audio example: `ChunkInv` says that a chunk received is in one place only, the numbers in the queue, the hand of the
worker and what was played ascend in this order, and a worker that has taken a chunk still has a
free header, because only the worker gives headers to the device (so `_free_header` always finds one, by `FirstFree`,
and no chunk is lost between the test and the use). `DeviceInv`: the buffers the device holds are the last ones
played. `CaptureInv` ties `running_` and the capture buffers to the place of `main`; `QueueInv`
says that a worker that waits for a header still has its chunk.

The playback contract: `StopInv` ties `stopping_` and the worker's end to the place of `main`. With `ChunkInv` and
`DeviceInv`'s facts about headers, each step is one of the contract's or none of its business (`PlaybackStep`): `Write`
is `Arrive` (`ContractWrite`, one case each for joining, pushing out the oldest and pushing out the second), `Fill` is `Start`
(`ContractFill`; the header it fills is not with the device, so nothing that plays changes: `HeldFill`), `Done` is `Finish`,
`StopOutput` is `Stop`, `JoinOutput` is `Close`; taking a chunk from the queue changes nothing, because the worker's hand counts
as waiting (`PutBack`).

The example programs: every script is built with `\o` from the commands of `AiDog`, so the proof has two halves.
The first is about scripts alone: `Script` (every start of a walk is followed by its check and its stop, and
the commands lead from one stance of the robot to another, each written for the stance before it), `Puts` (what a
script certainly puts right) and `Guarded` (an exit comes before the link goes) are closed under `\o`
(`ScriptConcat`, `PutsConcat`), hold of each command (`CommandsClosed`, `CommandsTidy`), and so of each of the 21
entries of the catalogue (nineteen programs, two of them in two modes; `Sound`, one lemma per group of programs, `CatalogueSound`). That
the foot adjustments of `custom_action` add up to nothing is `FeetBack`. The second half says what remains true of the commands that are
still to do while they are done one by one and may fail: `LeftJoins` (they start in the stance the robot has and end with
it standing), `StopIsNext` (a walk that started has its stop next, or next but one), `StillPuts` (the end and the catch block
still hold what puts right each promised aspect that is not right yet), `Leaving`, and `ExitFirst` (a BLE program
that may have a session has its exit ahead of everything that takes the link down). `ProgramInv` is their conjunction with the
types; one lemma per action shows that it is kept. The two properties that need a run without failure
(`WalksInsideMovement`, `AdjustmentsJoin`) keep that condition: `fails = 0` stands before `LeftJoins` and in `StopIsNext`.

Type invariants: those of `EduSession`, `AckRouting`, `ActionWait`, `BleLink`, `ControlPanel` and `PcmStream` are
theorems; those of `WsHost`, `Listeners` and `Programs` are conjuncts of the inductive invariants their proofs use (`IInv`,
`ListenerType`, `ProgramInv`). No run repeats them.

Only model-checked: everything temporal (`EveryCallReturns`, `StopReturns`, `CloseEnds`, `PlaybackGoesOn`, `MainReturns`;
liveness is out of the prover's reach), and `FramesReadBack`, whose definitions fold over sequences of digits and
sort them, so that it needs induction over data.

## 5. What is not modelled, and the plan

Not modelled, and why:

- `scan` with its watcher and `read_actions`: lists of strings from the platform, without state that anything else uses;
- `send_raw`, `set_dev_pc_ws_ip`, `set_tof_enable`, `get_action_list`: one message each, without further state;
- the default pose and the configuration JSON: fixed layouts;
- the panel's windows, drawing, plots and log (among them that the WebSocket build plots each sample twice, from its
  listener and from its timer), and the WebSocket build of the panel, which shares the queue and the controls;
- the stubs (they only throw), the WiFi tool (it sends one configuration), tests and texts;
- torn reads of a `std::string` that another thread assigns (`eduTransport_`): undefined behaviour without a sensible set of outcomes.

Next, in this order:

1. `RobotLink`: `WsHost` and `EduSession` composed, with the detached calls in the wrong order
   and the connection that dies under an enter.
2. The WebSocket build of the panel.

Abstract specifications worth stating after `HeartbeatContract` and `PlaybackContract`: a synchronous remote control
that the panel and its queue implement; a request-reply channel that `AckRouting` implements while increments do not overlap.
