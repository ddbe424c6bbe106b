------------------------------- MODULE WsHost -------------------------------
(***************************************************************************)
(* The connection life of WebSocketHost (src/src/websocket_host.cpp):      *)
(* start, stop and the io thread with its listen phase and its open, close *)
(* and fail handlers, and the detached threads that tell AiDog.            *)
(*                                                                         *)
(* websocketpp and asio are external: the io thread runs one handler at a  *)
(* time; stop_listening throws unless the server listens; after            *)
(* server.stop() run() returns without another handler, and it does so     *)
(* again at the next start, because nothing resets the io_context.         *)
(* The robot opens one connection at a time, but the host may learn late   *)
(* that an earlier one is dead.                                            *)
(***************************************************************************)
EXTENDS Naturals

CONSTANTS
    MaxConns,    \* bound: connections of the robot
    MaxStarts    \* bound: calls of start

ASSUME HostAssumption == MaxConns \in Nat /\ MaxStarts \in Nat

Conn == 1..MaxConns
NoConn == 0

VARIABLES
    io,           \* the io thread; it is joinable unless "none"
    handler,      \* the handler that runs and how far it is
    listening,    \* external: the acceptor is open
    serverStopped,\* external: server.stop() was called
    conn,         \* external: the life of each connection
    active,       \* impl_->active
    connected,    \* impl_->connected
    ready, stopping, startError,   \* the fields of the same names
    pc,           \* where the thread is that calls start and stop
    started,      \* history: how the last start ended
    dogCalls,     \* detached threads that have not called AiDog yet
    starts        \* bound: calls of start

ioVars   == <<io, handler, listening, serverStopped, conn>>
implVars == <<active, connected, ready, stopping, startError>>
vars == <<ioVars, implVars, pc, started, dogCalls, starts>>

IoState == {"none", "listen", "run", "ended"}
Handler == {"none", "opened", "closing", "closed"}
ConnState == {"none", "connecting", "open", "dying", "closing", "gone"}
UserPc == {"idle", "start_wait", "stop_listening", "stop_server", "stop_join"}
DogCall == {"connected", "disconnected"}

Init ==
    /\ io = "none"
    /\ handler = "none"
    /\ listening = FALSE
    /\ serverStopped = FALSE
    /\ conn = [c \in Conn |-> "none"]
    /\ active = NoConn
    /\ connected = FALSE
    /\ ready = FALSE
    /\ stopping = FALSE
    /\ startError = FALSE
    /\ pc = "idle"
    /\ started = "none"
    /\ dogCalls = [k \in DogCall |-> 0]
    /\ starts = 0

-----------------------------------------------------------------------------
(* start                                                                   *)

Start ==
    /\ pc = "idle"
    /\ starts < MaxStarts
    /\ starts' = starts + 1
    /\ io = "none"
    /\ ready' = FALSE
    /\ stopping' = FALSE
    /\ startError' = FALSE
    /\ io' = "listen"
    /\ pc' = "start_wait"
    /\ started' = "none"
    /\ UNCHANGED <<handler, listening, serverStopped, conn, active, connected, dogCalls>>

\* With a joinable thread start returns at once, whatever became of it.
StartAgain ==
    /\ pc = "idle"
    /\ starts < MaxStarts
    /\ starts' = starts + 1
    /\ io # "none"
    /\ started' = "again"
    /\ UNCHANGED <<ioVars, implVars, pc, dogCalls>>

StartReturns ==
    /\ pc = "start_wait"
    /\ ready
    /\ started' = IF startError THEN "threw" ELSE "ok"
    /\ pc' = "idle"
    /\ UNCHANGED <<ioVars, implVars, dogCalls, starts>>

StartTimesOut ==
    /\ pc = "start_wait"
    /\ ~ready
    /\ started' = "timeout"
    /\ pc' = "idle"
    /\ UNCHANGED <<ioVars, implVars, dogCalls, starts>>

-----------------------------------------------------------------------------
(* stop, also called by the destructor                                     *)

Stop ==
    /\ pc = "idle"
    /\ stopping' = TRUE
    /\ pc' = "stop_listening"
    /\ UNCHANGED <<ioVars, active, connected, ready, startError, started, dogCalls, starts>>

\* stop_listening, and a close frame to the active connection (what comes of
\* it is up to the robot).  If stop_listening throws, the rest is skipped.
StopListening ==
    /\ pc = "stop_listening"
    /\ listening' = FALSE
    /\ pc' = IF listening THEN "stop_server" ELSE "stop_join"
    /\ UNCHANGED <<io, handler, serverStopped, conn, implVars, started, dogCalls, starts>>

\* Mutant: server.stop() is left out.
StopServerSkipped ==
    /\ pc = "stop_server"
    /\ pc' = "stop_join"
    /\ UNCHANGED <<ioVars, implVars, started, dogCalls, starts>>

\* 300 ms later.
StopServer ==
    /\ pc = "stop_server"
    /\ serverStopped' = TRUE
    /\ pc' = "stop_join"
    /\ UNCHANGED <<io, handler, listening, conn, implVars, started, dogCalls, starts>>

\* Without a thread there is nothing to join.
StopJoin ==
    /\ pc = "stop_join"
    /\ io \in {"none", "ended"}
    /\ io' = "none"
    /\ pc' = "idle"
    /\ UNCHANGED <<handler, listening, serverStopped, conn, implVars, started, dogCalls,
                   starts>>

-----------------------------------------------------------------------------
(* The io thread                                                           *)

\* Mutant: the error is not stored.
IoListenSilent(ok) ==
    /\ io = "listen"
    /\ ok => ~listening
    /\ ready' = TRUE
    /\ io' = IF ok THEN "run" ELSE "ended"
    /\ listening' = (listening \/ ok)
    /\ UNCHANGED <<handler, serverStopped, conn, active, connected, stopping, startError,
                   pc, started, dogCalls, starts>>

\* run(): listen and accept, or report the error to start.
IoListen(ok) ==
    /\ io = "listen"
    /\ ok => ~listening
    /\ ready' = TRUE
    /\ io' = IF ok THEN "run" ELSE "ended"
    /\ IF ok
       THEN listening' = TRUE /\ UNCHANGED <<startError, connected>>
       ELSE startError' = TRUE /\ connected' = FALSE /\ UNCHANGED listening
    /\ UNCHANGED <<handler, serverStopped, conn, active, stopping, pc, started, dogCalls,
                   starts>>

\* The io thread can run a handler.
CanHandle == io = "run" /\ handler = "none" /\ ~serverStopped

\* The open handler takes the connection over; Callback is the rest of it.
HandleOpen(c) ==
    /\ CanHandle
    /\ conn[c] = "connecting"
    /\ conn' = [conn EXCEPT ![c] = "open"]
    /\ active' = c
    /\ connected' = TRUE
    /\ handler' = "opened"
    /\ UNCHANGED <<io, listening, serverStopped, ready, stopping, startError, pc, started,
                   dogCalls, starts>>

\* Mutant: the flag is left as it is.
HandleFailConnected(c) ==
    /\ CanHandle
    /\ conn[c] = "connecting"
    /\ conn' = [conn EXCEPT ![c] = "gone"]
    /\ active' = NoConn
    /\ UNCHANGED <<io, handler, listening, serverStopped, connected, ready, stopping,
                   startError, pc, started, dogCalls, starts>>

HandleFail(c) ==
    /\ CanHandle
    /\ conn[c] = "connecting"
    /\ conn' = [conn EXCEPT ![c] = "gone"]
    /\ active' = NoConn
    /\ connected' = FALSE
    /\ UNCHANGED <<io, handler, listening, serverStopped, ready, stopping, startError, pc,
                   started, dogCalls, starts>>

\* The close handler first starts the detached thread that tells AiDog, unless
\* the host is stopping ...
HandleClose(c) ==
    /\ CanHandle
    /\ conn[c] = "dying"
    /\ handler' = "closing"
    /\ conn' = [conn EXCEPT ![c] = "closing"]
    /\ dogCalls' = IF stopping THEN dogCalls
                   ELSE [dogCalls EXCEPT !["disconnected"] = @ + 1]
    /\ UNCHANGED <<io, listening, serverStopped, implVars, pc, started, starts>>

\* Mutant: the handle of the closed connection stays.
HandleCloseKeeps(c) ==
    /\ handler = "closing" /\ conn[c] = "closing"
    /\ conn' = [conn EXCEPT ![c] = "gone"]
    /\ handler' = "closed"
    /\ connected' = FALSE
    /\ UNCHANGED <<io, listening, serverStopped, active, ready, stopping, startError, pc,
                   started, dogCalls, starts>>

\* ... and then forgets the active connection, whichever one it is.
HandleCloseReset(c) ==
    /\ handler = "closing" /\ conn[c] = "closing"
    /\ conn' = [conn EXCEPT ![c] = "gone"]
    /\ handler' = "closed"
    /\ active' = NoConn
    /\ connected' = FALSE
    /\ UNCHANGED <<io, listening, serverStopped, ready, stopping, startError, pc, started,
                   dogCalls, starts>>

\* The open and the close handler end with the user's onConnection, and the
\* open handler then starts the detached thread that tells AiDog.
Callback ==
    /\ handler \in {"opened", "closed"}
    /\ handler' = "none"
    /\ dogCalls' = IF handler = "opened"
                   THEN [dogCalls EXCEPT !["connected"] = @ + 1] ELSE dogCalls
    /\ UNCHANGED <<io, listening, serverStopped, conn, implVars, pc, started, starts>>

\* An exception that leaves onConnection, or a callback about the messages of a
\* connection that is open, ends run().
HandlerThrows ==
    /\ \/ handler \in {"opened", "closed"}
       \/ CanHandle /\ \E c \in Conn : conn[c] \in {"open", "dying"}
    /\ handler' = "none"
    /\ io' = "ended"
    /\ startError' = TRUE
    /\ ready' = TRUE
    /\ connected' = FALSE
    /\ UNCHANGED <<listening, serverStopped, conn, active, stopping, pc, started, dogCalls,
                   starts>>

\* server.run() returns after server.stop().
IoEnds ==
    /\ io = "run"
    /\ serverStopped
    /\ handler = "none"
    /\ io' = "ended"
    /\ UNCHANGED <<handler, listening, serverStopped, conn, implVars, pc, started, dogCalls,
                   starts>>

Io ==
    \/ \E ok \in BOOLEAN : IoListen(ok)
    \/ \E c \in Conn :
         HandleOpen(c) \/ HandleFail(c) \/ HandleClose(c) \/ HandleCloseReset(c)
    \/ Callback \/ HandlerThrows
    \/ IoEnds

-----------------------------------------------------------------------------
\* The detached threads call on_ws_robot_connected and on_ws_robot_disconnected,
\* in any order; EduSession has what these calls do.
DogIsTold(k) ==
    /\ dogCalls[k] > 0
    /\ dogCalls' = [dogCalls EXCEPT ![k] = @ - 1]
    /\ UNCHANGED <<ioVars, implVars, pc, started, starts>>

\* External: the robot connects when it has no connection left, in order.
RobotConnects(c) ==
    /\ listening
    /\ conn[c] = "none"
    /\ \A d \in Conn : d < c => conn[d] \in {"dying", "closing", "gone"}
    /\ conn' = [conn EXCEPT ![c] = "connecting"]
    /\ UNCHANGED <<io, handler, listening, serverStopped, implVars, pc, started, dogCalls,
                   starts>>

\* External: the robot closes its connection or the link dies.
RobotDrops(c) ==
    /\ conn[c] = "open"
    /\ conn' = [conn EXCEPT ![c] = "dying"]
    /\ UNCHANGED <<io, handler, listening, serverStopped, implVars, pc, started, dogCalls,
                   starts>>

User == StartReturns \/ StopListening \/ StopServer \/ StopJoin

Next ==
    \/ Start \/ StartAgain \/ StartTimesOut \/ Stop \/ User
    \/ Io
    \/ \E k \in DogCall : DogIsTold(k)
    \/ \E c \in Conn : RobotConnects(c) \/ RobotDrops(c)

\* The calling thread and the io thread are scheduled; a sleep of 300 ms ends.
Spec == Init /\ [][Next]_vars /\ WF_vars(User) /\ WF_vars(Io)

-----------------------------------------------------------------------------
(* Properties                                                              *)

\* Every variable holds a value of its kind.
TypeOK ==
    /\ io \in IoState
    /\ handler \in Handler
    /\ listening \in BOOLEAN
    /\ serverStopped \in BOOLEAN
    /\ conn \in [Conn -> ConnState]
    /\ active \in Conn \cup {NoConn}
    /\ connected \in BOOLEAN
    /\ ready \in BOOLEAN
    /\ stopping \in BOOLEAN
    /\ startError \in BOOLEAN
    /\ pc \in UserPc
    /\ started \in {"none", "again", "ok", "threw", "timeout"}
    /\ dogCalls \in [DogCall -> Nat]
    /\ starts \in Nat

\* is_robot_connected
IsRobotConnected == connected /\ active # NoConn

\* The handle that send_text uses was opened and its close handler has not
\* finished: nothing is sent to a connection the host knows to be closed.
ActiveIsOpen == active # NoConn => conn[active] \in {"open", "dying", "closing"}

\* When the flag says connected there is a handle to send to, so a caller that
\* saw it does not get "no active connection" from the same state.
ConnectedHasActive == connected => active # NoConn

\* A start that created the io thread and returned normally left a server that
\* listens, until someone stops it.
StartedListens == started = "ok" /\ pc = "idle" => listening \/ stopping

\* Once stop_listening succeeded, stop returns: the io thread ends, whatever the
\* robot does.  (If start timed out before the io thread listened, stop skips
\* server.stop() and joins a thread that goes on to serve: see the README.)
StopReturns == pc = "stop_server" ~> pc = "idle"

\* As long as the robot's connection is open and no handler runs, the host says
\* that the robot is connected.  The close handler of an older connection
\* breaks it (see the README).
OpenIsReported ==
    io = "run" /\ handler = "none" /\ (\E c \in Conn : conn[c] = "open")
        => IsRobotConnected

-----------------------------------------------------------------------------
(* The inductive invariant behind ActiveIsOpen, ConnectedHasActive and     *)
(* StartedListens.                                                         *)

\* What the thread that starts and stops relies on.
StartStopInv ==
    /\ pc = "start_wait" /\ ready /\ ~startError => listening
    /\ pc \in {"stop_listening", "stop_server", "stop_join"} => stopping

IInv == TypeOK /\ ActiveIsOpen /\ ConnectedHasActive /\ StartedListens /\ StartStopInv
=============================================================================
