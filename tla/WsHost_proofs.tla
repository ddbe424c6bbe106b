---------------------------- MODULE WsHost_proofs ----------------------------
(***************************************************************************)
(* Proofs about WsHost, for any number of connections and of starts.       *)
(***************************************************************************)
EXTENDS WsHost, TLAPS

\* The invariant holds at first.
LEMMA InitInv == Init => IInv
<1> SUFFICES ASSUME Init PROVE IInv
  OBVIOUS
<1>1. conn \in [Conn -> ConnState] /\ handler \in Handler
  BY DEF Init, ConnState, Handler
<1>2. dogCalls \in [DogCall -> Nat]
  BY DEF Init
<1>3. TypeOK
  BY <1>1, <1>2 DEF Init, TypeOK, IoState, UserPc
<1>4. QED
  BY <1>3 DEF Init, IInv, ActiveIsOpen, ConnectedHasActive, StartedListens, StartStopInv

\* Every step keeps every variable in its type.
LEMMA TypeStep ==
    ASSUME TypeOK, [Next]_vars
    PROVE  TypeOK'
<1> USE DEF TypeOK, ioVars, implVars
<1>1. CASE Start
  <2>1. starts' \in Nat
    BY <1>1 DEF Start
  <2>2. QED
    BY <1>1, <2>1 DEF Start, IoState, UserPc
<1>2. CASE StartAgain
  BY <1>2 DEF StartAgain
<1>3. CASE StartTimesOut
  BY <1>3 DEF StartTimesOut, UserPc
<1>4. CASE Stop
  BY <1>4 DEF Stop, UserPc
<1>5. CASE StartReturns
  BY <1>5 DEF StartReturns, UserPc
<1>6. CASE StopListening
  BY <1>6 DEF StopListening, UserPc
<1>7. CASE StopServer
  BY <1>7 DEF StopServer, UserPc
<1>8. CASE StopJoin
  BY <1>8 DEF StopJoin, IoState, UserPc
<1>9. ASSUME NEW ok \in BOOLEAN, IoListen(ok) PROVE TypeOK'
  <2>1. CASE ok
    BY <1>9, <2>1 DEF IoListen, IoState
  <2>2. CASE ~ok
    BY <1>9, <2>2 DEF IoListen, IoState
  <2>3. QED
    BY <2>1, <2>2
<1>10. ASSUME NEW c \in Conn, HandleOpen(c) PROVE TypeOK'
  <2>1. conn' \in [Conn -> ConnState]
    BY <1>10 DEF HandleOpen, ConnState
  <2>2. QED
    BY <1>10, <2>1 DEF HandleOpen, Handler
<1>11. ASSUME NEW c \in Conn, HandleFail(c) PROVE TypeOK'
  <2>1. conn' \in [Conn -> ConnState]
    BY <1>11 DEF HandleFail, ConnState
  <2>2. QED
    BY <1>11, <2>1 DEF HandleFail
<1>12. ASSUME NEW c \in Conn, HandleClose(c) PROVE TypeOK'
  <2>0. "disconnected" \in DogCall
    BY DEF DogCall
  <2>1. dogCalls' \in [DogCall -> Nat]
    BY <1>12, <2>0 DEF HandleClose
  <2>2. conn' \in [Conn -> ConnState]
    BY <1>12 DEF HandleClose, ConnState
  <2>3. QED
    BY <1>12, <2>1, <2>2 DEF HandleClose, Handler
<1>13. ASSUME NEW c \in Conn, HandleCloseReset(c) PROVE TypeOK'
  <2>1. conn' \in [Conn -> ConnState]
    BY <1>13 DEF HandleCloseReset, ConnState
  <2>2. QED
    BY <1>13, <2>1 DEF HandleCloseReset, Handler
<1>14. CASE HandlerThrows
  BY <1>14 DEF HandlerThrows, IoState, Handler
<1>15. CASE IoEnds
  BY <1>15 DEF IoEnds, IoState
<1>16. ASSUME NEW k \in DogCall, DogIsTold(k) PROVE TypeOK'
  <2>1. dogCalls' \in [DogCall -> Nat]
    BY <1>16 DEF DogIsTold
  <2>2. QED
    BY <1>16, <2>1 DEF DogIsTold
<1>17. ASSUME NEW c \in Conn, RobotConnects(c) \/ RobotDrops(c) PROVE TypeOK'
  <2>1. conn' \in [Conn -> ConnState]
    BY <1>17 DEF RobotConnects, RobotDrops, ConnState
  <2>2. QED
    BY <1>17, <2>1 DEF RobotConnects, RobotDrops
<1>18. CASE Callback
  <2>0. "connected" \in DogCall
    BY DEF DogCall
  <2>1. dogCalls' \in [DogCall -> Nat]
    BY <1>18, <2>0 DEF Callback
  <2>2. QED
    BY <1>18, <2>1 DEF Callback, Handler
<1>19. CASE UNCHANGED vars
  BY <1>19 DEF vars
<1>20. QED
  BY <1>1, <1>2, <1>3, <1>4, <1>5, <1>6, <1>7, <1>8, <1>9, <1>10, <1>11, <1>12, <1>13,
     <1>14, <1>15, <1>16, <1>17, <1>18, <1>19 DEF Next, Io, User

\* Every step keeps the invariant.
LEMMA InvStep ==
    ASSUME IInv, [Next]_vars
    PROVE  IInv'
<1>0. TypeOK'
  BY TypeStep DEF IInv
<1> USE <1>0 DEF IInv, TypeOK, ActiveIsOpen, ConnectedHasActive, StartedListens,
                 StartStopInv, ioVars, implVars
<1>1. CASE Start \/ StartAgain \/ StartTimesOut \/ Stop
  BY <1>1 DEF Start, StartAgain, StartTimesOut, Stop
<1>2. CASE User
  BY <1>2 DEF User, StartReturns, StopListening, StopServer, StopJoin
<1>3. ASSUME NEW ok \in BOOLEAN, IoListen(ok) PROVE IInv'
  BY <1>3 DEF IoListen
<1>4. ASSUME NEW c \in Conn, HandleOpen(c) PROVE IInv'
  BY <1>4 DEF HandleOpen, Conn, NoConn
<1>5. ASSUME NEW c \in Conn, HandleFail(c) PROVE IInv'
  BY <1>5 DEF HandleFail
<1>6. ASSUME NEW c \in Conn, HandleClose(c) PROVE IInv'
  BY <1>6 DEF HandleClose
<1>7. ASSUME NEW c \in Conn, HandleCloseReset(c) PROVE IInv'
  BY <1>7 DEF HandleCloseReset
<1>8. CASE Callback \/ HandlerThrows \/ IoEnds
  BY <1>8 DEF Callback, HandlerThrows, IoEnds
<1>9. ASSUME NEW k \in DogCall, DogIsTold(k) PROVE IInv'
  BY <1>9 DEF DogIsTold
<1>10. ASSUME NEW c \in Conn, RobotConnects(c) PROVE IInv'
  BY <1>10 DEF RobotConnects
<1>11. ASSUME NEW c \in Conn, RobotDrops(c) PROVE IInv'
  BY <1>11 DEF RobotDrops
<1>12. CASE UNCHANGED vars
  BY <1>12 DEF vars
<1>13. QED
  BY <1>1, <1>2, <1>3, <1>4, <1>5, <1>6, <1>7, <1>8, <1>9, <1>10, <1>11, <1>12
  DEF Next, Io

\* The invariant holds in every state.
LEMMA Invariance == Spec => []IInv
BY InitInv, InvStep, PTL DEF Spec

\* send_text never uses the handle of a connection whose close was handled, in
\* whatever order connections open, fail, close and die.
THEOREM NoStaleHandle == Spec => []ActiveIsOpen
<1>1. IInv => ActiveIsOpen
  BY DEF IInv
<1>2. QED
  BY <1>1, Invariance, PTL

\* The connected flag never stands without a handle to send to.
THEOREM FlagHasHandle == Spec => []ConnectedHasActive
<1>1. IInv => ConnectedHasActive
  BY DEF IInv
<1>2. QED
  BY <1>1, Invariance, PTL

\* A start that returns normally started a server that listens until stop.
THEOREM StartIsTrue == Spec => []StartedListens
<1>1. IInv => StartedListens
  BY DEF IInv
<1>2. QED
  BY <1>1, Invariance, PTL
=============================================================================
