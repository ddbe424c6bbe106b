---------------------------- MODULE BleLink_proofs ----------------------------
(***************************************************************************)
(* Proofs about BleLink, for any threads, retries and number of calls.     *)
(***************************************************************************)
EXTENDS BleLink, TLAPS

-----------------------------------------------------------------------------
(***************************************************************************)
(* The inductive invariants behind the properties.  The second one needs   *)
(* that a connect never overlaps another call, the third one needs that    *)
(* none of the three misuses happened.                                     *)
(***************************************************************************)

\* The places of connect_once between its first line and its last one.
Building == {"open", "discover", "ae02", "ae02_cccd", "ae04", "ae04_cccd", "connected"}
\* The places of the call that joins the heartbeat and sends the exit message.
Leaving == {"join", "send", "sent"}
Fields == {"ae02", "ae02_cccd", "ae04", "ae04_cccd", "connected"}

\* Where a call can be says which call it is.
PlaceInv ==
    \A t \in Callers :
        /\ pc[t] \in Building \cup {"enter"} => op[t] = "connect"
        /\ pc[t] \in {"exit"} \cup Leaving => op[t] = "disconnect"

\* Two calls under way at once are two disconnects.
Apart ==
    \A t, u \in Callers :
        (t # u /\ pc[t] # "idle" /\ pc[u] # "idle")
            => op[t] = "disconnect" /\ op[u] = "disconnect"

Known == \A h \in handlers : field[h[1]] = h[2] /\ token[h[1]] = h[2]

\* A disconnect has removed every handler before it clears the fields.
Silent == \A t \in Callers : pc[t] \in {"clear", "open", "discover"} => handlers = {}

Blank ==
    \A t \in Callers : pc[t] \in {"open", "discover"} => \A c \in Chars : field[c] = NoObject

\* What one discovery found.
OneDiscovery ==
    /\ field["write"] # NoObject
    /\ \A c \in Chars : field[c] \in {opens, NoObject}

Heard(c) == field[c] # NoObject => <<c, field[c]>> \in handlers

Progress ==
    \A t \in Callers :
        /\ pc[t] \in Building => ~connected
        /\ pc[t] \in Fields => OneDiscovery
        /\ pc[t] \in {"ae02_cccd", "ae04", "ae04_cccd", "connected"} => Heard("notify")
        /\ pc[t] \in {"ae04_cccd", "connected"} => Heard("sensor")

Whole ==
    (connected /\ \A t \in Callers : pc[t] # "clear")
        => OneDiscovery /\ Heard("notify") /\ Heard("sensor")

LinkInv == ~overlapped => Apart /\ Known /\ Silent /\ Blank /\ Progress /\ Whole

\* While a heartbeat thread lives every call is still on its way to join it,
\* and the thread is owned by the session or by the call that joins it.  While
\* the session is on no disconnect has got beyond exit_edu_mode, and while a
\* call leaves the session the others wait or are about to.  A copy is the
\* characteristic in use.
HbInv ==
    ~(reconnected \/ overlapped \/ doubled) =>
        /\ hb # "none" => \A t \in Callers : pc[t] \in {"idle", "exit", "join"}
        /\ hb # "none" => session \/ \E t \in Callers : pc[t] = "join"
        /\ session => \A t \in Callers : op[t] = "disconnect" => pc[t] \in {"idle", "exit"}
        /\ \A t, u \in Callers :
              pc[t] \in Leaving /\ u # t => pc[u] \in {"idle", "exit"}
        /\ hb = "writing" => hbChar = field["write"]
        /\ \A t \in Callers : pc[t] = "sent" => exitChar[t] = field["write"]
        /\ ~raced /\ ~stale

-----------------------------------------------------------------------------
\* Every step keeps every variable in its type, and the mutex with its owner.
LEMMA TypeStep ==
    ASSUME TypeOK, [Next]_vars
    PROVE  TypeOK'
  <1> USE LinkAssumption DEF TypeOK, Goto, Objects, LinkPc, Chars, Notifying, linkVars, callVars,
                             hbVars, pastVars
  <1>1. ASSUME NEW t \in Callers, CallConnect(t) PROVE TypeOK'
    BY <1>1 DEF CallConnect
  <1>2. ASSUME NEW t \in Callers, CallDisconnect(t) PROVE TypeOK'
    BY <1>2 DEF CallDisconnect
  <1>3. ASSUME NEW t \in Callers, Exit(t) PROVE TypeOK'
    <2>1. pc' \in [Callers -> LinkPc]
      BY <1>3 DEF Exit
    <2>2. \A u \in Callers : pc'[u] \in {"revoke", "clear"} <=> pc[u] \in {"revoke", "clear"}
      BY <1>3 DEF Exit
    <2>3. session' \in BOOLEAN /\ doubled' \in BOOLEAN
      BY <1>3 DEF Exit
    <2> HIDE DEF LinkPc
    <2> QED BY <1>3, <2>1, <2>2, <2>3 DEF Exit
  <1>4. ASSUME NEW t \in Callers, Join(t) PROVE TypeOK'
    BY <1>4 DEF Join
  <1>5. ASSUME NEW t \in Callers, Lock(t) PROVE TypeOK'
    BY <1>5 DEF Lock
  <1>6. ASSUME NEW t \in Callers, Revoke(t) PROVE TypeOK'
    BY <1>6 DEF Revoke
  <1>7. ASSUME NEW t \in Callers, Clear(t) PROVE TypeOK'
    <2>1. owner = t /\ owner' = NoObject /\ pc'[t] \in {"open", "idle"}
      BY <1>7 DEF Clear
    <2>2. \A u \in Callers : (pc'[u] \in {"revoke", "clear"}) <=> (owner' = u)
      BY <1>7, <2>1 DEF Clear
    <2>3. pc' \in [Callers -> LinkPc]
      BY <1>7 DEF Clear
    <2>4. field' \in [Chars -> Objects] /\ device' = FALSE /\ connected' = FALSE
      BY <1>7 DEF Clear
    <2>5. /\ token' = token /\ handlers' = handlers /\ op' = op /\ attempt' = attempt
      /\ session' = session /\ hb' = hb /\ hbChar' = hbChar /\ exitChar' = exitChar /\ hb' = hb /\ hbChar' = hbChar
          /\ opens' = opens /\ calls' = calls
      BY <1>7 DEF Clear
    <2>6. /\ reconnected' = reconnected /\ overlapped' = overlapped /\ doubled' = doubled
          /\ raced' = raced /\ stale' = stale
      BY <1>7 DEF Clear
    <2> HIDE DEF Objects, LinkPc, Chars, Notifying
    <2> QED BY <2>1, <2>2, <2>3, <2>4, <2>5, <2>6
  <1>8. ASSUME NEW t \in Callers, Open(t) PROVE TypeOK'
    <2>1. CASE Fail(t)
      <3>1. attempt' \in [Callers -> Nat] /\ pc' \in [Callers -> LinkPc]
        BY <2>1 DEF Fail
      <3>2. \A u \in Callers : pc'[u] \in {"revoke", "clear"} <=> pc[u] \in {"revoke", "clear"}
        BY <1>8, <2>1 DEF Open, Fail
      <3>3. device' \in BOOLEAN
        BY <1>8 DEF Open
      <3> QED BY <1>8, <3>1, <3>2, <3>3 DEF Open
    <2>2. CASE ~Fail(t)
      <3>1. attempt' = attempt /\ device' \in BOOLEAN
        BY <1>8, <2>2 DEF Open
      <3>2. pc' \in [Callers -> LinkPc]
        BY <1>8, <2>2 DEF Open
      <3>3. \A u \in Callers : pc'[u] \in {"revoke", "clear"} <=> pc[u] \in {"revoke", "clear"}
        BY <1>8, <2>2 DEF Open
      <3> HIDE DEF LinkPc, Fail
      <3> QED BY <1>8, <3>1, <3>2, <3>3 DEF Open
    <2> QED BY <2>1, <2>2
  <1>9. ASSUME NEW t \in Callers, Discover(t) PROVE TypeOK'
    BY <1>9 DEF Discover, Fail
  <1>10. ASSUME NEW t \in Callers, Subscribe(t, "notify", "ae02", "ae02_cccd", "ae04")
         PROVE  TypeOK'
    BY <1>10 DEF Subscribe
  <1>11. ASSUME NEW t \in Callers, Cccd(t, "ae02_cccd", "ae04") PROVE TypeOK'
    BY <1>11 DEF Cccd, Fail
  <1>12. ASSUME NEW t \in Callers, Subscribe(t, "sensor", "ae04", "ae04_cccd", "connected")
         PROVE  TypeOK'
    BY <1>12 DEF Subscribe
  <1>13. ASSUME NEW t \in Callers, Cccd(t, "ae04_cccd", "connected") PROVE TypeOK'
    BY <1>13 DEF Cccd, Fail
  <1>14. ASSUME NEW t \in Callers, SetConnected(t) PROVE TypeOK'
    BY <1>14 DEF SetConnected
  <1>15. ASSUME NEW t \in Callers, Enter(t) PROVE TypeOK'
    BY <1>15 DEF Enter
  <1>16. CASE HbCopy
    BY <1>16 DEF HbCopy, Copied
  <1>17. CASE HbWrite
    BY <1>17 DEF HbWrite
  <1>18. CASE UNCHANGED vars
    BY <1>18 DEF vars, linkVars, callVars, hbVars, pastVars
  <1>19. ASSUME NEW t \in Callers, SendExit(t) PROVE TypeOK'
    BY <1>19 DEF SendExit, Copied, Assigning
  <1>20. ASSUME NEW t \in Callers, WriteExit(t) PROVE TypeOK'
    BY <1>20 DEF WriteExit
  <1> QED BY <1>1, <1>2, <1>3, <1>4, <1>5, <1>6, <1>7, <1>8, <1>9, <1>10, <1>11, <1>12,
             <1>13, <1>14, <1>15, <1>16, <1>17, <1>18, <1>19, <1>20 DEF Next

\* Every variable starts in its type.
LEMMA InitType == Init => TypeOK
  <1> SUFFICES ASSUME Init PROVE TypeOK
    OBVIOUS
  <1>1. \A t \in Callers : (pc[t] \in {"revoke", "clear"}) <=> (owner = t)
    BY LinkAssumption DEF Init
  <1>2. field \in [Chars -> Objects] /\ token \in [Notifying -> Objects]
    BY DEF Init, Objects
  <1>3. pc \in [Callers -> LinkPc]
    BY DEF Init, LinkPc
  <1> QED BY <1>1, <1>2, <1>3 DEF Init, TypeOK, Objects

\* Type correctness, with the mutex held exactly by the thread that revokes
\* and clears, for any threads, retries and calls.
THEOREM TypeCorrect == Spec => []TypeOK
  BY InitType, TypeStep, PTL DEF Spec

-----------------------------------------------------------------------------
\* A caller in connect_once or in enter_edu_mode runs a connect.
LEMMA PlaceStep ==
    ASSUME TypeOK, PlaceInv, [Next]_vars
    PROVE  PlaceInv'
  <1> USE DEF TypeOK, PlaceInv, Building, Leaving, Goto, linkVars, callVars, hbVars, pastVars
  <1>1. ASSUME NEW t \in Callers, CallConnect(t) PROVE PlaceInv'
    BY <1>1 DEF CallConnect
  <1>2. ASSUME NEW t \in Callers, CallDisconnect(t) PROVE PlaceInv'
    BY <1>2 DEF CallDisconnect
  <1>3. ASSUME NEW t \in Callers, Exit(t) PROVE PlaceInv'
    BY <1>3 DEF Exit
  <1>4. ASSUME NEW t \in Callers, Join(t) PROVE PlaceInv'
    BY <1>4 DEF Join
  <1>5. ASSUME NEW t \in Callers, Lock(t) PROVE PlaceInv'
    BY <1>5 DEF Lock
  <1>6. ASSUME NEW t \in Callers, Revoke(t) PROVE PlaceInv'
    BY <1>6 DEF Revoke
  <1>7. ASSUME NEW t \in Callers, Clear(t) PROVE PlaceInv'
    BY <1>7 DEF Clear
  <1>8. ASSUME NEW t \in Callers, Open(t) PROVE PlaceInv'
    BY <1>8 DEF Open, Fail
  <1>9. ASSUME NEW t \in Callers, Discover(t) PROVE PlaceInv'
    BY <1>9 DEF Discover, Fail
  <1>10. ASSUME NEW t \in Callers, Subscribe(t, "notify", "ae02", "ae02_cccd", "ae04")
         PROVE  PlaceInv'
    BY <1>10 DEF Subscribe
  <1>11. ASSUME NEW t \in Callers, Cccd(t, "ae02_cccd", "ae04") PROVE PlaceInv'
    BY <1>11 DEF Cccd, Fail
  <1>12. ASSUME NEW t \in Callers, Subscribe(t, "sensor", "ae04", "ae04_cccd", "connected")
         PROVE  PlaceInv'
    BY <1>12 DEF Subscribe
  <1>13. ASSUME NEW t \in Callers, Cccd(t, "ae04_cccd", "connected") PROVE PlaceInv'
    BY <1>13 DEF Cccd, Fail
  <1>14. ASSUME NEW t \in Callers, SetConnected(t) PROVE PlaceInv'
    BY <1>14 DEF SetConnected
  <1>15. ASSUME NEW t \in Callers, Enter(t) PROVE PlaceInv'
    BY <1>15 DEF Enter
  <1>16. CASE HbCopy
    BY <1>16 DEF HbCopy
  <1>17. CASE HbWrite
    BY <1>17 DEF HbWrite
  <1>18. CASE UNCHANGED vars
    BY <1>18 DEF vars, linkVars, callVars, hbVars, pastVars
  <1>19. ASSUME NEW t \in Callers, SendExit(t) PROVE PlaceInv'
    BY <1>19 DEF SendExit
  <1>20. ASSUME NEW t \in Callers, WriteExit(t) PROVE PlaceInv'
    BY <1>20 DEF WriteExit
  <1> QED BY <1>1, <1>2, <1>3, <1>4, <1>5, <1>6, <1>7, <1>8, <1>9, <1>10, <1>11, <1>12,
             <1>13, <1>14, <1>15, <1>16, <1>17, <1>18, <1>19, <1>20 DEF Next

\* Two calls that run at once are disconnects, until a connect overlaps.
LEMMA ApartStep ==
    ASSUME TypeOK, PlaceInv, Apart, ~overlapped', [Next]_vars
    PROVE  Apart'
  <1> USE DEF TypeOK, PlaceInv, Leaving, Apart, Building, Goto, linkVars, callVars, hbVars, pastVars
  <1>1. ASSUME NEW t \in Callers, CallConnect(t) PROVE Apart'
    BY <1>1 DEF CallConnect, Overlaps
  <1>2. ASSUME NEW t \in Callers, CallDisconnect(t) PROVE Apart'
    <2>1. \A u \in Callers : pc[u] # "idle" => op[u] # "connect"
      BY <1>2 DEF CallDisconnect, Overlaps
    <2>2. \A u \in Callers : pc'[u] # "idle" => op'[u] = "disconnect"
      BY <1>2, <2>1 DEF CallDisconnect
    <2> QED BY <2>2
  <1>3. ASSUME NEW t \in Callers, Exit(t) PROVE Apart'
    BY <1>3 DEF Exit
  <1>4. ASSUME NEW t \in Callers, Join(t) PROVE Apart'
    BY <1>4 DEF Join
  <1>5. ASSUME NEW t \in Callers, Lock(t) PROVE Apart'
    BY <1>5 DEF Lock
  <1>6. ASSUME NEW t \in Callers, Revoke(t) PROVE Apart'
    BY <1>6 DEF Revoke
  <1>7. ASSUME NEW t \in Callers, Clear(t) PROVE Apart'
    BY <1>7 DEF Clear
  <1>8. ASSUME NEW t \in Callers, Open(t) PROVE Apart'
    BY <1>8 DEF Open, Fail
  <1>9. ASSUME NEW t \in Callers, Discover(t) PROVE Apart'
    BY <1>9 DEF Discover, Fail
  <1>10. ASSUME NEW t \in Callers, Subscribe(t, "notify", "ae02", "ae02_cccd", "ae04")
         PROVE  Apart'
    BY <1>10 DEF Subscribe
  <1>11. ASSUME NEW t \in Callers, Cccd(t, "ae02_cccd", "ae04") PROVE Apart'
    BY <1>11 DEF Cccd, Fail
  <1>12. ASSUME NEW t \in Callers, Subscribe(t, "sensor", "ae04", "ae04_cccd", "connected")
         PROVE  Apart'
    BY <1>12 DEF Subscribe
  <1>13. ASSUME NEW t \in Callers, Cccd(t, "ae04_cccd", "connected") PROVE Apart'
    BY <1>13 DEF Cccd, Fail
  <1>14. ASSUME NEW t \in Callers, SetConnected(t) PROVE Apart'
    BY <1>14 DEF SetConnected
  <1>15. ASSUME NEW t \in Callers, Enter(t) PROVE Apart'
    BY <1>15 DEF Enter
  <1>16. CASE HbCopy
    BY <1>16 DEF HbCopy
  <1>17. CASE HbWrite
    BY <1>17 DEF HbWrite
  <1>18. CASE UNCHANGED vars
    BY <1>18 DEF vars
  <1>19. ASSUME NEW t \in Callers, SendExit(t) PROVE Apart'
    BY <1>19 DEF SendExit
  <1>20. ASSUME NEW t \in Callers, WriteExit(t) PROVE Apart'
    BY <1>20 DEF WriteExit
  <1> QED BY <1>1, <1>2, <1>3, <1>4, <1>5, <1>6, <1>7, <1>8, <1>9, <1>10, <1>11, <1>12,
             <1>13, <1>14, <1>15, <1>16, <1>17, <1>18, <1>19, <1>20 DEF Next

\* Handlers come with their token and field and go before the fields do.
LEMMA KnownStep ==
    ASSUME TypeOK, PlaceInv, Apart, Known, Silent, Blank, ~overlapped', [Next]_vars
    PROVE  (Known /\ Silent /\ Blank)'
  <1> USE DEF TypeOK, PlaceInv, Leaving, Apart, Known, Silent, Blank, Building, Chars, Notifying,
              Goto, linkVars, callVars, hbVars, pastVars
  <1>1. ASSUME NEW t \in Callers, CallConnect(t) PROVE (Known /\ Silent /\ Blank)'
    BY <1>1 DEF CallConnect, Overlaps
  <1>2. ASSUME NEW t \in Callers, CallDisconnect(t) PROVE (Known /\ Silent /\ Blank)'
    BY <1>2 DEF CallDisconnect, Overlaps
  <1>3. ASSUME NEW t \in Callers, Exit(t) PROVE (Known /\ Silent /\ Blank)'
    BY <1>3 DEF Exit
  <1>4. ASSUME NEW t \in Callers, Join(t) PROVE (Known /\ Silent /\ Blank)'
    BY <1>4 DEF Join
  <1>5. ASSUME NEW t \in Callers, Lock(t) PROVE (Known /\ Silent /\ Blank)'
    BY <1>5 DEF Lock
  <1>6. ASSUME NEW t \in Callers, Revoke(t) PROVE (Known /\ Silent /\ Blank)'
    BY <1>6 DEF Revoke
  <1>7. ASSUME NEW t \in Callers, Clear(t) PROVE (Known /\ Silent /\ Blank)'
    BY <1>7 DEF Clear
  <1>8. ASSUME NEW t \in Callers, Open(t) PROVE (Known /\ Silent /\ Blank)'
    BY <1>8 DEF Open, Fail
  <1>9. ASSUME NEW t \in Callers, Discover(t) PROVE (Known /\ Silent /\ Blank)'
    BY <1>9 DEF Discover, Fail
  <1>10. ASSUME NEW t \in Callers, Subscribe(t, "notify", "ae02", "ae02_cccd", "ae04")
         PROVE  (Known /\ Silent /\ Blank)'
    BY <1>10 DEF Subscribe
  <1>11. ASSUME NEW t \in Callers, Cccd(t, "ae02_cccd", "ae04")
         PROVE  (Known /\ Silent /\ Blank)'
    BY <1>11 DEF Cccd, Fail
  <1>12. ASSUME NEW t \in Callers, Subscribe(t, "sensor", "ae04", "ae04_cccd", "connected")
         PROVE  (Known /\ Silent /\ Blank)'
    BY <1>12 DEF Subscribe
  <1>13. ASSUME NEW t \in Callers, Cccd(t, "ae04_cccd", "connected")
         PROVE  (Known /\ Silent /\ Blank)'
    BY <1>13 DEF Cccd, Fail
  <1>14. ASSUME NEW t \in Callers, SetConnected(t) PROVE (Known /\ Silent /\ Blank)'
    BY <1>14 DEF SetConnected
  <1>15. ASSUME NEW t \in Callers, Enter(t) PROVE (Known /\ Silent /\ Blank)'
    BY <1>15 DEF Enter
  <1>16. CASE HbCopy
    BY <1>16 DEF HbCopy
  <1>17. CASE HbWrite
    BY <1>17 DEF HbWrite
  <1>18. CASE UNCHANGED vars
    BY <1>18 DEF vars
  <1>19. ASSUME NEW t \in Callers, SendExit(t) PROVE (Known /\ Silent /\ Blank)'
    BY <1>19 DEF SendExit
  <1>20. ASSUME NEW t \in Callers, WriteExit(t) PROVE (Known /\ Silent /\ Blank)'
    BY <1>20 DEF WriteExit
  <1> QED BY <1>1, <1>2, <1>3, <1>4, <1>5, <1>6, <1>7, <1>8, <1>9, <1>10, <1>11, <1>12,
             <1>13, <1>14, <1>15, <1>16, <1>17, <1>18, <1>19, <1>20 DEF Next

\* A connect gathers its characteristics and handlers with connected false.
LEMMA ProgressStep ==
    ASSUME TypeOK, PlaceInv, Apart, Blank, Progress, ~overlapped', [Next]_vars
    PROVE  Progress'
  <1> USE DEF TypeOK, PlaceInv, Leaving, Apart, Blank, Progress, Building, Fields, OneDiscovery,
              Heard, Chars, Notifying, Goto, linkVars, callVars, hbVars, pastVars
  <1>1. ASSUME NEW t \in Callers, CallConnect(t) PROVE Progress'
    BY <1>1 DEF CallConnect, Overlaps
  <1>2. ASSUME NEW t \in Callers, CallDisconnect(t) PROVE Progress'
    BY <1>2 DEF CallDisconnect, Overlaps
  <1>3. ASSUME NEW t \in Callers, Exit(t) PROVE Progress'
    BY <1>3 DEF Exit
  <1>4. ASSUME NEW t \in Callers, Join(t) PROVE Progress'
    BY <1>4 DEF Join
  <1>5. ASSUME NEW t \in Callers, Lock(t) PROVE Progress'
    BY <1>5 DEF Lock
  <1>6. ASSUME NEW t \in Callers, Revoke(t) PROVE Progress'
    BY <1>6 DEF Revoke
  <1>7. ASSUME NEW t \in Callers, Clear(t) PROVE Progress'
    BY <1>7 DEF Clear
  <1>8. ASSUME NEW t \in Callers, Open(t) PROVE Progress'
    BY <1>8 DEF Open, Fail
  <1>9. ASSUME NEW t \in Callers, Discover(t) PROVE Progress'
    BY <1>9 DEF Discover, Fail
  <1>10. ASSUME NEW t \in Callers, Subscribe(t, "notify", "ae02", "ae02_cccd", "ae04")
         PROVE  Progress'
    BY <1>10 DEF Subscribe
  <1>11. ASSUME NEW t \in Callers, Cccd(t, "ae02_cccd", "ae04") PROVE Progress'
    BY <1>11 DEF Cccd, Fail
  <1>12. ASSUME NEW t \in Callers, Subscribe(t, "sensor", "ae04", "ae04_cccd", "connected")
         PROVE  Progress'
    BY <1>12 DEF Subscribe
  <1>13. ASSUME NEW t \in Callers, Cccd(t, "ae04_cccd", "connected") PROVE Progress'
    BY <1>13 DEF Cccd, Fail
  <1>14. ASSUME NEW t \in Callers, SetConnected(t) PROVE Progress'
    BY <1>14 DEF SetConnected
  <1>15. ASSUME NEW t \in Callers, Enter(t) PROVE Progress'
    BY <1>15 DEF Enter
  <1>16. CASE HbCopy
    BY <1>16 DEF HbCopy
  <1>17. CASE HbWrite
    BY <1>17 DEF HbWrite
  <1>18. CASE UNCHANGED vars
    BY <1>18 DEF vars
  <1>19. ASSUME NEW t \in Callers, SendExit(t) PROVE Progress'
    BY <1>19 DEF SendExit
  <1>20. ASSUME NEW t \in Callers, WriteExit(t) PROVE Progress'
    BY <1>20 DEF WriteExit
  <1> QED BY <1>1, <1>2, <1>3, <1>4, <1>5, <1>6, <1>7, <1>8, <1>9, <1>10, <1>11, <1>12,
             <1>13, <1>14, <1>15, <1>16, <1>17, <1>18, <1>19, <1>20 DEF Next

\* connected is set on a whole link and cleared before the next discovery.
LEMMA WholeStep ==
    ASSUME TypeOK, PlaceInv, Apart, Progress, Whole, ~overlapped', [Next]_vars
    PROVE  Whole'
  <1> USE DEF TypeOK, PlaceInv, Leaving, Apart, Progress, Whole, Building, Fields, OneDiscovery,
              Heard, Chars, Notifying, Goto, linkVars, callVars, hbVars, pastVars
  <1>1. ASSUME NEW t \in Callers, CallConnect(t) PROVE Whole'
    BY <1>1 DEF CallConnect, Overlaps
  <1>2. ASSUME NEW t \in Callers, CallDisconnect(t) PROVE Whole'
    BY <1>2 DEF CallDisconnect, Overlaps
  <1>3. ASSUME NEW t \in Callers, Exit(t) PROVE Whole'
    BY <1>3 DEF Exit
  <1>4. ASSUME NEW t \in Callers, Join(t) PROVE Whole'
    BY <1>4 DEF Join
  <1>5. ASSUME NEW t \in Callers, Lock(t) PROVE Whole'
    BY <1>5 DEF Lock
  <1>6. ASSUME NEW t \in Callers, Revoke(t) PROVE Whole'
    BY <1>6 DEF Revoke
  <1>7. ASSUME NEW t \in Callers, Clear(t) PROVE Whole'
    BY <1>7 DEF Clear
  <1>8. ASSUME NEW t \in Callers, Open(t) PROVE Whole'
    BY <1>8 DEF Open, Fail
  <1>9. ASSUME NEW t \in Callers, Discover(t) PROVE Whole'
    BY <1>9 DEF Discover, Fail
  <1>10. ASSUME NEW t \in Callers, Subscribe(t, "notify", "ae02", "ae02_cccd", "ae04")
         PROVE  Whole'
    BY <1>10 DEF Subscribe
  <1>11. ASSUME NEW t \in Callers, Cccd(t, "ae02_cccd", "ae04") PROVE Whole'
    BY <1>11 DEF Cccd, Fail
  <1>12. ASSUME NEW t \in Callers, Subscribe(t, "sensor", "ae04", "ae04_cccd", "connected")
         PROVE  Whole'
    BY <1>12 DEF Subscribe
  <1>13. ASSUME NEW t \in Callers, Cccd(t, "ae04_cccd", "connected") PROVE Whole'
    BY <1>13 DEF Cccd, Fail
  <1>14. ASSUME NEW t \in Callers, SetConnected(t) PROVE Whole'
    BY <1>14 DEF SetConnected
  <1>15. ASSUME NEW t \in Callers, Enter(t) PROVE Whole'
    BY <1>15 DEF Enter
  <1>16. CASE HbCopy
    BY <1>16 DEF HbCopy
  <1>17. CASE HbWrite
    BY <1>17 DEF HbWrite
  <1>18. CASE UNCHANGED vars
    BY <1>18 DEF vars
  <1>19. ASSUME NEW t \in Callers, SendExit(t) PROVE Whole'
    BY <1>19 DEF SendExit
  <1>20. ASSUME NEW t \in Callers, WriteExit(t) PROVE Whole'
    BY <1>20 DEF WriteExit
  <1> QED BY <1>1, <1>2, <1>3, <1>4, <1>5, <1>6, <1>7, <1>8, <1>9, <1>10, <1>11, <1>12,
             <1>13, <1>14, <1>15, <1>16, <1>17, <1>18, <1>19, <1>20 DEF Next

\* What happened stays in the history.
LEMMA PastStays ==
    ASSUME TypeOK, [Next]_vars
    PROVE  /\ overlapped => overlapped'
           /\ reconnected => reconnected'
           /\ doubled => doubled'
  BY DEF Next, vars, linkVars, callVars, hbVars, pastVars, CallConnect, CallDisconnect, Exit, Join,
         SendExit, WriteExit, Lock, Revoke, Clear, Open, Discover, Subscribe, Cccd, SetConnected, Enter, HbCopy, HbWrite,
         TypeOK

\* Without a misuse no heartbeat thread lives while the fields are assigned.
LEMMA HbStep ==
    ASSUME TypeOK, PlaceInv, LinkInv, HbInv, [Next]_vars
    PROVE  HbInv'
  <1> USE DEF TypeOK, PlaceInv, LinkInv, Apart, HbInv, Building, Leaving, Goto, linkVars, callVars,
              hbVars, pastVars
  <1>1. ASSUME NEW t \in Callers, CallConnect(t) PROVE HbInv'
    BY <1>1 DEF CallConnect, Overlaps
  <1>2. ASSUME NEW t \in Callers, CallDisconnect(t) PROVE HbInv'
    BY <1>2 DEF CallDisconnect, Overlaps
  <1>3. ASSUME NEW t \in Callers, Exit(t) PROVE HbInv'
    <2>1. UNCHANGED <<field, op, hb, hbChar, exitChar, reconnected, overlapped, raced, stale>>
      BY <1>3 DEF Exit
    <2>2. /\ pc[t] = "exit" /\ session' = FALSE
          /\ pc' = [pc EXCEPT ![t] = IF session THEN "join" ELSE "lock"]
          /\ doubled' = (doubled \/ \E u \in Callers : pc[u] \in Leaving)
      BY <1>3 DEF Exit
    <2>3. /\ pc'[t] = IF session THEN "join" ELSE "lock"
          /\ \A u \in Callers : u # t => pc'[u] = pc[u]
      BY <2>2
    <2>4. SUFFICES ASSUME ~(reconnected \/ overlapped \/ doubled),
                          \A u \in Callers : pc[u] \notin Leaving
                   PROVE  HbInv'
      BY <2>1, <2>2
    <2>5. \A u \in Callers : u # t /\ session => pc[u] \in {"idle", "exit"}
      BY <2>2, <2>4
    <2>6. session \/ hb = "none"
      BY <2>4
    <2>7. QED
      BY <2>1, <2>2, <2>3, <2>4, <2>5, <2>6
  <1>4. ASSUME NEW t \in Callers, Join(t) PROVE HbInv'
    BY <1>4 DEF Join
  <1>5. ASSUME NEW t \in Callers, Lock(t) PROVE HbInv'
    BY <1>5 DEF Lock
  <1>6. ASSUME NEW t \in Callers, Revoke(t) PROVE HbInv'
    BY <1>6 DEF Revoke
  <1>7. ASSUME NEW t \in Callers, Clear(t) PROVE HbInv'
    BY <1>7 DEF Clear
  <1>8. ASSUME NEW t \in Callers, Open(t) PROVE HbInv'
    BY <1>8 DEF Open, Fail
  <1>9. ASSUME NEW t \in Callers, Discover(t) PROVE HbInv'
    BY <1>9 DEF Discover, Fail
  <1>10. ASSUME NEW t \in Callers, Subscribe(t, "notify", "ae02", "ae02_cccd", "ae04")
         PROVE  HbInv'
    BY <1>10 DEF Subscribe
  <1>11. ASSUME NEW t \in Callers, Cccd(t, "ae02_cccd", "ae04") PROVE HbInv'
    BY <1>11 DEF Cccd, Fail
  <1>12. ASSUME NEW t \in Callers, Subscribe(t, "sensor", "ae04", "ae04_cccd", "connected")
         PROVE  HbInv'
    BY <1>12 DEF Subscribe
  <1>13. ASSUME NEW t \in Callers, Cccd(t, "ae04_cccd", "connected") PROVE HbInv'
    BY <1>13 DEF Cccd, Fail
  <1>14. ASSUME NEW t \in Callers, SetConnected(t) PROVE HbInv'
    BY <1>14 DEF SetConnected
  <1>15. ASSUME NEW t \in Callers, Enter(t) PROVE HbInv'
    BY <1>15 DEF Enter
  <1>16. CASE HbCopy
    BY <1>16 DEF HbCopy, Copied, Assigning
  <1>17. CASE HbWrite
    BY <1>17 DEF HbWrite, Dead
  <1>18. CASE UNCHANGED vars
    BY <1>18 DEF vars
  <1>19. ASSUME NEW t \in Callers, SendExit(t) PROVE HbInv'
    BY <1>19 DEF SendExit, Copied, Assigning
  <1>20. ASSUME NEW t \in Callers, WriteExit(t) PROVE HbInv'
    BY <1>20 DEF WriteExit, Dead
  <1> QED BY <1>1, <1>2, <1>3, <1>4, <1>5, <1>6, <1>7, <1>8, <1>9, <1>10, <1>11, <1>12,
             <1>13, <1>14, <1>15, <1>16, <1>17, <1>18, <1>19, <1>20 DEF Next

-----------------------------------------------------------------------------
\* All of it.
Inv == TypeOK /\ PlaceInv /\ LinkInv /\ HbInv

\* The lemmas above together, as long as no connect overlaps a call.
LEMMA LinkStep ==
    ASSUME TypeOK, PlaceInv, LinkInv, [Next]_vars
    PROVE  LinkInv'
  <1> SUFFICES ASSUME ~overlapped'
               PROVE  (Apart /\ Known /\ Silent /\ Blank /\ Progress /\ Whole)'
    BY DEF LinkInv
  <1>1. Apart /\ Known /\ Silent /\ Blank /\ Progress /\ Whole
    BY PastStays DEF LinkInv
  <1>2. Apart'
    BY <1>1, ApartStep
  <1>3. (Known /\ Silent /\ Blank)'
    BY <1>1, KnownStep
  <1>4. Progress'
    BY <1>1, ProgressStep
  <1>5. Whole'
    BY <1>1, WholeStep
  <1> QED BY <1>2, <1>3, <1>4, <1>5

\* The invariant holds in every reachable state.
LEMMA Invariance == Spec => []Inv
  <1>1. Init => Inv
    <2> SUFFICES ASSUME Init PROVE Inv
      OBVIOUS
    <2>1. TypeOK
      BY InitType
    <2>2. PlaceInv
      BY DEF Init, PlaceInv, Building, Leaving
    <2>3. Apart /\ Known /\ Silent /\ Blank
      BY DEF Init, Apart, Known, Silent, Blank
    <2>4. Progress /\ Whole
      BY DEF Init, Progress, Whole, Building, Fields
    <2>5. HbInv
      BY DEF Init, HbInv, Leaving
    <2> QED BY <2>1, <2>2, <2>3, <2>4, <2>5 DEF Inv, LinkInv
  <1>2. Inv /\ [Next]_vars => Inv'
    BY TypeStep, PlaceStep, LinkStep, HbStep DEF Inv
  <1> QED BY <1>1, <1>2, PTL DEF Spec

\* Whatever fails in any connect, every live handler is the one its field and
\* its token name (HandlersAreKnown), so the next disconnect removes it.
THEOREM NoOrphanHandler == Spec => []HandlersAreKnown
  <1>1. Inv => HandlersAreKnown
    BY DEF Inv, LinkInv, Known, HandlersAreKnown
  <1> QED BY <1>1, Invariance, PTL

\* A connected transport has one discovery's characteristics, its handlers
\* registered (ConnectedIsWhole).
THEOREM ConnectedMeansWhole == Spec => []ConnectedIsWhole
  <1>1. Inv => ConnectedIsWhole
    <2> SUFFICES ASSUME Inv, ~overlapped, connected, owner = NoObject
                 PROVE  OneDiscovery /\ Heard("notify") /\ Heard("sensor")
      BY DEF ConnectedIsWhole, OneDiscovery, Heard, Notifying
    <2>1. \A t \in Callers : pc[t] # "clear"
      BY LinkAssumption DEF Inv, TypeOK
    <2> QED BY <2>1 DEF Inv, LinkInv, Whole
  <1> QED BY <1>1, Invariance, PTL

\* Without one of three misuses neither the heartbeat nor an exit message meets
\* a characteristic that is being assigned, or a dead one (RaceIsMisuse).
THEOREM RacesAreMisuse == Spec => []RaceIsMisuse
  <1>1. Inv => RaceIsMisuse
    BY DEF Inv, HbInv, RaceIsMisuse
  <1> QED BY <1>1, Invariance, PTL
=============================================================================
