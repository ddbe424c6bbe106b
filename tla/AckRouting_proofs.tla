-------------------------- MODULE AckRouting_proofs --------------------------
(***************************************************************************)
(* Proofs about AckRouting for any number of threads and commands: the     *)
(* type invariant, AcceptedById, and OwnUnlessOverlapped with its          *)
(* corollary for a single sender.                                          *)
(***************************************************************************)
EXTENDS AckRouting, TLAPS

\* What handle_text does to the map of acknowledgements.
LEMMA AcksFiled ==
    ASSUME TypeOK, NEW c \in unanswered, NEW ok \in BOOLEAN, HandleAck(c, ok)
    PROVE  /\ DOMAIN acks' = DOMAIN acks \cup {c.id}
           /\ acks' \in [DOMAIN acks' -> Ack]
           /\ acks'[c.id] = [ok |-> ok, no |-> c.no]
           /\ \A i \in DOMAIN acks : i # c.id => acks'[i] = acks[i]
           /\ DOMAIN acks' \subseteq Id
           /\ c.no \in Nat
<1>1. c.id \in Id /\ c.no \in Nat
  BY DEF TypeOK, Command
<1>2. acks' = [i \in DOMAIN acks \cup {c.id} |->
                 IF i = c.id THEN [ok |-> ok, no |-> c.no] ELSE acks[i]]
  BY DEF HandleAck
<1>3. [ok |-> ok, no |-> c.no] \in Ack
  BY <1>1 DEF Ack
<1>4. acks \in [DOMAIN acks -> Ack] /\ DOMAIN acks \subseteq Id
  BY DEF TypeOK
<1>5. DOMAIN acks' = DOMAIN acks \cup {c.id}
  BY <1>2
<1>6. DOMAIN acks' \subseteq Id
  BY <1>1, <1>4, <1>5
<1>7. acks' \in [DOMAIN acks' -> Ack]
  BY <1>2, <1>3, <1>4
<1>8. QED
  BY <1>1, <1>2, <1>5, <1>6, <1>7

\* What wait_ack does to the map of acknowledgements.
LEMMA AcksTaken ==
    ASSUME TypeOK, NEW t \in Threads, TakeAck(t)
    PROVE  /\ DOMAIN acks' = DOMAIN acks \ {id[t]}
           /\ acks' \in [DOMAIN acks' -> Ack]
           /\ \A i \in DOMAIN acks' : acks'[i] = acks[i]
BY DEF TypeOK, TakeAck, Restrict

\* Every step keeps every variable in its type.
LEMMA TypeStep ==
    ASSUME TypeOK, [Next]_vars
    PROVE  TypeOK'
<1> USE AckAssumption DEF TypeOK, threadVars, ThreadPc, Result
<1>1. ASSUME NEW t \in Threads, NEW k \in Kinds, Start(t, k) PROVE TypeOK'
  <2>1. id' \in [Threads -> Id]
    BY <1>1 DEF Start, Id
  <2>2. QED
    BY <1>1, <2>1 DEF Start
<1>2. ASSUME NEW t \in Threads, Load(t) PROVE TypeOK'
  BY <1>2 DEF Load
<1>3. ASSUME NEW t \in Threads, Store(t) PROVE TypeOK'
  BY <1>3 DEF Store
<1>4. ASSUME NEW t \in Threads, Name(t) PROVE TypeOK'
  <2>1. PICK n \in {loaded[t] + 1, wsControlSeq} : id' = [id EXCEPT ![t].n = n]
    BY <1>4 DEF Name
  <2>2. n \in Nat
    BY <2>1
  <2> HIDE DEF TypeOK, Result, ThreadPc
  <2>3. [id[t] EXCEPT !.n = n] \in Id
    BY <2>2 DEF Id, TypeOK
  <2>4. id' \in [Threads -> Id]
    BY <2>1, <2>3 DEF TypeOK
  <2>5. QED
    BY <1>4, <2>4 DEF Name, TypeOK, ThreadPc
<1>5. ASSUME NEW t \in Threads, Send(t) PROVE TypeOK'
  <2>1. [id |-> id[t], no |-> cmd[t]] \in Command
    BY DEF Command
  <2>2. unanswered' \subseteq Command
    BY <1>5, <2>1 DEF Send
  <2>3. pc' \in [Threads -> ThreadPc] /\ result' \in [Threads -> Result]
    BY <1>5 DEF Send
  <2>4. abandoned' \subseteq Id
    BY <1>5 DEF Send
  <2>5. QED
    BY <1>5, <2>2, <2>3, <2>4 DEF Send
<1>6. ASSUME NEW t \in Threads, TakeAck(t) PROVE TypeOK'
  <2>1. DOMAIN acks' \subseteq Id /\ acks' \in [DOMAIN acks' -> Ack]
    BY <1>6, AcksTaken
  <2>2. QED
    BY <1>6, <2>1 DEF TakeAck
<1>7. ASSUME NEW t \in Threads, WaitTimeout(t) PROVE TypeOK'
  BY <1>7 DEF WaitTimeout
<1>8. ASSUME NEW c \in unanswered, NEW ok \in BOOLEAN, HandleAck(c, ok) PROVE TypeOK'
  <2> HIDE DEF TypeOK
  <2>1. DOMAIN acks' \subseteq Id /\ acks' \in [DOMAIN acks' -> Ack]
    BY <1>8, AcksFiled
  <2> USE DEF TypeOK
  <2>2. QED
    BY <1>8, <2>1 DEF HandleAck
<1>9. CASE Disconnect
  BY <1>9 DEF Disconnect
<1>10. CASE Reconnect
  BY <1>10 DEF Reconnect
<1>11. CASE UNCHANGED vars
  BY <1>11 DEF vars
<1>12. QED
  BY <1>1, <1>2, <1>3, <1>4, <1>5, <1>6, <1>7, <1>8, <1>9, <1>10, <1>11 DEF Next

\* The initial values are of their types.
LEMMA InitType == Init => TypeOK
<1> SUFFICES ASSUME Init PROVE TypeOK
  OBVIOUS
<1>1. DOMAIN acks = {} /\ acks \in [DOMAIN acks -> Ack]
  BY DEF Init
<1>2. id \in [Threads -> Id]
  BY DEF Init, Id
<1>3. QED
  BY <1>1, <1>2 DEF Init, TypeOK, ThreadPc, Result

\* Type correctness of the commands and their acknowledgements.
THEOREM TypeCorrect == Spec => []TypeOK
<1>1. TypeOK /\ [Next]_vars => TypeOK'
  BY TypeStep
<1>2. QED
  BY <1>1, InitType, PTL DEF Spec

-----------------------------------------------------------------------------
\* No step makes an accepted answer out of anything but an accepted command.
LEMMA AcksStep ==
    ASSUME TypeOK, AcksInv, AcceptedById, [Next]_vars
    PROVE  AcksInv' /\ AcceptedById'
<1> USE DEF AcksInv, AcceptedById, TypeOK, threadVars
<1>1. ASSUME NEW t \in Threads, NEW k \in Kinds, Start(t, k)
      PROVE  AcksInv' /\ AcceptedById'
  BY <1>1 DEF Start
<1>2. ASSUME NEW t \in Threads, Load(t) \/ Store(t)
      PROVE  AcksInv' /\ AcceptedById'
  BY <1>2 DEF Load, Store
<1>3. ASSUME NEW t \in Threads, Name(t)
      PROVE  AcksInv' /\ AcceptedById'
  BY <1>3 DEF Name
<1>4. ASSUME NEW t \in Threads, Send(t)
      PROVE  AcksInv' /\ AcceptedById'
  BY <1>4 DEF Send
<1>5. ASSUME NEW t \in Threads, TakeAck(t)
      PROVE  AcksInv' /\ AcceptedById'
  <2> HIDE DEF TypeOK
  <2>1. /\ DOMAIN acks' \subseteq DOMAIN acks
        /\ \A i \in DOMAIN acks' : acks'[i] = acks[i]
    BY <1>5, AcksTaken
  <2>2. AcksInv'
    BY <1>5, <2>1 DEF TakeAck, TypeOK
  <2>3. acks[id[t]].ok => [id |-> id[t], no |-> acks[id[t]].no] \in accepted
    BY <1>5 DEF TakeAck
  <2>4. acks[id[t]].ok => \E c \in accepted : c.id = id[t]
    BY <2>3
  <2>5. AcceptedById'
    BY <1>5, <2>4 DEF TakeAck, TypeOK
  <2>6. QED
    BY <2>2, <2>5
<1>6. ASSUME NEW t \in Threads, WaitTimeout(t)
      PROVE  AcksInv' /\ AcceptedById'
  BY <1>6 DEF WaitTimeout
<1>7. ASSUME NEW c \in unanswered, NEW ok \in BOOLEAN, HandleAck(c, ok)
      PROVE  AcksInv' /\ AcceptedById'
  <2> HIDE DEF TypeOK
  <2>1. /\ DOMAIN acks' = DOMAIN acks \cup {c.id}
        /\ acks'[c.id] = [ok |-> ok, no |-> c.no]
        /\ \A i \in DOMAIN acks : i # c.id => acks'[i] = acks[i]
    BY <1>7, AcksFiled
  <2>2. c = [id |-> c.id, no |-> c.no]
    BY DEF TypeOK, Command
  <2>3. UNCHANGED <<pc, id, result>> /\ accepted \subseteq accepted'
        /\ (ok => c \in accepted')
    BY <1>7 DEF HandleAck
  <2>4. \A i \in DOMAIN acks' : acks'[i].ok => [id |-> i, no |-> acks'[i].no] \in accepted'
    BY <2>1, <2>2, <2>3
  <2>5. QED
    BY <2>3, <2>4
<1>8. CASE Disconnect \/ Reconnect
  BY <1>8 DEF Disconnect, Reconnect
<1>9. CASE UNCHANGED vars
  BY <1>9 DEF vars
<1>10. QED
  BY <1>1, <1>2, <1>3, <1>4, <1>5, <1>6, <1>7, <1>8, <1>9 DEF Next

\* What holds as long as no two threads took a number at once.
Apart == NumbersInv /\ TakingInv /\ OwnerInv /\ AcceptedIsOwn

\* A step after which no two threads have overlapped keeps it.
LEMMA ApartStep ==
    ASSUME IInv, [Next]_vars, ~overlapped'
    PROVE  Apart'
<1>0. TypeOK'
  BY TypeStep DEF IInv
<1>a. ~overlapped
  BY DEF Next, vars, Start, Load, Store, Name, Send, TakeAck, WaitTimeout, HandleAck,
         Disconnect, Reconnect
<1>b. TypeOK /\ NumbersInv /\ TakingInv /\ OwnerInv /\ AcceptedIsOwn
  BY <1>a DEF IInv
<1>c. AcksInv
  BY DEF IInv
<1> USE <1>0, <1>b DEF TypeOK, threadVars, Named, Numbering
<1>1. ASSUME NEW t \in Threads, NEW k \in Kinds, Start(t, k) PROVE Apart'
  <2>1. NumbersInv' /\ AcceptedIsOwn'
    BY <1>1 DEF Start, NumbersInv, AcceptedIsOwn
  <2>2. TakingInv'
    BY <1>1 DEF Start, TakingInv, Unused
  <2>3. OwnerInv'
    BY <1>1 DEF Start, OwnerInv, Unused
  <2>4. QED
    BY <2>1, <2>2, <2>3 DEF Apart
<1>2. ASSUME NEW t \in Threads, Load(t) PROVE Apart'
  <2>1. \A u \in Threads : ~Numbering(u)
    BY <1>2 DEF Load
  <2>2. NumbersInv' /\ AcceptedIsOwn'
    BY <1>2 DEF Load, NumbersInv, AcceptedIsOwn
  <2>3. TakingInv'
    BY <1>2, <2>1 DEF Load, TakingInv
  <2>4. OwnerInv'
    BY <1>2 DEF Load, OwnerInv, Unused
  <2>5. QED
    BY <2>2, <2>3, <2>4 DEF Apart
<1>3. ASSUME NEW t \in Threads, Store(t) PROVE Apart'
  <2>1. wsControlSeq' = wsControlSeq + 1
    BY <1>3 DEF Store, TakingInv
  <2>2. NumbersInv'
    BY <1>3, <2>1 DEF Store, NumbersInv, Command, Id
  <2>3. Unused(wsControlSeq)' /\ \A u \in Threads : Named(u)' => id'[u].n # wsControlSeq'
    BY <1>3, <2>1 DEF Store, NumbersInv, Unused, Command, Id
  <2>4. TakingInv'
    BY <1>3, <2>1, <2>3 DEF Store, TakingInv
  <2>5. OwnerInv' /\ AcceptedIsOwn'
    BY <1>3 DEF Store, OwnerInv, Unused, AcceptedIsOwn
  <2>6. QED
    BY <2>2, <2>4, <2>5 DEF Apart
<1>4. ASSUME NEW t \in Threads, Name(t) PROVE Apart'
  <2>1. id' = [id EXCEPT ![t].n = wsControlSeq]
    BY <1>4 DEF Name, TakingInv
  <2>2. id'[t].n = wsControlSeq /\ \A u \in Threads : u # t => id'[u] = id[u]
    BY <2>1 DEF Id
  <2>3. /\ Unused(wsControlSeq)
        /\ \A u \in Threads : Named(u) => id[u].n # wsControlSeq
    BY <1>4 DEF Name, TakingInv
  <2>4. NumbersInv'
    BY <1>4, <2>2 DEF Name, NumbersInv
  <2>5. TakingInv'
    BY <1>4, <2>2 DEF Name, TakingInv
  <2>6. OwnerInv'
    BY <1>4, <2>2, <2>3 DEF Name, OwnerInv, Unused
  <2>7. AcceptedIsOwn'
    BY <1>4, <1>c, <2>2 DEF Name, AcceptedIsOwn, AcksInv
  <2>8. QED
    BY <2>4, <2>5, <2>6, <2>7 DEF Apart
<1>5. ASSUME NEW t \in Threads, Send(t) PROVE Apart'
  <2>1. Unused(id[t].n) /\ id[t].n <= wsControlSeq
    BY <1>5 DEF Send, OwnerInv, NumbersInv
  <2>2. unanswered' \subseteq unanswered \cup {[id |-> id[t], no |-> cmd[t]]}
    BY <1>5 DEF Send
  <2>3. /\ pc' = [pc EXCEPT ![t] = pc'[t]]
        /\ pc'[t] \in {"wait", "idle"} /\ pc[t] = "send"
        /\ UNCHANGED <<wsControlSeq, acks, loaded, id, cmd, accepted>>
    BY <1>5 DEF Send
  <2>4. NumbersInv'
    BY <2>1, <2>2, <2>3 DEF NumbersInv
  <2>5. TakingInv'
    BY <2>2, <2>3 DEF TakingInv, Unused
  <2>6. OwnerInv'
    <3>1. ASSUME NEW u \in Threads
          PROVE  \A v \in Threads : Named(u)' /\ Named(v)' /\ u # v => id'[u].n # id'[v].n
      BY <2>3 DEF OwnerInv
    <3>2. ASSUME NEW u \in Threads, pc'[u] = "send"
          PROVE  Unused(id[u].n)'
      BY <2>2, <2>3, <3>2 DEF OwnerInv, Unused
    <3>3. ASSUME NEW u \in Threads, pc'[u] = "wait"
          PROVE  /\ \A c \in unanswered' :
                       c.id.n = id[u].n => c = [id |-> id[u], no |-> cmd[u]]
                 /\ \A i \in DOMAIN acks : i.n = id[u].n => acks[i].no = cmd[u]
      <4>1. CASE u = t
        BY <2>1, <2>2, <4>1 DEF Unused
      <4>2. CASE u # t
        <5>1. pc[u] = "wait" /\ id[u].n # id[t].n
          BY <2>3, <3>3, <4>2 DEF OwnerInv
        <5>2. QED
          BY <2>2, <5>1 DEF OwnerInv
      <4>3. QED
        BY <4>1, <4>2
    <3>4. QED
      BY <2>3, <3>1, <3>2, <3>3 DEF OwnerInv
  <2>7. AcceptedIsOwn'
    BY <1>5 DEF Send, AcceptedIsOwn
  <2>8. QED
    BY <2>4, <2>5, <2>6, <2>7 DEF Apart
<1>6. ASSUME NEW t \in Threads, TakeAck(t) PROVE Apart'
  <2>1. /\ DOMAIN acks' \subseteq DOMAIN acks
        /\ \A i \in DOMAIN acks' : acks'[i] = acks[i]
    BY <1>6, AcksTaken
  <2>2. NumbersInv'
    BY <1>6, <2>1 DEF TakeAck, NumbersInv
  <2>3. TakingInv'
    BY <1>6, <2>1 DEF TakeAck, TakingInv, Unused
  <2>4. OwnerInv'
    <3>1. /\ UNCHANGED <<unanswered, id, cmd>>
          /\ \A u \in Threads : pc'[u] # "idle" => pc'[u] = pc[u]
      BY <1>6 DEF TakeAck
    <3>2. \A u \in Threads : Named(u)' => Named(u)
      BY <3>1
    <3>3. ASSUME NEW u \in Threads, pc'[u] = "send"
          PROVE  Unused(id[u].n)'
      BY <2>1, <3>1, <3>3 DEF OwnerInv, Unused
    <3>4. ASSUME NEW u \in Threads, pc'[u] = "wait"
          PROVE  /\ \A c \in unanswered :
                       c.id.n = id[u].n => c = [id |-> id[u], no |-> cmd[u]]
                 /\ \A i \in DOMAIN acks' : i.n = id[u].n => acks'[i].no = cmd[u]
      BY <2>1, <3>1, <3>4 DEF OwnerInv
    <3>5. QED
      BY <3>1, <3>2, <3>3, <3>4 DEF OwnerInv
  <2>5. acks[id[t]].no = cmd[t]
    BY <1>6 DEF TakeAck, OwnerInv
  <2>6. acks[id[t]].ok => [id |-> id[t], no |-> cmd[t]] \in accepted
    BY <1>6, <1>c, <2>5 DEF TakeAck, AcksInv
  <2>7. AcceptedIsOwn'
    BY <1>6, <2>6 DEF TakeAck, AcceptedIsOwn
  <2>8. QED
    BY <2>2, <2>3, <2>4, <2>7 DEF Apart
<1>7. ASSUME NEW t \in Threads, WaitTimeout(t) PROVE Apart'
  <2>1. NumbersInv' /\ AcceptedIsOwn'
    BY <1>7 DEF WaitTimeout, NumbersInv, AcceptedIsOwn
  <2>2. TakingInv' /\ OwnerInv'
    BY <1>7 DEF WaitTimeout, TakingInv, OwnerInv, Unused
  <2>3. QED
    BY <2>1, <2>2 DEF Apart
<1>8. ASSUME NEW c \in unanswered, NEW ok \in BOOLEAN, HandleAck(c, ok) PROVE Apart'
  <2>1. /\ DOMAIN acks' = DOMAIN acks \cup {c.id}
        /\ acks'[c.id] = [ok |-> ok, no |-> c.no]
        /\ \A i \in DOMAIN acks : i # c.id => acks'[i] = acks[i]
    BY <1>8, AcksFiled
  <2>2. UNCHANGED <<wsControlSeq, pc, loaded, id, cmd, result>>
    BY <1>8 DEF HandleAck
  <2>3. unanswered' \subseteq unanswered /\ accepted \subseteq accepted'
    BY <1>8 DEF HandleAck
  <2>4. NumbersInv'
    BY <2>1, <2>2, <2>3 DEF NumbersInv
  <2>5. TakingInv'
    BY <2>1, <2>2, <2>3 DEF TakingInv, Unused
  <2>6. OwnerInv'
    BY <2>1, <2>2, <2>3 DEF OwnerInv, Unused
  <2>7. AcceptedIsOwn'
    BY <2>2, <2>3 DEF AcceptedIsOwn
  <2>8. QED
    BY <2>4, <2>5, <2>6, <2>7 DEF Apart
<1>9. CASE Disconnect \/ Reconnect
  <2>1. UNCHANGED <<wsControlSeq, acks, pc, loaded, id, cmd, result, accepted>>
        /\ unanswered' \subseteq unanswered
    BY <1>9 DEF Disconnect, Reconnect
  <2>2. QED
    BY <2>1 DEF Apart, NumbersInv, TakingInv, OwnerInv, AcceptedIsOwn, Unused
<1>10. CASE UNCHANGED vars
  BY <1>10 DEF vars, Apart, NumbersInv, TakingInv, OwnerInv, AcceptedIsOwn, Unused
<1>11. QED
  BY <1>1, <1>2, <1>3, <1>4, <1>5, <1>6, <1>7, <1>8, <1>9, <1>10 DEF Next

\* The inductive invariant holds.
LEMMA Invariant == Spec => []IInv
<1>1. Init => IInv
  <2> SUFFICES ASSUME Init PROVE IInv
    OBVIOUS
  <2>1. DOMAIN acks = {}
    BY DEF Init
  <2>2. AcksInv /\ AcceptedById /\ NumbersInv /\ TakingInv /\ OwnerInv /\ AcceptedIsOwn
    BY <2>1 DEF Init, AcksInv, AcceptedById, NumbersInv, TakingInv, OwnerInv,
                AcceptedIsOwn, Named, Numbering
  <2>3. QED
    BY <2>2, InitType DEF IInv
<1>2. IInv /\ [Next]_vars => IInv'
  BY TypeStep, AcksStep, ApartStep DEF IInv, Apart
<1>3. QED
  BY <1>1, <1>2, PTL DEF Spec

\* A call that returns took the acknowledgement of an accepted command with
\* its id, whatever the other threads do.
THEOREM AcceptedByIdHolds == Spec => []AcceptedById
<1>1. IInv => AcceptedById
  BY DEF IInv
<1>2. QED
  BY <1>1, Invariant, PTL

\* As long as no two threads were inside ++wsControlSeq_ at once, a call that
\* returns was accepted itself: timeouts, late answers and reconnections never
\* lend it another command's acknowledgement.
THEOREM OwnUnlessOverlappedHolds == Spec => []OwnUnlessOverlapped
<1>1. IInv => OwnUnlessOverlapped
  BY DEF IInv, OwnUnlessOverlapped
<1>2. QED
  BY <1>1, Invariant, PTL

\* A single thread never overlaps with itself.
LEMMA NeverOverlapped ==
    ASSUME NEW CONSTANT s, Threads = {s}
    PROVE  Spec => []~overlapped
<1>1. Init => ~overlapped
  BY DEF Init
<1>2. ~overlapped /\ [Next]_vars => ~overlapped'
  BY DEF Next, vars, Numbering, Start, Load, Store, Name, Send, TakeAck, WaitTimeout,
         HandleAck, Disconnect, Reconnect
<1>3. QED
  BY <1>1, <1>2, PTL DEF Spec

\* So a program with one sending thread always gets its own answers.
THEOREM SingleSenderOwnsItsAck ==
    ASSUME NEW CONSTANT s, Threads = {s}
    PROVE  Spec => []AcceptedIsOwn
<1>1. OwnUnlessOverlapped /\ ~overlapped => AcceptedIsOwn
  BY DEF OwnUnlessOverlapped
<1>2. QED
  BY <1>1, OwnUnlessOverlappedHolds, NeverOverlapped, PTL

-----------------------------------------------------------------------------
(* What stays in the map.  As long as nobody gave up waiting for an id, the *)
(* answers it can still get, filed or on their way, are matched with the    *)
(* threads that wait for it, also when threads share the id.                *)

\* The answers id i can still get: the numbers of the commands the robot still
\* has to answer, and 0 for one that is filed.
Owed(i) == {c.no : c \in {d \in unanswered : d.id = i}} \cup {n \in {0} : i \in DOMAIN acks}

Waiting(i) == {t \in Threads : pc[t] = "wait" /\ id[t] = i}

\* Every answer has a thread of its own to take it.
Matched(S, T) == \E f \in [S -> T] : \A x, y \in S : f[x] = f[y] => x = y

MatchInv == \A i \in Id \ abandoned : Matched(Owed(i), Waiting(i))

\* A command that is under way has a number that is not 0.
CountedInv ==
    /\ \A t \in Threads : pc[t] # "idle" => cmd[t] # 0
    /\ \A c \in unanswered : c.no # 0

\* Fewer answers and more threads.
LEMMA MatchedLess ==
    ASSUME NEW S, NEW T, Matched(S, T), NEW R \in SUBSET S, NEW U, T \subseteq U
    PROVE  Matched(R, U)
<1>1. PICK f \in [S -> T] : \A x, y \in S : f[x] = f[y] => x = y
  BY DEF Matched
<1>2. [x \in R |-> f[x]] \in [R -> U]
  BY <1>1
<1>3. \A x, y \in R : [z \in R |-> f[z]][x] = [z \in R |-> f[z]][y] => x = y
  BY <1>1
<1>4. QED
  BY <1>2, <1>3 DEF Matched

\* One answer more, and a thread more to take it.
LEMMA MatchedOneMore ==
    ASSUME NEW S, NEW T, Matched(S, T), NEW n, NEW t, t \notin T
    PROVE  Matched(S \cup {n}, T \cup {t})
<1>1. PICK f \in [S -> T] : \A x, y \in S : f[x] = f[y] => x = y
  BY DEF Matched
<1> DEFINE g == [x \in S \cup {n} |-> IF x \in S THEN f[x] ELSE t]
<1>2. g \in [S \cup {n} -> T \cup {t}]
  BY <1>1
<1>3. \A x, y \in S \cup {n} : g[x] = g[y] => x = y
  BY <1>1
<1>4. QED
  BY <1>2, <1>3 DEF Matched

\* An answer is filed: it goes by another name.
LEMMA MatchedRenamed ==
    ASSUME NEW S, NEW T, Matched(S, T), NEW n \in S, NEW m
    PROVE  Matched((S \ {n}) \cup {m}, T)
<1>1. PICK f \in [S -> T] : \A x, y \in S : f[x] = f[y] => x = y
  BY DEF Matched
<1> DEFINE g == [x \in (S \ {n}) \cup {m} |-> IF x \in S \ {n} THEN f[x] ELSE f[n]]
<1>2. g \in [(S \ {n}) \cup {m} -> T]
  BY <1>1
<1>3. \A x, y \in (S \ {n}) \cup {m} : g[x] = g[y] => x = y
  BY <1>1
<1>4. QED
  BY <1>2, <1>3 DEF Matched

\* A thread takes an answer, its own or not: whoever should have taken that one
\* gets what was meant for the thread.
LEMMA MatchedTaken ==
    ASSUME NEW S, NEW T, Matched(S, T), NEW n \in S, NEW t \in T
    PROVE  Matched(S \ {n}, T \ {t})
<1>1. PICK f \in [S -> T] : \A x, y \in S : f[x] = f[y] => x = y
  BY DEF Matched
<1> DEFINE g == [x \in S \ {n} |-> IF f[x] = t THEN f[n] ELSE f[x]]
<1>2. g \in [S \ {n} -> T \ {t}]
  BY <1>1
<1>3. \A x, y \in S \ {n} : g[x] = g[y] => x = y
  BY <1>1
<1>4. QED
  BY <1>2, <1>3 DEF Matched

\* Numbers are counted from 1.
LEMMA CountedStep ==
    ASSUME TypeOK, CountedInv, [Next]_vars
    PROVE  CountedInv'
<1> USE DEF CountedInv, TypeOK, threadVars
<1>1. ASSUME NEW t \in Threads, NEW k \in Kinds, Start(t, k) PROVE CountedInv'
  BY <1>1 DEF Start
<1>2. ASSUME NEW t \in Threads, Load(t) \/ Store(t) \/ Name(t) PROVE CountedInv'
  BY <1>2 DEF Load, Store, Name
<1>3. ASSUME NEW t \in Threads, Send(t) PROVE CountedInv'
  BY <1>3 DEF Send
<1>4. ASSUME NEW t \in Threads, TakeAck(t) \/ WaitTimeout(t) PROVE CountedInv'
  BY <1>4 DEF TakeAck, WaitTimeout
<1>5. ASSUME NEW c \in unanswered, NEW ok \in BOOLEAN, HandleAck(c, ok) PROVE CountedInv'
  BY <1>5 DEF HandleAck
<1>6. CASE Disconnect \/ Reconnect \/ UNCHANGED vars
  BY <1>6 DEF Disconnect, Reconnect, vars
<1>7. QED
  BY <1>1, <1>2, <1>3, <1>4, <1>5, <1>6 DEF Next

\* Every step keeps the answers matched with those who wait for them.
LEMMA MatchStep ==
    ASSUME TypeOK, CountedInv, MatchInv, [Next]_vars
    PROVE  MatchInv'
<1> SUFFICES ASSUME NEW i \in Id, i \notin abandoned'
             PROVE  Matched(Owed(i), Waiting(i))'
  BY DEF MatchInv
<1>1. abandoned \subseteq abandoned'
  BY DEF Next, vars, threadVars, Start, Load, Store, Name, Send, TakeAck, WaitTimeout,
         HandleAck, Disconnect, Reconnect
<1>2. Matched(Owed(i), Waiting(i))
  BY <1>1 DEF MatchInv
\* A step after which i is owed no more, and those who wait for it still do.
<1>3. ASSUME Owed(i)' \subseteq Owed(i), Waiting(i) \subseteq Waiting(i)'
      PROVE  Matched(Owed(i), Waiting(i))'
  <2>1. Matched(Owed(i)', Waiting(i)')
    BY <1>2, <1>3, MatchedLess
  <2>2. QED
    BY <2>1 DEF Matched
<1>4. ASSUME NEW t \in Threads, NEW k \in Kinds, Start(t, k)
      PROVE  Matched(Owed(i), Waiting(i))'
  <2>1. Owed(i)' = Owed(i)
    BY <1>4 DEF Start, Owed
  <2>2. Waiting(i) \subseteq Waiting(i)'
    BY <1>4 DEF Start, Waiting, TypeOK
  <2>3. QED
    BY <1>3, <2>1, <2>2
<1>5. ASSUME NEW t \in Threads, Load(t) \/ Store(t) \/ Name(t)
      PROVE  Matched(Owed(i), Waiting(i))'
  <2>1. UNCHANGED <<acks, unanswered>>
    BY <1>5 DEF Load, Store, Name
  <2>2. Owed(i)' = Owed(i)
    BY <2>1 DEF Owed
  <2>3. ASSUME NEW u \in Waiting(i) PROVE u \in Waiting(i)'
    <3>1. u \in Threads /\ pc[u] = "wait" /\ id[u] = i
      BY <2>3 DEF Waiting
    <3>2. u # t
      BY <1>5, <3>1 DEF Load, Store, Name
    <3>3. pc'[u] = pc[u]
      BY <1>5, <3>1, <3>2 DEF Load, Store, Name, TypeOK
    <3>4. id'[u] = id[u]
      <4>1. CASE Load(t) \/ Store(t)
        BY <4>1 DEF Load, Store
      <4>2. CASE Name(t)
        BY <4>2, <3>1, <3>2 DEF Name, TypeOK
      <4>3. QED
        BY <1>5, <4>1, <4>2
    <3>5. QED
      BY <3>1, <3>3, <3>4 DEF Waiting
  <2>4. QED
    BY <1>3, <2>2, <2>3
<1>6. ASSUME NEW t \in Threads, Send(t)
      PROVE  Matched(Owed(i), Waiting(i))'
  <2>1. CASE id[t] = i /\ pc'[t] = "wait"
    <3>1. unanswered' = unanswered \cup {[id |-> id[t], no |-> cmd[t]]}
          /\ UNCHANGED <<acks, id>> /\ pc[t] = "send" /\ pc' = [pc EXCEPT ![t] = "wait"]
      BY <1>6, <2>1 DEF Send, TypeOK
    <3>2. Owed(i)' \subseteq Owed(i) \cup {cmd[t]}
      <4>1. SUFFICES ASSUME NEW c \in unanswered', c.id = i
                     PROVE  c.no \in Owed(i) \cup {cmd[t]}
        BY <3>1 DEF Owed
      <4>2. CASE c \in unanswered
        BY <4>1, <4>2 DEF Owed
      <4>3. CASE c = [id |-> id[t], no |-> cmd[t]]
        BY <4>3
      <4>4. QED
        BY <3>1, <4>2, <4>3
    <3>3. t \notin Waiting(i) /\ Waiting(i) \cup {t} \subseteq Waiting(i)'
      BY <2>1, <3>1 DEF Waiting, TypeOK
    <3>4. Matched(Owed(i) \cup {cmd[t]}, Waiting(i) \cup {t})
      BY <1>2, <3>3, MatchedOneMore
    <3>5. Matched(Owed(i)', Waiting(i)')
      BY <3>2, <3>3, <3>4, MatchedLess
    <3>6. QED
      BY <3>5 DEF Matched
  <2>2. CASE ~(id[t] = i /\ pc'[t] = "wait")
    <3>1. Waiting(i) \subseteq Waiting(i)'
      BY <1>6, <2>2 DEF Send, Waiting, TypeOK
    <3>2. id[t] # i \/ UNCHANGED unanswered
      BY <1>6, <2>2 DEF Send, TypeOK
    <3>3. Owed(i)' = Owed(i)
      BY <1>6, <3>2 DEF Send, Owed
    <3>4. QED
      BY <1>3, <3>1, <3>3
  <2>3. QED
    BY <2>1, <2>2
<1>7. ASSUME NEW t \in Threads, TakeAck(t)
      PROVE  Matched(Owed(i), Waiting(i))'
  <2>0. DOMAIN acks' = DOMAIN acks \ {id[t]} /\ UNCHANGED unanswered
    BY <1>7, AcksTaken DEF TakeAck
  <2>1. CASE id[t] = i
    <3>1. 0 \in Owed(i) /\ t \in Waiting(i)
      BY <1>7, <2>1 DEF TakeAck, Owed, Waiting
    <3>2. Owed(i)' = Owed(i) \ {0}
      BY <2>0, <2>1 DEF Owed, CountedInv
    <3>3. Waiting(i)' = Waiting(i) \ {t}
      BY <1>7, <2>1 DEF TakeAck, Waiting, TypeOK
    <3>4. Matched(Owed(i)', Waiting(i)')
      BY <1>2, <3>1, <3>2, <3>3, MatchedTaken
    <3>5. QED
      BY <3>4 DEF Matched
  <2>2. CASE id[t] # i
    <3>1. Owed(i)' \subseteq Owed(i)
      BY <2>0 DEF Owed
    <3>2. Waiting(i) \subseteq Waiting(i)'
      BY <1>7, <2>2 DEF TakeAck, Waiting, TypeOK
    <3>3. QED
      BY <1>3, <3>1, <3>2
  <2>3. QED
    BY <2>1, <2>2
<1>8. ASSUME NEW t \in Threads, WaitTimeout(t)
      PROVE  Matched(Owed(i), Waiting(i))'
  <2>1. id[t] # i
    BY <1>8 DEF WaitTimeout
  <2>2. Owed(i)' = Owed(i)
    BY <1>8 DEF WaitTimeout, Owed
  <2>3. Waiting(i) \subseteq Waiting(i)'
    BY <1>8, <2>1 DEF WaitTimeout, Waiting, TypeOK
  <2>4. QED
    BY <1>3, <2>2, <2>3
<1>9. ASSUME NEW c \in unanswered, NEW ok \in BOOLEAN, HandleAck(c, ok)
      PROVE  Matched(Owed(i), Waiting(i))'
  <2>0. /\ DOMAIN acks' = DOMAIN acks \cup {c.id} /\ unanswered' = unanswered \ {c}
        /\ UNCHANGED <<pc, id>>
    BY <1>9, AcksFiled DEF HandleAck, threadVars
  <2>1. Waiting(i)' = Waiting(i)
    BY <2>0 DEF Waiting
  <2>2. CASE c.id = i
    <3>1. c.no \in Owed(i)
      BY <2>2 DEF Owed
    <3>2. \A d \in unanswered : d.id = i /\ d.no = c.no => d = c
      BY <2>2 DEF TypeOK, Command
    <3>3. Owed(i)' \subseteq (Owed(i) \ {c.no}) \cup {0}
      BY <2>0, <3>2 DEF Owed
    <3>4. Matched((Owed(i) \ {c.no}) \cup {0}, Waiting(i))
      BY <1>2, <3>1, MatchedRenamed
    <3>5. Matched(Owed(i)', Waiting(i)')
      BY <2>1, <3>3, <3>4, MatchedLess
    <3>6. QED
      BY <3>5 DEF Matched
  <2>3. CASE c.id # i
    <3>1. Owed(i)' \subseteq Owed(i)
      BY <2>0, <2>3 DEF Owed
    <3>2. QED
      BY <1>3, <2>1, <3>1
  <2>4. QED
    BY <2>2, <2>3
<1>10. CASE Disconnect \/ Reconnect \/ UNCHANGED vars
  <2>1. Owed(i)' \subseteq Owed(i)
    BY <1>10 DEF Disconnect, Reconnect, vars, Owed
  <2>2. Waiting(i)' = Waiting(i)
    BY <1>10 DEF Disconnect, Reconnect, vars, threadVars, Waiting
  <2>3. QED
    BY <1>3, <2>1, <2>2
<1>11. QED
  BY <1>4, <1>5, <1>6, <1>7, <1>8, <1>9, <1>10 DEF Next

\* Entries of calls that got their answer do not pile up in the map, even when
\* threads share an id: what no thread waits for was abandoned.
THEOREM NoLeftovers == Spec => []LeftoverIsAbandoned
<1>1. Init => CountedInv /\ MatchInv
  <2> SUFFICES ASSUME Init PROVE CountedInv /\ MatchInv
    OBVIOUS
  <2>1. ASSUME NEW i \in Id PROVE Matched(Owed(i), Waiting(i))
    <3>1. Owed(i) = {}
      BY DEF Init, Owed
    <3>2. [x \in {} |-> x] \in [Owed(i) -> Waiting(i)]
      BY <3>1
    <3>3. QED
      BY <3>1, <3>2 DEF Matched
  <2>2. QED
    BY <2>1 DEF Init, CountedInv, MatchInv
<1>2. TypeOK /\ CountedInv /\ MatchInv /\ [Next]_vars => CountedInv' /\ MatchInv'
  BY CountedStep, MatchStep
<1>3. TypeOK /\ MatchInv => LeftoverIsAbandoned
  <2> SUFFICES ASSUME TypeOK, MatchInv, NEW i \in DOMAIN acks, i \notin abandoned
               PROVE  \E t \in Threads : pc[t] = "wait" /\ id[t] = i
    BY DEF LeftoverIsAbandoned
  <2>1. i \in Id /\ 0 \in Owed(i)
    BY DEF TypeOK, Owed
  <2>2. Waiting(i) # {}
    BY <2>1 DEF MatchInv, Matched
  <2>3. QED
    BY <2>2 DEF Waiting
<1>4. QED
  BY <1>1, <1>2, <1>3, TypeCorrect, PTL DEF Spec
=============================================================================
