----------------------------- MODULE AckRouting -----------------------------
(***************************************************************************)
(* Commands over the WebSocket link and their acknowledgements:            *)
(* AiDog::send_control and AiDog::send_edu_session (src/src/aidog.cpp),    *)
(* WebSocketHost's send_text, wait_ack, handle_text and its open and close *)
(* handlers (src/src/websocket_host.cpp).  User threads, the heartbeat     *)
(* thread and the detached connection threads all send; the io thread      *)
(* files the acknowledgements.                                             *)
(*                                                                         *)
(* Abstracted: the payloads, and the 1.2 s of wait_ack (a wait may time    *)
(* out at any time).  The order in which the robot answers is left open.   *)
(***************************************************************************)
EXTENDS Naturals, FiniteSets, Functions

CONSTANTS
    Threads,     \* the threads that send commands
    Kinds,       \* the prefixes of a command id: "dog-edu-" or "dog-<mode>-"
    KindsOf,     \* KindsOf[t]: the kinds of command thread t sends
    Unawaited,   \* the kinds nobody waits for: the ear percentage
    MaxSends     \* bound: commands started in one behaviour

ASSUME AckAssumption ==
    /\ KindsOf \in [Threads -> SUBSET Kinds]
    /\ Unawaited \subseteq Kinds
    /\ MaxSends \in Nat

VARIABLES
    wsControlSeq,  \* wsControlSeq_, which no lock protects
    active,        \* the host has an active connection
    acks,          \* the host's map of acknowledgements, by command id
    pc,            \* where each thread is
    loaded,        \* the value ++wsControlSeq_ loaded
    id,            \* local "commandId"
    cmd,           \* history: the number of the thread's last command
    result,        \* how the thread's last call ended
    unanswered,    \* external: the commands the robot still has to answer
    accepted,      \* history: the commands the robot accepted
    abandoned,     \* history: ids whose caller does not wait any more
    overlapped,    \* history: two threads were inside ++wsControlSeq_ at once
    sends          \* bound: commands started

threadVars == <<pc, loaded, id, cmd, result>>
vars == <<wsControlSeq, active, acks, threadVars, unanswered, accepted, abandoned,
          overlapped, sends>>

ThreadPc == {"idle", "load", "store", "name", "send", "wait"}
Result == {"none", "sent", "accepted", "rejected", "timeout", "not_sent"}

\* A command id: its prefix and its number.
Id == [kind : Kinds, n : Nat]
Command == [id : Id, no : Nat]
\* An acknowledgement names the id; ok stands for result == "accepted".
Ack == [ok : BOOLEAN, no : Nat]

Init ==
    /\ wsControlSeq = 0
    /\ active = TRUE
    /\ acks = [i \in {} |-> 0]
    /\ pc = [t \in Threads |-> "idle"]
    /\ loaded = [t \in Threads |-> 0]
    /\ id \in [Threads -> [kind : Kinds, n : {0}]]
    /\ cmd = [t \in Threads |-> 0]
    /\ result = [t \in Threads |-> "none"]
    /\ unanswered = {}
    /\ accepted = {}
    /\ abandoned = {}
    /\ overlapped = FALSE
    /\ sends = 0

-----------------------------------------------------------------------------
(* A thread sends a command.                                               *)

\* A call starts; the command gets a number that only the history uses.
Start(t, k) ==
    /\ pc[t] = "idle"
    /\ k \in KindsOf[t]
    /\ sends < MaxSends
    /\ sends' = sends + 1
    /\ cmd' = [cmd EXCEPT ![t] = sends + 1]
    /\ id' = [id EXCEPT ![t].kind = k]
    /\ result' = [result EXCEPT ![t] = "none"]
    /\ pc' = [pc EXCEPT ![t] = "load"]
    /\ UNCHANGED <<wsControlSeq, active, acks, loaded, unanswered, accepted, abandoned,
                   overlapped>>

\* Between the load of its ++wsControlSeq_ and the id made from it.
Numbering(t) == pc[t] \in {"store", "name"}

\* ++wsControlSeq_ on a plain integer: a load and a store.
Load(t) ==
    /\ pc[t] = "load"
    /\ loaded' = [loaded EXCEPT ![t] = wsControlSeq]
    /\ pc' = [pc EXCEPT ![t] = "store"]
    /\ overlapped' = (overlapped \/ \E u \in Threads : Numbering(u))
    /\ UNCHANGED <<wsControlSeq, active, acks, id, cmd, result, unanswered, accepted,
                   abandoned, sends>>

\* Mutant: the number is not stored.
StoreLost(t) ==
    /\ pc[t] = "store"
    /\ pc' = [pc EXCEPT ![t] = "name"]
    /\ UNCHANGED <<wsControlSeq, active, acks, loaded, id, cmd, result, unanswered,
                   accepted, abandoned, overlapped, sends>>

Store(t) ==
    /\ pc[t] = "store"
    /\ wsControlSeq' = loaded[t] + 1
    /\ pc' = [pc EXCEPT ![t] = "name"]
    /\ UNCHANGED <<active, acks, loaded, id, cmd, result, unanswered, accepted,
                   abandoned, overlapped, sends>>

\* to_string(wsControlSeq_): the build may read the field again or use the
\* value it stored.
Name(t) ==
    /\ pc[t] = "name"
    /\ \E n \in {loaded[t] + 1, wsControlSeq} : id' = [id EXCEPT ![t].n = n]
    /\ pc' = [pc EXCEPT ![t] = "send"]
    /\ UNCHANGED <<wsControlSeq, active, acks, loaded, cmd, result, unanswered,
                   accepted, abandoned, overlapped, sends>>

\* send_text throws without an active connection, or when server.send reports
\* an error; the ear percentage returns without waiting for its acknowledgement.
Send(t) ==
    /\ pc[t] = "send"
    /\ \/ /\ active
          /\ unanswered' = unanswered \cup {[id |-> id[t], no |-> cmd[t]]}
          /\ IF id[t].kind \in Unawaited
             THEN /\ pc' = [pc EXCEPT ![t] = "idle"]
                  /\ result' = [result EXCEPT ![t] = "sent"]
                  /\ abandoned' = abandoned \cup {id[t]}
             ELSE pc' = [pc EXCEPT ![t] = "wait"] /\ UNCHANGED <<result, abandoned>>
       \/ /\ pc' = [pc EXCEPT ![t] = "idle"]
          /\ result' = [result EXCEPT ![t] = "not_sent"]
          /\ UNCHANGED <<unanswered, abandoned>>
    /\ UNCHANGED <<wsControlSeq, active, acks, loaded, id, cmd, accepted, overlapped, sends>>

\* Mutant: the entry that was found stays in the map.
TakeAckKeeps(t) ==
    /\ pc[t] = "wait"
    /\ id[t] \in DOMAIN acks
    /\ result' = [result EXCEPT ![t] = IF acks[id[t]].ok THEN "accepted" ELSE "rejected"]
    /\ pc' = [pc EXCEPT ![t] = "idle"]
    /\ UNCHANGED <<wsControlSeq, active, acks, loaded, id, cmd, unanswered, accepted,
                   abandoned, overlapped, sends>>

\* Mutant: any acknowledgement will do.
TakeAckOfAny(t) ==
    /\ pc[t] = "wait"
    /\ \E i \in DOMAIN acks :
         /\ result' = [result EXCEPT ![t] = IF acks[i].ok THEN "accepted" ELSE "rejected"]
         /\ acks' = Restrict(acks, DOMAIN acks \ {i})
    /\ pc' = [pc EXCEPT ![t] = "idle"]
    /\ UNCHANGED <<wsControlSeq, active, loaded, id, cmd, unanswered, accepted, abandoned,
                   overlapped, sends>>

\* wait_ack finds its id, takes the entry out and returns it.
TakeAck(t) ==
    /\ pc[t] = "wait"
    /\ id[t] \in DOMAIN acks
    /\ result' = [result EXCEPT ![t] = IF acks[id[t]].ok THEN "accepted" ELSE "rejected"]
    /\ acks' = Restrict(acks, DOMAIN acks \ {id[t]})
    /\ pc' = [pc EXCEPT ![t] = "idle"]
    /\ UNCHANGED <<wsControlSeq, active, loaded, id, cmd, unanswered, accepted, abandoned,
                   overlapped, sends>>

\* The deadline: the loop is left without another look at the map, so an
\* acknowledgement filed at the last moment stays there.
WaitTimeout(t) ==
    /\ pc[t] = "wait"
    /\ result' = [result EXCEPT ![t] = "timeout"]
    /\ abandoned' = abandoned \cup {id[t]}
    /\ pc' = [pc EXCEPT ![t] = "idle"]
    /\ UNCHANGED <<wsControlSeq, active, acks, loaded, id, cmd, unanswered, accepted,
                   overlapped, sends>>

-----------------------------------------------------------------------------
(* The robot and the io thread.                                            *)

\* The robot answers a command, over the active connection or an older one that
\* is still open: handle_text files the acknowledgement under its id, over what
\* is there, and does not ask where it came from.
HandleAck(c, ok) ==
    /\ acks' = [i \in DOMAIN acks \cup {c.id} |->
                  IF i = c.id THEN [ok |-> ok, no |-> c.no] ELSE acks[i]]
    /\ unanswered' = unanswered \ {c}
    /\ accepted' = IF ok THEN accepted \cup {c} ELSE accepted
    /\ UNCHANGED <<wsControlSeq, active, threadVars, abandoned, overlapped, sends>>

\* A connection ends, the active one or an older one: either way the host has no
\* active connection after it.  The map of acknowledgements is not cleared, and
\* what the robot still answers may come or be lost (it is never handled).
Disconnect ==
    /\ active
    /\ active' = FALSE
    /\ UNCHANGED <<wsControlSeq, acks, threadVars, unanswered, accepted, abandoned,
                   overlapped, sends>>

Reconnect ==
    /\ ~active
    /\ active' = TRUE
    /\ UNCHANGED <<wsControlSeq, acks, threadVars, unanswered, accepted, abandoned,
                   overlapped, sends>>

Next ==
    \/ \E t \in Threads :
         \/ \E k \in Kinds : Start(t, k)
         \/ Load(t) \/ Store(t) \/ Name(t) \/ Send(t)
         \/ TakeAck(t) \/ WaitTimeout(t)
    \/ \E c \in unanswered : \E ok \in BOOLEAN : HandleAck(c, ok)
    \/ Disconnect \/ Reconnect

Spec == Init /\ [][Next]_vars

-----------------------------------------------------------------------------
(* Properties                                                              *)

\* Every variable holds a value of its kind.
TypeOK ==
    /\ wsControlSeq \in Nat
    /\ active \in BOOLEAN
    /\ DOMAIN acks \subseteq Id /\ acks \in [DOMAIN acks -> Ack]
    /\ pc \in [Threads -> ThreadPc]
    /\ loaded \in [Threads -> Nat]
    /\ id \in [Threads -> Id]
    /\ cmd \in [Threads -> Nat]
    /\ result \in [Threads -> Result]
    /\ unanswered \subseteq Command
    /\ accepted \subseteq Command
    /\ abandoned \subseteq Id
    /\ overlapped \in BOOLEAN
    /\ sends \in Nat

\* An acknowledgement in the map that no thread waits for belongs to a call
\* that gave up or to a command nobody waits for: entries of calls that got
\* their answer do not pile up.
LeftoverIsAbandoned ==
    \A i \in DOMAIN acks :
        \/ i \in abandoned
        \/ \E t \in Threads : pc[t] = "wait" /\ id[t] = i

\* A call that returns without an exception took the acknowledgement of an
\* accepted command with its id: a rejection, or the answer to the command of
\* a thread that sends another kind, never passes for it.
AcceptedById ==
    \A t \in Threads :
        result[t] = "accepted" => \E c \in accepted : c.id = id[t]

\* What "wait for the ACK by command id" should give: the accepted command is
\* the very command the call sent.  It fails when two threads are inside
\* ++wsControlSeq_ at once (see the README).
AcceptedIsOwn ==
    \A t \in Threads :
        result[t] = "accepted" => [id |-> id[t], no |-> cmd[t]] \in accepted

\* And that race is all that can break it: as long as no two threads were
\* inside ++wsControlSeq_ at once, timeouts, late answers, rejections and
\* reconnections never lend a call the acknowledgement of another command.
OwnUnlessOverlapped == ~overlapped => AcceptedIsOwn

-----------------------------------------------------------------------------
(* The inductive invariant behind OwnUnlessOverlapped.                     *)

\* No command and no acknowledgement carries number n.
Unused(n) ==
    /\ \A c \in unanswered : c.id.n # n
    /\ \A i \in DOMAIN acks : i.n # n

\* A thread whose id is made: its command is about to be sent, or waited for.
Named(t) == pc[t] \in {"send", "wait"}

\* The acknowledgements in the map are those of answered commands, and a call
\* under way has no result.
AcksInv ==
    /\ \A i \in DOMAIN acks : acks[i].ok => [id |-> i, no |-> acks[i].no] \in accepted
    /\ \A t \in Threads : pc[t] # "idle" => result[t] = "none"

\* The numbers given out so far are at most wsControlSeq.
NumbersInv ==
    /\ \A c \in unanswered : c.id.n <= wsControlSeq
    /\ \A i \in DOMAIN acks : i.n <= wsControlSeq
    /\ \A t \in Threads : Named(t) => id[t].n <= wsControlSeq

\* One thread at a time takes a number, and it is one nobody has.
TakingInv ==
    \A t \in Threads :
        /\ \A u \in Threads : Numbering(t) /\ Numbering(u) => t = u
        /\ pc[t] = "store" => loaded[t] = wsControlSeq
        /\ pc[t] = "name" =>
             /\ loaded[t] + 1 = wsControlSeq
             /\ Unused(wsControlSeq)
             /\ \A u \in Threads : Named(u) => id[u].n # wsControlSeq

\* A number belongs to one thread, and only its own command carries it.
OwnerInv ==
    \A t \in Threads :
        /\ \A u \in Threads : Named(t) /\ Named(u) /\ t # u => id[t].n # id[u].n
        /\ pc[t] = "send" => Unused(id[t].n)
        /\ pc[t] = "wait" =>
             /\ \A c \in unanswered : c.id.n = id[t].n => c = [id |-> id[t], no |-> cmd[t]]
             /\ \A i \in DOMAIN acks : i.n = id[t].n => acks[i].no = cmd[t]

IInv ==
    /\ TypeOK
    /\ AcksInv
    /\ AcceptedById
    /\ ~overlapped => NumbersInv /\ TakingInv /\ OwnerInv /\ AcceptedIsOwn
=============================================================================
