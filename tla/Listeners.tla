------------------------------ MODULE Listeners ------------------------------
(***************************************************************************)
(* The sensor cache and the listeners of AiDog (src/src/aidog.cpp):        *)
(* dispatch_parsed_notify stores a sample and copies the callbacks under   *)
(* stateMutex_ and calls them after it, while other threads add and remove *)
(* listeners.  Samples arrive on the threads of the two BLE notification   *)
(* handlers and on the io thread of the WebSocket host.                    *)
(*                                                                         *)
(* Abstracted: a sample is its number in the order of storing; the status  *)
(* a notification may carry is in ActionWait.  External: a callback may    *)
(* throw, which ends its dispatch.                                         *)
(***************************************************************************)
EXTENDS Naturals, SequencesExt

CONSTANTS
    Dispatchers,    \* the threads notifications arrive on
    MaxSamples,     \* bound: samples dispatched
    MaxListeners    \* bound: listeners added

ASSUME ListenerAssumption == MaxSamples \in Nat /\ MaxListeners \in Nat

Sensors == {"imu", "tof"}
Listener == 1..MaxListeners
Sample == 1..MaxSamples

VARIABLES
    last,            \* lastImu_, lastTof_: the sample each holds, or 0
    callbacks,       \* imuCallbacks_, tofCallbacks_
    nextCallbackId,
    samples,         \* samples stored so far
    handling,        \* the sample a dispatcher has, or 0
    toCall,          \* locals imuCallbacks and tofCallbacks, in calling order
    carries,         \* history: the sensors in each sample
    listens,         \* history: what a listener listens to, from which sample to which
    calls,           \* history: <<listener, sample>> in the order of the calls
    thrown,          \* history: the samples whose dispatch a callback ended
    together         \* history: two dispatchers had a sample at once

dogVars == <<last, callbacks, nextCallbackId, samples>>
vars == <<dogVars, handling, toCall, carries, listens, calls, thrown, together>>

Init ==
    /\ last = [s \in Sensors |-> 0]
    /\ callbacks = [s \in Sensors |-> <<>>]
    /\ nextCallbackId = 1
    /\ samples = 0
    /\ handling = [d \in Dispatchers |-> 0]
    /\ toCall = [d \in Dispatchers |-> <<>>]
    /\ carries = [n \in Sample |-> {}]
    /\ listens = [l \in Listener |-> [to |-> "none", after |-> 0, upto |-> MaxSamples]]
    /\ calls = <<>>
    /\ thrown = {}
    /\ together = FALSE

-----------------------------------------------------------------------------
(* add_imu_listener and add_tof_listener; remove_imu_listener and          *)
(* remove_tof_listener.                                                    *)

AddListener(s) ==
    /\ nextCallbackId <= MaxListeners
    /\ callbacks' = [callbacks EXCEPT ![s] = Append(@, nextCallbackId)]
    /\ nextCallbackId' = nextCallbackId + 1
    /\ listens' = [listens EXCEPT ![nextCallbackId].to = s,
                                  ![nextCallbackId].after = samples]
    /\ UNCHANGED <<last, samples, handling, toCall, carries, calls, thrown, together>>

\* Mutant: the first listener goes, whichever id is given.
RemoveHeadListener(s, l) ==
    /\ Contains(callbacks[s], l)
    /\ callbacks' = [callbacks EXCEPT ![s] = Tail(@)]
    /\ listens' = [listens EXCEPT ![l].upto = samples]
    /\ UNCHANGED <<last, nextCallbackId, samples, handling, toCall, carries, calls, thrown,
                   together>>

\* The entry with this id; there is at most one.  (An id that is not in this
\* list removes nothing.)
RemoveListener(s, l) ==
    /\ \E i \in DOMAIN callbacks[s] :
         /\ callbacks[s][i] = l
         /\ callbacks' = [callbacks EXCEPT ![s] = RemoveAt(@, i)]
    /\ listens' = [listens EXCEPT ![l].upto = samples]
    /\ UNCHANGED <<last, nextCallbackId, samples, handling, toCall, carries, calls, thrown,
                   together>>

-----------------------------------------------------------------------------
(* dispatch_parsed_notify                                                  *)

\* Mutant: the second "if" is an "else if".
CopyEither(present) ==
    IF "imu" \in present THEN callbacks["imu"]
    ELSE IF "tof" \in present THEN callbacks["tof"] ELSE <<>>

\* The callbacks a notification with these sensors is for, the IMU's first.
Copy(present) ==
    (IF "imu" \in present THEN callbacks["imu"] ELSE <<>>)
        \o (IF "tof" \in present THEN callbacks["tof"] ELSE <<>>)

\* The critical section: the sample is cached and the callbacks are copied.
Store(d, present) ==
    /\ handling[d] = 0
    /\ samples < MaxSamples
    /\ samples' = samples + 1
    /\ last' = [s \in Sensors |-> IF s \in present THEN samples + 1 ELSE last[s]]
    /\ handling' = [handling EXCEPT ![d] = samples + 1]
    /\ toCall' = [toCall EXCEPT ![d] = Copy(present)]
    /\ carries' = [carries EXCEPT ![samples + 1] = present]
    /\ together' = (together \/ \E e \in Dispatchers : handling[e] # 0)
    /\ UNCHANGED <<callbacks, nextCallbackId, listens, calls, thrown>>

\* After the lock: the next callback, which returns or throws.
Call(d) ==
    /\ toCall[d] # <<>>
    /\ calls' = Append(calls, <<Head(toCall[d]), handling[d]>>)
    /\ \/ /\ toCall' = [toCall EXCEPT ![d] = Tail(@)]
          /\ UNCHANGED <<handling, thrown>>
       \/ /\ toCall' = [toCall EXCEPT ![d] = <<>>]
          /\ handling' = [handling EXCEPT ![d] = 0]
          /\ thrown' = thrown \cup {handling[d]}
    /\ UNCHANGED <<dogVars, carries, listens, together>>

Return(d) ==
    /\ handling[d] # 0 /\ toCall[d] = <<>>
    /\ handling' = [handling EXCEPT ![d] = 0]
    /\ UNCHANGED <<dogVars, toCall, carries, listens, calls, thrown, together>>

Next ==
    \/ \E s \in Sensors : AddListener(s) \/ \E l \in Listener : RemoveListener(s, l)
    \/ \E d \in Dispatchers :
         \/ \E present \in SUBSET Sensors : Store(d, present)
         \/ Call(d) \/ Return(d)

Spec == Init /\ [][Next]_vars

-----------------------------------------------------------------------------
(* Properties                                                              *)

\* The listeners sample n is for: those of its sensors that were added before it
\* was stored and not removed until then.
Expected(n) ==
    {l \in Listener : /\ listens[l].to \in carries[n]
                      /\ listens[l].after < n /\ n <= listens[l].upto}

\* The IMU's listeners come first, and those of a sensor in the order they came.
Before(l, m) ==
    \/ listens[l].to = "imu" /\ listens[m].to = "tof"
    \/ listens[l].to = listens[m].to /\ l < m

CalledWith(l, n) == \E i \in DOMAIN calls : calls[i] = <<l, n>>

\* Whatever other threads add and remove meanwhile, a sample goes once, in
\* order, to exactly the listeners that were listed when it was stored; a
\* dispatch that is under way, or that a callback ended, has skipped none.
ServesThoseListed ==
    \A n \in 1..samples :
        /\ \A i \in DOMAIN calls : calls[i][2] = n => calls[i][1] \in Expected(n)
        /\ \A i, j \in DOMAIN calls :
              i < j /\ calls[i][2] = n /\ calls[j][2] = n => Before(calls[i][1], calls[j][1])
        /\ \A l, m \in Expected(n) : Before(l, m) /\ CalledWith(m, n) => CalledWith(l, n)
        /\ n \notin thrown /\ (\A d \in Dispatchers : handling[d] # n)
              => \A l \in Expected(n) : CalledWith(l, n)

\* As long as samples are dispatched one at a time, a listener sees them in
\* order, and it was last called with the one the cache holds unless it came
\* later, has gone, or a callback threw.  (Two threads that dispatch at once can
\* call it in the opposite order, and leave it with the older sample.)
SeenInOrder ==
    ~together =>
        /\ \A i, j \in DOMAIN calls :
              i < j /\ calls[i][1] = calls[j][1] => calls[i][2] < calls[j][2]
        /\ \A s \in Sensors : \A l \in ToSet(callbacks[s]) :
              last[s] > listens[l].after /\ last[s] \notin thrown
                  /\ (\A d \in Dispatchers : handling[d] = 0)
                => CalledWith(l, last[s])
=============================================================================
