------------------------------ MODULE PcmStream ------------------------------
(***************************************************************************)
(* The audio example (src/examples/05_audio/bidirectional_pcm_ws_host.cpp):*)
(* the io thread of the WebSocket host queues what the robot sends, a      *)
(* worker plays it through a few buffers, a driver thread sends what the   *)
(* microphone records, and main starts and stops all of them.              *)
(*                                                                         *)
(* Abstracted: a chunk of samples is its number.  External: the wave       *)
(* device plays the buffers it holds in order and fills one buffer after   *)
(* another; waveInReset hands back every buffer it holds.                  *)
(***************************************************************************)
EXTENDS Naturals, FiniteSets, SequencesExt

CONSTANTS
    Playback,     \* the indices of the playback headers, kPlaybackBufferCount of them
    Capture,      \* the capture headers, kCaptureBufferCount of them
    NoHeader,     \* no header
    QueueLimit,   \* the 50 of WaveOutput::write
    MaxChunks     \* bound: chunks the robot sends

ASSUME PcmAssumption ==
    /\ Playback \subseteq Nat /\ Playback # {}
    /\ NoHeader \notin Capture
    /\ QueueLimit \in Nat /\ MaxChunks \in Nat

NoChunk == 0

VARIABLES
    main,        \* where main is
    robot,       \* the robot is connected
    hostUp,      \* the host serves, its message handler may run
    received,    \* chunks received so far
    \* WaveOutput
    stopping,    \* stopping_
    queue,       \* queue_
    worker,      \* where _run is
    data,        \* local "data" of _run
    buffers,     \* buffers_: the chunk in each playback buffer
    device,      \* external: the headers that are WHDR_INQUEUE, in playing order
    played,      \* history: chunks handed to the device, in order
    gone,        \* history: chunks that came too late, were dropped from a full queue
                 \* or refused by the device
    missed,      \* history: the device ran empty between the worker's test and its
                 \* sleep, so that no WOM_DONE is left to wake it
    \* WaveInput
    running,     \* running_
    recording,   \* external: waveInStart has been called
    capturing,   \* external: the capture headers the device holds
    callback,    \* the header _wave_in_proc has, or NoHeader
    adding,      \* _wave_in_proc has seen running_ and will give the header back
    idle,        \* capture headers that nobody holds
    early,       \* history: headers filled before start set running_
    strays       \* history: headers given to the device after stop cleared running_,
                 \* or left with it by a constructor or a start that threw

outVars == <<stopping, queue, worker, data, buffers, device, played, gone, missed>>
inVars == <<running, recording, capturing, callback, adding, idle, early, strays>>
pcmVars == <<main, robot, hostUp, received, outVars, inVars>>

\* main begins with the output open and its worker started, the host up.
PcmInit ==
    /\ main = "wait"
    /\ robot = FALSE
    /\ hostUp = TRUE
    /\ received = 0
    /\ stopping = FALSE
    /\ queue = <<>>
    /\ worker = "cv"
    /\ data = NoChunk
    /\ buffers = [h \in Playback |-> NoChunk]
    /\ device = <<>>
    /\ played = <<>>
    /\ gone = {}
    /\ missed = FALSE
    /\ running = FALSE
    /\ recording = FALSE
    /\ capturing = {}
    /\ callback = NoHeader
    /\ adding = FALSE
    /\ idle = Capture
    /\ early = {}
    /\ strays = {}

-----------------------------------------------------------------------------
(* WaveOutput: write, on the io thread.                                    *)

\* The worker keeps the mutex between its test of doneCv_ and its sleep.
MutexFree == worker # "dozing"

\* Mutant: nothing is dropped.
WriteUnbounded ==
    /\ hostUp /\ robot /\ MutexFree
    /\ received < MaxChunks
    /\ received' = received + 1
    /\ IF stopping
       THEN gone' = gone \cup {received + 1} /\ UNCHANGED queue
       ELSE queue' = Append(queue, received + 1) /\ UNCHANGED gone
    /\ UNCHANGED <<main, robot, hostUp, stopping, worker, data, buffers, device, played,
                   missed, inVars>>

\* A packet of samples arrives.  After stop it is refused; a queue above the
\* limit loses its oldest chunk, so one more than the limit fits.
Write ==
    /\ hostUp /\ robot /\ MutexFree
    /\ received < MaxChunks
    /\ received' = received + 1
    /\ IF stopping
       THEN gone' = gone \cup {received + 1} /\ UNCHANGED queue
       ELSE IF Len(queue) > QueueLimit
       THEN queue' = Append(Tail(queue), received + 1) /\ gone' = gone \cup {Head(queue)}
       ELSE queue' = Append(queue, received + 1) /\ UNCHANGED gone
    /\ UNCHANGED <<main, robot, hostUp, stopping, worker, data, buffers, device, played,
                   missed, inVars>>

-----------------------------------------------------------------------------
(* WaveOutput: the worker thread, _run.                                    *)

\* Mutant: the flags are not looked at.
AnyHeader == Playback

\* The headers that are not WHDR_INQUEUE.
Free == Playback \ ToSet(device)

\* Inside the mutex, once cv_ lets it: the end, a chunk, or a wait on doneCv_.
TakeOrWait ==
    \/ /\ stopping
       /\ worker' = "ended"
       /\ UNCHANGED <<queue, data>>
    \/ /\ ~stopping /\ Free # {}
       /\ data' = Head(queue)
       /\ queue' = Tail(queue)
       /\ worker' = "fill"
    \/ /\ ~stopping /\ Free = {}
       /\ worker' = "dozing"
       /\ UNCHANGED <<queue, data>>

\* cv_.wait: its condition changes and is notified under the mutex.
Wake ==
    /\ worker = "cv"
    /\ stopping \/ queue # <<>>
    /\ TakeOrWait
    /\ UNCHANGED <<main, robot, hostUp, received, stopping, buffers, device, played, gone,
                   missed, inVars>>

\* doneCv_.wait releases the mutex and sleeps.
Sleep ==
    /\ worker = "dozing"
    /\ worker' = "asleep"
    /\ UNCHANGED <<main, robot, hostUp, received, stopping, queue, data, buffers, device,
                   played, gone, missed, inVars>>

\* It was notified: the condition is tested again.
Rewake ==
    /\ worker = "woken"
    /\ TakeOrWait
    /\ UNCHANGED <<main, robot, hostUp, received, stopping, buffers, device, played, gone,
                   missed, inVars>>

\* _free_header: the first that is not WHDR_INQUEUE, if there is one.
FreeHeader == {h \in Free : \A g \in Free : h <= g}

\* Outside the mutex: the chunk goes into the buffer of a free header, and the
\* header to the device, which may refuse it.  Without a free header the chunk
\* would be lost.
Fill ==
    /\ worker = "fill"
    /\ worker' = "cv"
    /\ IF FreeHeader = {}
       THEN UNCHANGED <<buffers, device, played, gone>>
       ELSE \E h \in FreeHeader :
              /\ buffers' = [buffers EXCEPT ![h] = data]
              /\ \/ /\ device' = Append(device, h)
                    /\ played' = Append(played, data)
                    /\ UNCHANGED gone
                 \/ /\ gone' = gone \cup {data}
                    /\ UNCHANGED <<device, played>>
    /\ UNCHANGED <<main, robot, hostUp, received, stopping, queue, data, missed, inVars>>

\* Mutant: _wave_out_proc notifies nobody.
DoneSilent ==
    /\ device # <<>>
    /\ device' = Tail(device)
    /\ UNCHANGED <<main, robot, hostUp, received, stopping, queue, worker, data, buffers,
                   played, gone, missed, inVars>>

\* _wave_out_proc: the oldest buffer has been played; notify_one without the
\* mutex reaches the worker only if it sleeps already.
Done ==
    /\ device # <<>>
    /\ device' = Tail(device)
    /\ worker' = IF worker = "asleep" THEN "woken" ELSE worker
    /\ missed' = (missed \/ (worker = "dozing" /\ Len(device) = 1))
    /\ UNCHANGED <<main, robot, hostUp, received, stopping, queue, data, buffers, played,
                   gone, inVars>>

-----------------------------------------------------------------------------
(* WaveInput: the driver's thread, _wave_in_proc.                          *)

\* The device has filled a buffer; what it recorded is sent.
Recorded(h) ==
    /\ recording /\ callback = NoHeader
    /\ h \in capturing
    /\ capturing' = capturing \ {h}
    /\ callback' = h
    /\ UNCHANGED <<main, robot, hostUp, received, outVars, running, recording, adding,
                   idle, early, strays>>

\* The second test of running_: without it the buffer goes nowhere.
TestRunning ==
    /\ callback # NoHeader /\ ~adding
    /\ IF running
       THEN adding' = TRUE /\ UNCHANGED <<callback, idle, early>>
       ELSE /\ callback' = NoHeader
            /\ idle' = idle \cup {callback}
            /\ early' = IF main = "run" THEN early \cup {callback} ELSE early
            /\ UNCHANGED adding
    /\ UNCHANGED <<main, robot, hostUp, received, outVars, running, recording, capturing,
                   strays>>

\* waveInAddBuffer; running_ may have changed since the test.
AddBuffer ==
    /\ adding
    /\ capturing' = capturing \cup {callback}
    /\ strays' = IF running THEN strays ELSE strays \cup {callback}
    /\ callback' = NoHeader
    /\ adding' = FALSE
    /\ UNCHANGED <<main, robot, hostUp, received, outVars, running, recording, idle, early>>

-----------------------------------------------------------------------------
(* main, with WaveInput's and WaveOutput's start, stop and destructors.    *)

Goto(l) == main' = l

RobotComesOrGoes ==
    /\ hostUp
    /\ robot' = ~robot
    /\ UNCHANGED <<main, hostUp, received, outVars, inVars>>

\* wait_robot_connected; a timeout returns, and the destructors follow.
WaitRobot ==
    /\ main = "wait"
    /\ Goto(IF robot THEN "open" ELSE "unwind")
    /\ UNCHANGED <<robot, hostUp, received, outVars, inVars>>

\* WaveInput gives every header to the device.  When it throws midway its
\* destructor does not run: the device keeps what it got.
OpenInput ==
    /\ main = "open"
    /\ \/ Goto("start") /\ capturing' = Capture /\ UNCHANGED strays
       \/ \E given \in SUBSET Capture :
            Goto("unwind") /\ capturing' = given /\ strays' = given
    /\ idle' = Capture \ capturing'
    /\ UNCHANGED <<robot, hostUp, received, outVars, running, recording, callback, adding,
                   early>>

\* waveInStart.  When it fails the destructor's stop finds running_ false and
\* resets nothing.
StartInput ==
    /\ main = "start"
    /\ \/ Goto("run") /\ recording' = TRUE /\ UNCHANGED strays
       \/ Goto("unwind") /\ strays' = capturing /\ UNCHANGED recording
    /\ UNCHANGED <<robot, hostUp, received, outVars, running, capturing, callback, adding,
                   idle, early>>

SetRunning ==
    /\ main = "run"
    /\ running' = TRUE
    /\ Goto("loop")
    /\ UNCHANGED <<robot, hostUp, received, outVars, recording, capturing, callback,
                   adding, idle, early, strays>>

\* The loop ends when the robot is gone or the time is over.
LeaveLoop ==
    /\ main = "loop"
    /\ Goto("stop_input")
    /\ UNCHANGED <<robot, hostUp, received, outVars, inVars>>

\* Mutant: the device is reset first, running_ is cleared after it.
ResetInputFirst ==
    /\ main \in {"stop_input", "reset_input"}
    /\ IF main = "stop_input"
       THEN /\ Goto("reset_input")
            /\ capturing' = {} /\ idle' = idle \cup capturing
            /\ UNCHANGED running
       ELSE Goto("stop_output") /\ running' = FALSE /\ UNCHANGED <<capturing, idle>>
    /\ UNCHANGED <<robot, hostUp, received, outVars, recording, callback, adding, early,
                   strays>>

\* WaveInput::stop: running_ is cleared, then waveInStop and waveInReset hand
\* every buffer back.
StopInput ==
    /\ main \in {"stop_input", "reset_input"}
    /\ IF main = "stop_input"
       THEN Goto("reset_input") /\ running' = FALSE /\ UNCHANGED <<recording, capturing, idle>>
       ELSE /\ Goto("stop_output")
            /\ recording' = FALSE
            /\ capturing' = {} /\ idle' = idle \cup capturing
            /\ UNCHANGED running
    /\ UNCHANGED <<robot, hostUp, received, outVars, callback, adding, early, strays>>

\* Mutant: only cv_ is notified.
StopOutputOneCv ==
    /\ main = "stop_output"
    /\ MutexFree
    /\ stopping' = TRUE
    /\ Goto("join")
    /\ UNCHANGED <<robot, hostUp, received, queue, worker, data, buffers, device, played,
                   gone, missed, inVars>>

\* WaveOutput::stop under the mutex, and both notifications.
StopOutput ==
    /\ main = "stop_output"
    /\ MutexFree
    /\ stopping' = TRUE
    /\ worker' = IF worker = "asleep" THEN "woken" ELSE worker
    /\ Goto("join")
    /\ UNCHANGED <<robot, hostUp, received, queue, data, buffers, device, played, gone,
                   missed, inVars>>

\* The rest of it: the worker is joined and the device reset and closed.
JoinOutput ==
    /\ main = "join"
    /\ worker = "ended"
    /\ device' = <<>>
    /\ Goto(IF hostUp THEN "stop_host" ELSE "end")
    /\ UNCHANGED <<robot, hostUp, received, stopping, queue, worker, data, buffers, played,
                   gone, missed, inVars>>

\* host.stop, or its destructor when main returns early; then, on the normal
\* way, ~WaveInput closes the device.
StopHost ==
    /\ main \in {"stop_host", "unwind"}
    /\ hostUp' = FALSE /\ robot' = FALSE
    /\ Goto(IF main = "unwind" THEN "stop_output" ELSE "end")
    /\ UNCHANGED <<received, outVars, inVars>>

MainStep ==
    \/ WaitRobot \/ OpenInput \/ StartInput \/ SetRunning \/ LeaveLoop
    \/ StopInput \/ StopOutput \/ JoinOutput \/ StopHost
WorkerStep == Wake \/ Sleep \/ Rewake \/ Fill
DriverStep == TestRunning \/ AddBuffer

PcmNext ==
    \/ MainStep \/ WorkerStep \/ DriverStep
    \/ RobotComesOrGoes \/ Write \/ Done
    \/ \E h \in Capture : Recorded(h)

\* The threads run, and the device plays what it holds; nothing makes main
\* leave its loop as long as the robot stays.
PcmSpec ==
    /\ PcmInit /\ [][PcmNext]_pcmVars
    /\ WF_pcmVars(main # "loop" /\ MainStep)
    /\ WF_pcmVars(WorkerStep) /\ WF_pcmVars(DriverStep) /\ WF_pcmVars(Done)

-----------------------------------------------------------------------------
(* Properties                                                              *)

\* Every variable holds a value of its kind.
TypeOK ==
    /\ main \in {"wait", "open", "start", "run", "loop", "stop_input", "reset_input",
                 "stop_output", "join", "stop_host", "unwind", "end"}
    /\ robot \in BOOLEAN /\ hostUp \in BOOLEAN /\ received \in Nat
    /\ stopping \in BOOLEAN /\ missed \in BOOLEAN
    /\ queue \in Seq(Nat) /\ Len(queue) <= QueueLimit + 1
    /\ worker \in {"cv", "dozing", "asleep", "woken", "fill", "ended"}
    /\ data \in Nat /\ buffers \in [Playback -> Nat]
    /\ device \in Seq(Playback) /\ played \in Seq(Nat) /\ gone \subseteq Nat
    /\ running \in BOOLEAN /\ recording \in BOOLEAN /\ adding \in BOOLEAN
    /\ callback \in Capture \cup {NoHeader}
    /\ capturing \subseteq Capture /\ idle \subseteq Capture
    /\ early \subseteq Capture /\ strays \subseteq Capture

\* What the robot sends is played in order and at most once, a buffer is not
\* written while the device holds it, and a chunk that is not played was
\* dropped by a full queue, refused by the device or came after stop.
PlayedInOrder ==
    /\ \A i, j \in DOMAIN played : i < j => played[i] < played[j]
    /\ \A i \in DOMAIN device :
          buffers[device[i]] = played[Len(played) - Len(device) + i]
    /\ 1..received = ToSet(queue) \cup ToSet(played) \cup gone
                     \cup {n \in {data} : worker = "fill"}

\* A capture buffer goes round as long as the example records, unless it was
\* filled before start set running_; and when main has ended the device holds
\* none, unless it was given back while stop ran, or opening or starting threw.
CaptureGoesRound ==
    /\ running => idle \subseteq early
    /\ main = "end" => capturing \subseteq strays

\* The output seen from outside: the chunk that the worker holds still waits, and
\* what plays is what is in the buffers of the device.
Waiting == IF worker = "fill" THEN <<data>> \o queue ELSE queue
Playing == [i \in 1..Len(device) |-> buffers[device[i]]]
Phase ==
    IF ~stopping THEN "on"
    ELSE IF worker = "fill" THEN "draining"
    ELSE IF main \in {"stop_host", "end"} THEN "closed" ELSE "stopped"

Contract == INSTANCE PlaybackContract WITH
    Limit <- QueueLimit, last <- received, waiting <- Waiting, playing <- Playing,
    phase <- Phase

\* WaveOutput keeps the playback contract: chunks start in order, nothing that
\* plays is overwritten, what waits stays within the limit of write, and after
\* stop at most the one chunk that the worker holds starts.
PlaybackContractSpec == Contract!Spec

\* The worker sleeps on doneCv_ although every header is free.  A chunk that
\* arrives does not wake it, because write notifies cv_ only.
Stalled == worker = "asleep" /\ device = <<>>

\* A chunk in the queue is taken out, unless the output is stopped, or it stalls
\* because the device ran empty between the worker's test and its sleep.  That
\* WOM_DONE is notified without the mutex costs a wakeup, but any buffer that is
\* still with the device makes up for it.
PlaybackGoesOn ==
    \A n \in 1..MaxChunks :
        n \in ToSet(queue) ~> (n \notin ToSet(queue) \/ stopping \/ (Stalled /\ missed))

\* The same without the exception.  The code fails it: a stalled output plays
\* nothing until stop.
PlaybackNeverStalls ==
    \A n \in 1..MaxChunks : n \in ToSet(queue) ~> (n \notin ToSet(queue) \/ stopping)

\* Once main has left its loop, or given up, it returns: stop always reaches
\* the worker, even one that has missed a notification.
MainReturns == main \in {"stop_input", "unwind"} ~> main = "end"
=============================================================================
