----------------------------- MODULE SpeechStream -----------------------------
(***************************************************************************)
(* mimiio_tumbler_ex3: one Stream with the SpeechEvent it belongs to, for  *)
(* one utterance.  Threads: the recorder's callback, the three that Stream *)
(* starts (open, the 60 second monitor, start), the event loop, the one    *)
(* that drives the LED ring, and the library's, which call txfunc          *)
(* and rxfunc.  They share the Stream's fields; mutex_ protects none of    *)
(* them, its unique_locks being declarations of local variables.           *)
(*                                                                         *)
(* The next Stream and SpeechEvent are created when this utterance ends    *)
(* and do the same; of them only what touches this event is here.          *)
(***************************************************************************)
EXTENDS ClientView, Sequences

CONSTANTS
    MaxInSpeech,  \* bound: InSpeech callbacks
    OpenRetries,  \* mimi_open_retry_
    Speculative   \* the values of enableSpeculativeConnection_

ASSUME SpeechStreamAssumption ==
    /\ MaxInSpeech \in Nat
    /\ OpenRetries \in Nat \ {0}
    /\ Speculative \subseteq BOOLEAN

VARIABLES
    spec,           \* enableSpeculativeConnection_
    mio,            \* mio_: "null" or "set", also to a handle that is freed
    state,          \* state_
    recogBreak,     \* recogBreak_
    queued,         \* number of buffers in inputQueue_
    opener, tries,  \* the open thread; its attempts that failed
    monitor,        \* the 60 second monitor
    starter, seen,  \* the start thread; history: the state_ it read last
    recorder,       \* the recorder's callback
    speech, inSpeech, \* the state of this callback; InSpeech callbacks so far
    txPc, txBreak, left, broke, \* txfunc; history: it has returned the break
    events,         \* notifier_, the oldest first
    responses,      \* what rxfunc has been called with
    loop,           \* the event loop
    led, ledS, ledControl, ring, \* the LED thread, led_s_, led_control_, the LED ring
    over            \* main: its arguments, running, or how the process has ended

streamVars == <<mio, state, recogBreak, queued>>
threadVars == <<opener, tries, monitor, starter, seen>>
recorderVars == <<recorder, speech, inSpeech>>
txVars == <<txPc, txBreak, left, broke>>
eventVars == <<loop, led, ledS, ledControl, ring>>
vars == <<clientVars, spec, streamVars, threadVars, recorderVars, txVars,
          events, responses, eventVars, over>>

States == {"initialized", "connecting", "connected", "connectionFailed", "connectionTimedout",
           "streamStarted", "streamFailed", "recogBreaked", "streamEnded"}

SpeechStates == {"NonSpeech", "SpeechStart", "InSpeech", "SpeechEnd"}

\* Results that are not final are only printed; "ping" is any payload that is
\* not JSON: libmimiio gives rxfunc pings too.  Bound: each kind comes once.
Responses == {"final", "ping"}

\* Of the notifications those whose handlers do more than print, and the one
\* of finish().
Events == {"SpeechEnd", "finish"} \union Responses

\* A Stream and its SpeechEvent as their constructors leave them; with a
\* speculative connection open() has been called.
Init ==
    /\ spec \in Speculative
    /\ handle = "null" /\ ClientInit
    /\ mio = "null"
    /\ state = IF spec THEN "connecting" ELSE "initialized"
    /\ opener = IF spec THEN "try" ELSE "none"
    /\ monitor = IF spec THEN "sleep" ELSE "none"
    /\ recogBreak = FALSE /\ queued = 0 /\ tries = 0
    /\ starter = "none" /\ seen = "initialized"
    /\ recorder = "idle" /\ speech = "NonSpeech" /\ inSpeech = 0
    /\ txPc = "none" /\ txBreak = FALSE /\ left = 0 /\ broke = FALSE
    /\ events = <<>> /\ responses = {}
    /\ loop = "wait"
    /\ led = "none" /\ ledS = FALSE /\ ledControl = TRUE /\ ring = "default"
    /\ over = "args"

Alive == over = "none"

\* main returns, or there is undefined behaviour, of which nothing is said:
\* of the threads and the queues nothing is left.
Ends(how) ==
    /\ over' = how
    /\ events' = <<>> /\ responses' = {}
    /\ loop' = "wait" /\ led' = "none"
    /\ ledS' = FALSE /\ ledControl' = TRUE /\ ring' = "default"
    /\ recorder' = "over" /\ queued' = 0 /\ left' = 0 /\ txPc' = "none"
    /\ starter' = "none" /\ monitor' = "none"
    /\ UNCHANGED <<clientVars, spec, mio, state, recogBreak, opener, tries, seen,
                   speech, inSpeech, txBreak, broke>>

\* main up to rec.start(): usage, an unknown format or an exception ends it.
Setup ==
    /\ over = "args"
    /\ over' \in {"none", "exited"}
    /\ UNCHANGED <<clientVars, spec, streamVars, threadVars, recorderVars, txVars,
                   events, responses, eventVars>>

-----------------------------------------------------------------------------
(* Stream::open: the open thread and the monitor.                          *)

EventsUnchanged == UNCHANGED <<events, responses, eventVars, over>>

CallbacksUnchanged == UNCHANGED <<spec, recogBreak, queued, recorderVars, txVars>>

\* open() itself; the caller says what else changes.
OpenStream ==
    /\ state' = "connecting"
    /\ opener' = "try" /\ UNCHANGED tries
    /\ monitor' = "sleep"

OpenOk ==
    /\ opener = "try" /\ opener' = "connected"
    /\ Open
    /\ mio' = "set"
    /\ tries' = 0
    /\ CallbacksUnchanged /\ EventsUnchanged /\ UNCHANGED <<state, monitor, starter, seen>>

OpenFails ==
    /\ opener = "try"
    /\ tries' = (tries + 1) % OpenRetries
    /\ opener' = IF tries' = 0 THEN "connectionFailed" ELSE "try"
    /\ mio' = "null"
    /\ CallbacksUnchanged /\ EventsUnchanged
    /\ UNCHANGED <<clientVars, state, monitor, starter, seen>>

\* The thread's last step, whatever state_ has become in the meantime.
OpenDone ==
    /\ opener \in {"connected", "connectionFailed"}
    /\ opener' = "done"
    /\ state' = opener
    /\ CallbacksUnchanged /\ EventsUnchanged
    /\ UNCHANGED <<clientVars, mio, tries, monitor, starter, seen>>

OpenThread == OpenOk \/ OpenFails \/ OpenDone

MonitorOnly ==
    /\ CallbacksUnchanged /\ EventsUnchanged
    /\ UNCHANGED <<mio, opener, tries, starter, seen>>

\* 60 seconds after open(), at any time as seen by the other threads.
MonitorWakes ==
    /\ monitor = "sleep"
    /\ monitor' = IF state = "connected" THEN "close" ELSE "done"
    /\ MonitorOnly /\ UNCHANGED <<clientVars, state>>

MonitorCloses ==
    /\ monitor = "close" /\ monitor' = "closing"
    /\ Close
    /\ MonitorOnly /\ UNCHANGED state

MonitorClosed ==
    /\ monitor = "closing" /\ monitor' = "closed"
    /\ Free
    /\ MonitorOnly /\ UNCHANGED state

MonitorDone ==
    /\ monitor = "closed" /\ monitor' = "done"
    /\ state' = "connectionTimedout"
    /\ MonitorOnly /\ UNCHANGED clientVars

MonitorThread == MonitorWakes \/ MonitorCloses \/ MonitorClosed \/ MonitorDone

-----------------------------------------------------------------------------
(* Stream::start: the start thread.                                        *)

StarterOnly ==
    /\ CallbacksUnchanged /\ EventsUnchanged
    /\ seen' = IF starter \in {"wait", "rewait"} THEN state ELSE seen

StarterGoto(from, to) == starter = from /\ starter' = to

\* Seeded fault: the open thread is not waited for.
StartsAtOnce ==
    /\ StarterGoto("wait", CASE state = "connectionFailed" -> "done"
                             [] state = "connectionTimedout" -> "reopen"
                             [] OTHER -> "start")
    /\ StarterOnly /\ UNCHANGED <<clientVars, mio, state, opener, tries, monitor>>

\* open_future_.get() returns, state_ is looked at.
StartAwaitsOpen ==
    /\ opener = "done"
    /\ StarterGoto("wait", CASE state = "connectionFailed" -> "done"
                             [] state = "connectionTimedout" -> "reopen"
                             [] OTHER -> "start")
    /\ StarterOnly /\ UNCHANGED <<clientVars, mio, state, opener, tries, monitor>>

\* Replacing connection_monitor_ waits for the monitor that has set the state.
StartReopens ==
    /\ StarterGoto("reopen", "rewait")
    /\ monitor = "done"
    /\ OpenStream
    /\ StarterOnly /\ UNCHANGED <<clientVars, mio>>

StartAwaitsReopen ==
    /\ opener = "done"
    /\ StarterGoto("rewait", IF state = "connected" THEN "start" ELSE "done")
    /\ StarterOnly /\ UNCHANGED <<clientVars, mio, state, opener, tries, monitor>>

\* mimi_start, or its failure, which leaves state_ and the handle as they are.
MimiStart ==
    /\ mio = "set" /\ handle = "open"
    /\ \/ StarterGoto("start", "startRx") /\ LaunchTx
       \/ StarterGoto("startRx", "started") /\ LaunchRx
       \/ starter \in {"start", "startRx"} /\ starter' = "done" /\ UNCHANGED clientVars
    /\ StarterOnly /\ UNCHANGED <<mio, state, opener, tries, monitor>>

StreamStarted ==
    /\ handle = "open"
    /\ StarterGoto("started", "setState") /\ Started
    /\ StarterOnly /\ UNCHANGED <<mio, state, opener, tries, monitor>>

SetStarted ==
    /\ StarterGoto("setState", "watch")
    /\ state' = "streamStarted"
    /\ StarterOnly /\ UNCHANGED <<clientVars, mio, opener, tries, monitor>>

\* mimi_start on a null pointer or on a handle that the monitor closes, or
\* mimi_is_active on one that it has deleted.
StartMisuse ==
    \/ starter = "start" /\ mio = "null" /\ Ends("nullStart")
    \/ /\ starter \in {"start", "startRx", "started"} /\ mio = "set" /\ handle # "open"
       /\ Ends("dangling")
    \/ starter = "watch" /\ handle = "freed" /\ Ends("dangling")

\* The stream has ended; mimi_error, which says how, is not followed here.
StreamOver ==
    /\ StarterGoto("watch", "done")
    /\ handle # "freed" /\ ~Active
    /\ state' \in {"streamFailed", "streamEnded"}
    /\ StarterOnly /\ UNCHANGED <<clientVars, mio, opener, tries, monitor>>

StartThread ==
    \/ StartAwaitsOpen \/ StartReopens \/ StartAwaitsReopen
    \/ MimiStart \/ StreamStarted \/ SetStarted \/ StartMisuse \/ StreamOver

-----------------------------------------------------------------------------
(* The recorder's callback: SpeechEventStack::push, Stream::push.          *)

RecorderOnly == UNCHANGED <<clientVars, spec, mio, txVars, responses, eventVars, over>>

\* The event loop is notified, the buffer queued unless it is empty; start()
\* or recogBreak() follows.
Callback(s, next) ==
    /\ recorder = "idle" /\ recorder' = next
    /\ speech' = s
    /\ inSpeech' = IF s = "InSpeech" THEN inSpeech + 1 ELSE inSpeech
    /\ events' = IF s \in Events THEN Append(events, s) ELSE events
    /\ queued' \in {queued, queued + 1}
    /\ RecorderOnly /\ UNCHANGED <<state, recogBreak, threadVars>>

SpeechStart == speech = "NonSpeech" /\ Callback("SpeechStart", IF spec THEN "check" ELSE "open")

InSpeech ==
    /\ speech \in {"SpeechStart", "InSpeech"} /\ inSpeech < MaxInSpeech
    /\ Callback("InSpeech", "idle")

SpeechEnd == speech \in {"SpeechStart", "InSpeech"} /\ Callback("SpeechEnd", "break")

\* start() without a speculative connection.
StartOpens ==
    /\ recorder = "open" /\ recorder' = "check"
    /\ OpenStream
    /\ RecorderOnly /\ UNCHANGED <<recogBreak, queued, starter, seen, speech, inSpeech, events>>

\* Not after a failed open; otherwise the start thread is started.
StartChecks ==
    /\ recorder = "check" /\ recorder' = "idle"
    /\ starter' = IF state \in {"connecting", "connected", "connectionTimedout"}
                  THEN "wait" ELSE "none"
    /\ RecorderOnly
    /\ UNCHANGED <<state, recogBreak, queued, opener, tries, monitor, seen, speech, inSpeech, events>>

RecogBreak ==
    /\ recorder = "break" /\ recorder' = "breaked"
    /\ recogBreak' = TRUE
    /\ RecorderOnly /\ UNCHANGED <<state, queued, threadVars, speech, inSpeech, events>>

SetRecogBreaked ==
    /\ recorder = "breaked" /\ recorder' = "over"
    /\ state' = "recogBreaked"
    /\ RecorderOnly /\ UNCHANGED <<recogBreak, queued, threadVars, speech, inSpeech, events>>

RecorderThread == StartOpens \/ StartChecks \/ RecogBreak \/ SetRecogBreaked

\* Ctrl-C: rec.stop() returns when no callback runs, and main with it: no
\* stream is closed, no thread joined.
Exit == recorder \in {"idle", "over"} /\ Ends("exited")

-----------------------------------------------------------------------------
(* txfunc, within one call, and rxfunc.                                    *)

TxOnly ==
    UNCHANGED <<spec, mio, state, recogBreak, threadVars, recorderVars,
                events, responses, eventVars, over>>

\* Seeded fault: recogBreak_ is read when the buffers have been popped.
ReturnedLate ==
    /\ TxReturn(recogBreak)
    /\ txPc' = "none" /\ txBreak' = FALSE
    /\ broke' = (broke \/ recogBreak)

Returned ==
    /\ TxReturn(txBreak)
    /\ txPc' = "none" /\ txBreak' = FALSE
    /\ broke' = (broke \/ txBreak)

TxReadBreak ==
    /\ tx = "call" /\ txPc = "none"
    /\ txBreak' = recogBreak
    /\ txPc' = "size"
    /\ TxOnly /\ UNCHANGED <<clientVars, queued, left, broke>>

TxReadSize ==
    /\ txPc = "size"
    /\ left' = queued
    /\ IF queued = 0 THEN Returned
       ELSE txPc' = "pop" /\ UNCHANGED <<clientVars, txBreak, broke>>
    /\ TxOnly /\ UNCHANGED queued

\* Seeded fault: the size is read again for every pop.
TxPopBeyondSize ==
    /\ txPc = "pop" /\ queued > 0
    /\ queued' = queued - 1
    /\ left' = queued
    /\ IF left = 1 THEN Returned ELSE UNCHANGED <<clientVars, txPc, txBreak, broke>>
    /\ TxOnly

\* pop blocks while the queue is empty.
TxPop ==
    /\ txPc = "pop" /\ queued > 0
    /\ queued' = queued - 1
    /\ left' = left - 1
    /\ IF left' = 0 THEN Returned ELSE UNCHANGED <<clientVars, txPc, txBreak, broke>>
    /\ TxOnly

Txfunc == TxReadBreak \/ TxReadSize \/ TxPop

\* The service sends the final result once, after the break.
Rxfunc(kind) ==
    /\ rx = "on" /\ kind \notin responses
    /\ kind = "final" => broke
    /\ events' = Append(events, kind)
    /\ responses' = responses \union {kind}
    /\ UNCHANGED <<clientVars, spec, streamVars, threadVars, recorderVars, txVars,
                   eventVars, over>>

-----------------------------------------------------------------------------
(* The event loop and the handlers, and the thread that drives the LEDs.   *)

LoopOnly ==
    UNCHANGED <<clientVars, spec, streamVars, threadVars, recorderVars, txVars,
                responses, over>>

NextEvent ==
    /\ loop = "wait" /\ events # <<>>
    /\ events' = Tail(events)
    /\ loop' = IF Head(events) = "ping" THEN "thrown" ELSE Head(events)
    /\ LoopOnly /\ UNCHANGED <<led, ledS, ledControl, ring>>

\* The sign is played, the LED thread started.
SpeechEndHandler ==
    /\ loop = "SpeechEnd" /\ loop' = "wait"
    /\ ledS' = TRUE
    /\ led' = "check"
    /\ LoopOnly /\ UNCHANGED <<events, ledControl, ring>>

\* Seeded fault: the LED thread is not told to stop.
FinalKeepsLed ==
    /\ loop = "final" /\ loop' = "join"
    /\ LoopOnly /\ UNCHANGED <<events, led, ledS, ledControl, ring>>

\* Three seconds later.
FinalStopsLed ==
    /\ loop = "final" /\ loop' = "join"
    /\ ledS' = FALSE
    /\ LoopOnly /\ UNCHANGED <<events, led, ledControl, ring>>

\* Seeded fault: the LED thread is not waited for.
FinalDoesNotJoin ==
    /\ loop = "join"
    /\ loop' = IF ledControl THEN "reset" ELSE "finish"
    /\ LoopOnly /\ UNCHANGED <<events, led, ledS, ledControl, ring>>

\* led_f_.get()
FinalJoinsLed ==
    /\ loop = "join" /\ led = "done"
    /\ loop' = IF ledControl THEN "reset" ELSE "finish"
    /\ LoopOnly /\ UNCHANGED <<events, led, ledS, ledControl, ring>>

FinalResetsRing ==
    /\ loop = "reset" /\ loop' = "finish"
    /\ ring' = "default"
    /\ LoopOnly /\ UNCHANGED <<events, led, ledS, ledControl>>

\* finish(): the loop ends, the notification stays.
Finish ==
    /\ loop = "finish" /\ loop' = "finished"
    /\ events' = Append(events, "finish")
    /\ LoopOnly /\ UNCHANGED <<led, ledS, ledControl, ring>>

EventLoop ==
    NextEvent \/ SpeechEndHandler \/ FinalStopsLed \/ FinalJoinsLed \/ FinalResetsRing \/ Finish

\* led_s_ and led_control_ are read, then the pattern is shown.
LedThread ==
    /\ \/ /\ led = "check"
          /\ led' = IF ledS /\ ledControl THEN "show" ELSE "done"
          /\ UNCHANGED ring
       \/ /\ led = "show" /\ led' = "check"
          /\ ring' = "pattern"
    /\ LoopOnly /\ UNCHANGED <<events, loop, ledS, ledControl>>

\* speechStartHandler of the next event, which exists after recogBreak().
ReleaseLEDRingControl ==
    /\ recorder = "over"
    /\ ledControl
    /\ ledControl' = FALSE
    /\ LoopOnly /\ UNCHANGED <<events, loop, led, ledS, ring>>

StreamUnchanged ==
    UNCHANGED <<spec, streamVars, threadVars, recorderVars, txVars,
                events, responses, eventVars, over>>

LibraryStep == Library /\ StreamUnchanged

Over == over \notin {"args", "none"} /\ UNCHANGED vars

Next ==
    \/ Alive /\ (\/ OpenThread \/ MonitorThread \/ StartThread
                 \/ SpeechStart \/ InSpeech \/ SpeechEnd \/ RecorderThread
                 \/ Exit
                 \/ Txfunc \/ LibraryStep \/ \E kind \in Responses : Rxfunc(kind)
                 \/ EventLoop \/ LedThread \/ ReleaseLEDRingControl)
    \/ Setup \/ Over

Spec == Init /\ [][Next]_vars

\* The event's two threads run; the service, the recorder and the library
\* need not do anything.
FairSpec == Spec /\ WF_vars(Alive /\ EventLoop) /\ WF_vars(Alive /\ LedThread)

-----------------------------------------------------------------------------
(* Correctness.                                                            *)

Openers == {"none", "try", "connected", "connectionFailed", "done"}
Monitors == {"none", "sleep", "close", "closing", "closed", "done"}
Starters == {"none", "wait", "reopen", "rewait", "start", "startRx", "started",
             "setState", "watch", "done"}

\* Every variable stays within the values its field or local can take; in
\* particular txfunc pops no more buffers than are queued, so that its pop,
\* which has no timeout, never blocks.
StreamTypeOK ==
    /\ handle \in Handles /\ tx \in TxStates /\ rx \in RxStates /\ err \in Int
    /\ spec \in BOOLEAN /\ mio \in {"null", "set"} /\ state \in States
    /\ recogBreak \in BOOLEAN /\ queued \in 0..(MaxInSpeech + 2)
    /\ opener \in Openers /\ tries \in 0..(OpenRetries - 1)
    /\ monitor \in Monitors /\ starter \in Starters
    /\ seen \in States
    /\ recorder \in {"idle", "open", "check", "break", "breaked", "over"}
    /\ speech \in SpeechStates /\ inSpeech \in 0..MaxInSpeech
    /\ txPc \in {"none", "size", "pop"} /\ txBreak \in BOOLEAN
    /\ left \in 0..queued /\ broke \in BOOLEAN
    /\ events \in Seq(Events) /\ responses \subseteq Responses
    /\ loop \in {"wait", "SpeechEnd", "final", "join", "reset", "finish", "finished", "thrown"}
    /\ led \in {"none", "check", "show", "done"} /\ ledS \in BOOLEAN
    /\ ledControl \in BOOLEAN /\ ring \in {"default", "pattern"}
    /\ over \in {"args", "none", "exited", "nullStart", "dangling"}

\* The recog-break is the last thing the service gets of an utterance: when
\* txfunc returns it, the utterance is over and nothing of it is queued.
AllAudioBeforeBreak == broke => speech = "SpeechEnd" /\ queued = 0

\* The open, the monitor and the start thread call the library only as
\* ClientView lets them, but for the misuses that are an action of their own:
\* mimi_open and mimi_close come in turn, and a handle that is still open when
\* mimi_start is called has not been started.
CallsAreLegal ==
    /\ opener = "try" => handle \in {"null", "freed"}
    /\ monitor = "close" => handle \in {"open", "started"}
    /\ monitor = "closing" => handle = "closing"
    /\ starter = "start" /\ handle = "open" => tx = "off" /\ rx = "off"
    /\ starter = "startRx" /\ handle = "open" => mio = "set" /\ tx # "off" /\ rx = "off"
    /\ starter = "started" /\ handle = "open" => mio = "set" /\ rx # "off"
    /\ starter = "watch" => mio = "set"

\* A handle that is none is used only if recogBreak() has overwritten the
\* state_ that says so before the start thread looked at it, or if the monitor
\* closes after it looked; never by starting before open() has ended.
StartMisuseExplained ==
    /\ over = "nullStart" => seen = "recogBreaked"
    /\ over = "dangling" => seen \in {"connected", "recogBreaked"}

\* The event loop ends with its LED thread ended and the ring as it was, or
\* left to the next event; or else by an exception of the JSON parser.
RingGivenBack ==
    /\ loop = "finished" => led = "done" /\ (ring = "default" \/ ~ledControl)
    /\ loop = "thrown" => "ping" \in responses

\* A final result ends the event loop, unless something that is not JSON has
\* come before.
FinalEndsEvent == "final" \in responses ~> (loop \in {"finished", "thrown"} \/ ~Alive)

-----------------------------------------------------------------------------
(* The inductive invariant behind them: what each thread of a stream and   *)
(* its event knows.                                                        *)

\* A callback queues one buffer at most, txfunc is at a pop if one is due.
QueuedInv ==
    /\ queued <= inSpeech + (IF speech = "NonSpeech" THEN 0 ELSE 1)
                          + (IF speech = "SpeechEnd" THEN 1 ELSE 0)
    /\ txPc = "pop" => left > 0

\* No callback comes after SpeechEnd, recogBreak_ is set after it, and a
\* txfunc that has seen it pops all there is.
BreakInv ==
    /\ recorder \in {"open", "check"} => speech = "SpeechStart"
    /\ recorder = "open" => ~spec
    /\ speech = "SpeechEnd" => recorder \in {"break", "breaked", "over"}
    /\ recorder = "break" => speech = "SpeechEnd"
    /\ recogBreak => speech = "SpeechEnd" /\ recorder \in {"breaked", "over"}
    /\ recorder = "breaked" => recogBreak
    /\ txBreak => recogBreak
    /\ txBreak /\ txPc = "pop" => left = queued
    /\ broke => recogBreak

\* The threads that start() and the constructor have not started yet.
NotYetInv ==
    /\ recorder = "open" \/ (speech = "NonSpeech" /\ ~spec)
            => opener = "none" /\ monitor = "none"
    /\ speech = "NonSpeech" \/ recorder \in {"open", "check"} => starter = "none"

\* Past open(): how mio_ and state_ stand to each other, whichever of the
\* threads has written state_ last.
OpenInv ==
    /\ opener = "connected" => mio = "set"
    /\ opener = "connectionFailed" => mio = "null"
    /\ state = "connected" => mio = "set" /\ opener = "done"
    /\ monitor \in {"close", "closing", "closed"} => mio = "set" /\ opener = "done"
    /\ opener = "done" /\ mio = "null" => state \in {"connectionFailed", "recogBreaked"}
    /\ opener = "done" /\ starter \in {"none", "wait", "reopen", "rewait"} =>
            state \in {"connected", "connectionFailed", "connectionTimedout", "recogBreaked"}

\* Past start(): what the start thread read has led it here.
StarterInv ==
    /\ starter \in {"start", "startRx", "started", "setState", "watch"} =>
            opener = "done" /\ seen \in {"connected", "recogBreaked"}
    /\ starter = "start" /\ mio = "null" => seen = "recogBreaked"
    /\ starter \in {"startRx", "started", "setState", "watch"} => mio = "set"

\* Past the join of the LED thread nobody writes the ring.
LedInv ==
    /\ loop \in {"reset", "finish", "finished"} => led = "done"
    /\ loop \in {"finish", "finished"} => ring = "default" \/ ~ledControl
    /\ \A i \in 1..Len(events) :
            /\ events[i] = "ping" => "ping" \in responses
            /\ events[i] = "finish" => loop = "finished"
    /\ loop = "thrown" => "ping" \in responses

\* Who may still be at a call, by what the handle is: the monitor alone closes
\* it, and another is opened only when it has done so.
CallInv ==
    /\ CallsAreLegal
    /\ opener = "none" => handle = "null" /\ monitor = "none"
    /\ opener \in {"try", "connected", "connectionFailed"} => monitor \in {"sleep", "done"}
    /\ mio = "null" => handle \in {"null", "freed"}
    /\ monitor = "sleep" /\ mio = "set" /\ opener # "try" => handle \in {"open", "started"}
    /\ monitor = "closed" => handle = "freed"
    /\ handle = "closing" => monitor = "closing"
    /\ state = "connectionTimedout" => monitor = "done" /\ handle = "freed" /\ opener = "done"
    /\ starter = "reopen" => monitor = "done" /\ handle = "freed" /\ opener = "done"
    /\ starter \in {"none", "wait", "reopen", "rewait", "start"} => tx = "off" /\ rx = "off"
    /\ starter \in {"none", "wait", "reopen", "rewait", "start", "startRx", "started"} =>
            handle # "started"

\* Threads know something only while there are any.
ThreadsInv == BreakInv /\ NotYetInv /\ OpenInv /\ StarterInv

SpeechInv ==
    /\ StreamTypeOK /\ QueuedInv /\ LedInv
    /\ AllAudioBeforeBreak /\ StartMisuseExplained
    /\ over \in {"args", "none"} => ThreadsInv

-----------------------------------------------------------------------------
(* What the documentation says and the code does not do.                   *)

\* The monitor closes a connection only "if no mimi_start() request" has been
\* made in 60 seconds (class/Stream.cpp:120).
ExpiryOnlyUnstarted ==
    [][MonitorCloses => tx = "off" /\ starter \notin {"startRx", "started", "setState", "watch"}]_vars

=============================================================================
