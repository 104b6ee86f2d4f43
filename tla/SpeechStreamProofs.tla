-------------------------- MODULE SpeechStreamProofs --------------------------
(***************************************************************************)
(* Proofs about SpeechStream, for any number of buffers in an utterance    *)
(* and any number of attempts to open a connection.                        *)
(***************************************************************************)
EXTENDS SpeechStream, TLAPS

\* The sets that the fields of Stream and SpeechEvent take their values from.
EnumOK ==
    /\ handle \in Handles /\ tx \in TxStates /\ rx \in RxStates /\ err \in Int
    /\ mio \in {"null", "set"} /\ state \in States
    /\ opener \in Openers /\ monitor \in Monitors /\ starter \in Starters /\ seen \in States
    /\ recorder \in {"idle", "open", "check", "break", "breaked", "over"}
    /\ speech \in SpeechStates /\ txPc \in {"none", "size", "pop"}
    /\ responses \subseteq Responses
    /\ led \in {"none", "check", "show", "done"} /\ ring \in {"default", "pattern"}
    /\ over \in {"args", "none", "exited", "nullStart", "dangling"}

\* What the threads only set or clear.
FlagsOK ==
    /\ spec \in BOOLEAN /\ recogBreak \in BOOLEAN /\ txBreak \in BOOLEAN /\ broke \in BOOLEAN
    /\ ledS \in BOOLEAN /\ ledControl \in BOOLEAN

\* The buffers in the queue, the callbacks and the attempts to open.
CountsOK ==
    /\ queued \in Nat /\ left \in 0..queued /\ QueuedInv
    /\ inSpeech \in 0..MaxInSpeech /\ tries \in 0..(OpenRetries - 1)

\* The notifications, and where the event loop is with them.
EventsOK ==
    /\ events \in Seq(Events)
    /\ loop \in {"wait", "SpeechEnd", "final", "join", "reset", "finish", "finished", "thrown"}

Typed == EnumOK /\ FlagsOK /\ CountsOK /\ EventsOK

\* Every step keeps the enumerations.
LEMMA EnumStep ==
    ASSUME EnumOK, [Next]_vars
    PROVE  EnumOK'
<1> USE DEF EnumOK, clientVars, streamVars, threadVars, recorderVars, txVars, eventVars,
            CallbacksUnchanged, EventsUnchanged, Handles, TxStates, RxStates, States,
            Openers, Monitors, Starters, SpeechStates
<1>1. CASE OpenThread
  BY <1>1 DEF OpenThread, OpenOk, Open, OpenFails, OpenDone
<1>2. CASE MonitorThread
  BY <1>2 DEF MonitorThread, MonitorWakes, MonitorCloses, Close, MonitorClosed, Free,
       MonitorDone, MonitorOnly
<1>3. CASE StartAwaitsOpen \/ StartAwaitsReopen
  BY <1>3 DEF StartAwaitsOpen, StartAwaitsReopen, StarterGoto, StarterOnly
<1>4. CASE StartReopens
  BY <1>4 DEF StartReopens, OpenStream, StarterGoto, StarterOnly
<1>5. CASE MimiStart \/ StreamStarted
  BY <1>5 DEF MimiStart, LaunchTx, LaunchRx, StreamStarted, Started, StarterGoto,
       StarterOnly
<1>6. CASE SetStarted \/ StreamOver
  BY <1>6 DEF SetStarted, StreamOver, StarterGoto, StarterOnly
<1>7. CASE StartMisuse \/ Exit
  BY <1>7 DEF StartMisuse, Exit, Ends
<1>8. CASE SpeechStart \/ InSpeech \/ SpeechEnd
  BY <1>8 DEF SpeechStart, InSpeech, SpeechEnd, Callback, RecorderOnly
<1>9. CASE RecorderThread
  BY <1>9 DEF RecorderThread, StartOpens, OpenStream, StartChecks, RecogBreak,
       SetRecogBreaked, RecorderOnly
<1>10. CASE Txfunc
  BY <1>10 DEF Txfunc, TxReadBreak, TxReadSize, TxPop, Returned, TxReturn, TxOnly
<1>11. CASE LibraryStep
  BY <1>11 DEF LibraryStep, Library, TxAsk, TxGiveUp, TxEnd, RxGiveUp, RxEnd,
       StreamUnchanged
<1>12. CASE \E kind \in Responses : Rxfunc(kind)
  BY <1>12 DEF Rxfunc
<1>13. CASE EventLoop
  BY <1>13 DEF EventLoop, NextEvent, SpeechEndHandler, FinalStopsLed, FinalJoinsLed,
       FinalResetsRing, Finish, LoopOnly
<1>14. CASE LedThread \/ ReleaseLEDRingControl
  BY <1>14 DEF LedThread, ReleaseLEDRingControl, LoopOnly
<1>15. CASE Setup
  BY <1>15 DEF Setup
<1>16. CASE UNCHANGED vars
  BY <1>16 DEF vars
<1> QED
  BY <1>1, <1>2, <1>3, <1>4, <1>5, <1>6, <1>7, <1>8, <1>9, <1>10, <1>11, <1>12, <1>13,
     <1>14, <1>15, <1>16
     DEF Next, StartThread, Over

\* Every step keeps the flags.
LEMMA FlagsStep ==
    ASSUME FlagsOK, [Next]_vars
    PROVE  FlagsOK'
<1> USE DEF FlagsOK, streamVars, recorderVars, txVars, eventVars, CallbacksUnchanged,
            EventsUnchanged
<1>1. CASE OpenThread
  BY <1>1 DEF OpenThread, OpenOk, Open, OpenFails, OpenDone
<1>2. CASE MonitorThread
  BY <1>2 DEF MonitorThread, MonitorWakes, MonitorCloses, Close, MonitorClosed, Free,
       MonitorDone, MonitorOnly
<1>3. CASE StartAwaitsOpen \/ StartAwaitsReopen
  BY <1>3 DEF StartAwaitsOpen, StartAwaitsReopen, StarterGoto, StarterOnly
<1>4. CASE StartReopens
  BY <1>4 DEF StartReopens, OpenStream, StarterGoto, StarterOnly
<1>5. CASE MimiStart \/ StreamStarted
  BY <1>5 DEF MimiStart, LaunchTx, LaunchRx, StreamStarted, Started, StarterGoto,
       StarterOnly
<1>6. CASE SetStarted \/ StreamOver
  BY <1>6 DEF SetStarted, StreamOver, StarterGoto, StarterOnly
<1>7. CASE StartMisuse \/ Exit
  BY <1>7 DEF StartMisuse, Exit, Ends
<1>8. CASE SpeechStart \/ InSpeech \/ SpeechEnd
  BY <1>8 DEF SpeechStart, InSpeech, SpeechEnd, Callback, RecorderOnly
<1>9. CASE RecorderThread
  BY <1>9 DEF RecorderThread, StartOpens, OpenStream, StartChecks, RecogBreak,
       SetRecogBreaked, RecorderOnly
<1>10. CASE Txfunc
  BY <1>10 DEF Txfunc, TxReadBreak, TxReadSize, TxPop, Returned, TxReturn, TxOnly
<1>11. CASE LibraryStep
  BY <1>11 DEF LibraryStep, Library, TxAsk, TxGiveUp, TxEnd, RxGiveUp, RxEnd,
       StreamUnchanged
<1>12. CASE \E kind \in Responses : Rxfunc(kind)
  BY <1>12 DEF Rxfunc
<1>13. CASE EventLoop
  BY <1>13 DEF EventLoop, NextEvent, SpeechEndHandler, FinalStopsLed, FinalJoinsLed,
       FinalResetsRing, Finish, LoopOnly
<1>14. CASE LedThread \/ ReleaseLEDRingControl
  BY <1>14 DEF LedThread, ReleaseLEDRingControl, LoopOnly
<1>15. CASE Setup
  BY <1>15 DEF Setup
<1>16. CASE UNCHANGED vars
  BY <1>16 DEF vars
<1> QED
  BY <1>1, <1>2, <1>3, <1>4, <1>5, <1>6, <1>7, <1>8, <1>9, <1>10, <1>11, <1>12, <1>13,
     <1>14, <1>15, <1>16
     DEF Next, StartThread, Over

\* Every step keeps the counters in their ranges.
LEMMA CountsStep ==
    ASSUME CountsOK, [Next]_vars
    PROVE  CountsOK'
<1> USE DEF CountsOK, QueuedInv, streamVars, threadVars, recorderVars, txVars,
            CallbacksUnchanged, SpeechStreamAssumption
<1>1. CASE OpenThread
  BY <1>1, SpeechStreamAssumption DEF OpenThread, OpenOk, Open, OpenFails, OpenDone
<1>2. CASE MonitorThread
  BY <1>2 DEF MonitorThread, MonitorWakes, MonitorCloses, Close, MonitorClosed, Free,
       MonitorDone, MonitorOnly
<1>3. CASE StartAwaitsOpen \/ StartAwaitsReopen
  BY <1>3 DEF StartAwaitsOpen, StartAwaitsReopen, StarterGoto, StarterOnly
<1>4. CASE StartReopens
  BY <1>4 DEF StartReopens, OpenStream, StarterGoto, StarterOnly
<1>5. CASE MimiStart \/ StreamStarted
  BY <1>5 DEF MimiStart, LaunchTx, LaunchRx, StreamStarted, Started, StarterGoto,
       StarterOnly
<1>6. CASE SetStarted \/ StreamOver
  BY <1>6 DEF SetStarted, StreamOver, StarterGoto, StarterOnly
<1>7. CASE StartMisuse \/ Exit
  BY <1>7 DEF StartMisuse, Exit, Ends
<1>8. CASE SpeechStart \/ InSpeech \/ SpeechEnd
  BY <1>8, SpeechStreamAssumption DEF SpeechStart, InSpeech, SpeechEnd, Callback,
       RecorderOnly
<1>9. CASE RecorderThread
  BY <1>9 DEF RecorderThread, StartOpens, OpenStream, StartChecks, RecogBreak,
       SetRecogBreaked, RecorderOnly
<1>10. CASE Txfunc
  BY <1>10 DEF Txfunc, TxReadBreak, TxReadSize, TxPop, Returned, TxReturn, TxOnly
<1>11. CASE LibraryStep
  BY <1>11 DEF LibraryStep, Library, TxAsk, TxGiveUp, TxEnd, RxGiveUp, RxEnd,
       StreamUnchanged
<1>12. CASE \E kind \in Responses : Rxfunc(kind)
  BY <1>12 DEF Rxfunc
<1>13. CASE EventLoop
  BY <1>13 DEF EventLoop, NextEvent, SpeechEndHandler, FinalStopsLed, FinalJoinsLed,
       FinalResetsRing, Finish, LoopOnly
<1>14. CASE LedThread \/ ReleaseLEDRingControl
  BY <1>14 DEF LedThread, ReleaseLEDRingControl, LoopOnly
<1>15. CASE Setup
  BY <1>15 DEF Setup
<1>16. CASE UNCHANGED vars
  BY <1>16 DEF vars
<1> QED
  BY <1>1, <1>2, <1>3, <1>4, <1>5, <1>6, <1>7, <1>8, <1>9, <1>10, <1>11, <1>12, <1>13,
     <1>14, <1>15, <1>16
     DEF Next, StartThread, Over

\* What notifying and taking a notification do to the queue of notifier_.
LEMMA EventFacts ==
    ASSUME NEW q \in Seq(Events)
    PROVE  /\ \A e \in Events : /\ Append(q, e) \in Seq(Events)
                                /\ Len(Append(q, e)) = Len(q) + 1
                                /\ \A i \in 1..Len(q) : Append(q, e)[i] = q[i]
                                /\ Append(q, e)[Len(q) + 1] = e
           /\ q # <<>> => /\ Tail(q) \in Seq(Events) /\ Len(Tail(q)) = Len(q) - 1
                          /\ Head(q) = q[1] /\ Head(q) \in Events
                          /\ \A i \in 1..Len(Tail(q)) : Tail(q)[i] = q[i + 1]
           /\ Len(q) \in Nat
           /\ <<>> \in Seq(Events) /\ Len(<<>>) = 0
OBVIOUS

\* Every step keeps the notifications, and what the event loop knows.
LEMMA EventsStep ==
    ASSUME EventsOK, LedInv, [Next]_vars
    PROVE  EventsOK' /\ LedInv'
<1> USE DEF EventsOK, LedInv, eventVars, EventsUnchanged
<1>1. CASE OpenThread
  BY <1>1 DEF OpenThread, OpenOk, Open, OpenFails, OpenDone
<1>2. CASE MonitorThread
  BY <1>2 DEF MonitorThread, MonitorWakes, MonitorCloses, Close, MonitorClosed, Free,
       MonitorDone, MonitorOnly
<1>3. CASE StartAwaitsOpen \/ StartAwaitsReopen
  BY <1>3 DEF StartAwaitsOpen, StartAwaitsReopen, StarterGoto, StarterOnly
<1>4. CASE StartReopens
  BY <1>4 DEF StartReopens, OpenStream, StarterGoto, StarterOnly
<1>5. CASE MimiStart \/ StreamStarted
  BY <1>5 DEF MimiStart, LaunchTx, LaunchRx, StreamStarted, Started, StarterGoto,
       StarterOnly
<1>6. CASE SetStarted \/ StreamOver
  BY <1>6 DEF SetStarted, StreamOver, StarterGoto, StarterOnly
<1>7. CASE StartMisuse \/ Exit
  <2>1. events' = <<>> /\ loop' = "wait"
    BY <1>7 DEF StartMisuse, Exit, Ends
  <2>2. Len(events') = 0 /\ EventsOK'
    BY <2>1, EventFacts
  <2> QED
    BY <2>1, <2>2
<1>8. CASE SpeechStart \/ InSpeech \/ SpeechEnd
  <2>1. events' = events \/ events' = Append(events, "SpeechEnd")
    BY <1>8 DEF SpeechStart, InSpeech, SpeechEnd, Callback, Events, Responses
  <2>2. UNCHANGED <<responses, loop, led, ring, ledControl>>
    BY <1>8 DEF SpeechStart, InSpeech, SpeechEnd, Callback, RecorderOnly
  <2>3. "SpeechEnd" \in Events
    BY DEF Events
  <2> QED
    BY <2>1, <2>2, <2>3, EventFacts
<1>9. CASE RecorderThread
  BY <1>9 DEF RecorderThread, StartOpens, OpenStream, StartChecks, RecogBreak,
       SetRecogBreaked, RecorderOnly
<1>10. CASE Txfunc
  BY <1>10 DEF Txfunc, TxReadBreak, TxReadSize, TxPop, Returned, TxReturn, TxOnly
<1>11. CASE LibraryStep
  BY <1>11 DEF LibraryStep, Library, TxAsk, TxGiveUp, TxEnd, RxGiveUp, RxEnd,
       StreamUnchanged
<1>12. CASE \E kind \in Responses : Rxfunc(kind)
  <2>1. PICK kind \in Responses : Rxfunc(kind)
    BY <1>12
  <2>2. /\ events' = Append(events, kind) /\ loop' = loop
        /\ responses' = responses \union {kind}
        /\ UNCHANGED <<led, ring, ledControl>>
    BY <2>1 DEF Rxfunc
  <2>3. kind \in Events /\ kind # "finish"
    BY DEF Events, Responses
  <2> QED
    BY <2>2, <2>3, EventFacts
<1>13. CASE EventLoop
  <2>1. CASE NextEvent
    <3>1. events # <<>> /\ loop = "wait"
      BY <2>1 DEF NextEvent
    <3>2. events' = Tail(events) /\ responses' = responses /\ led' = led
      BY <2>1 DEF NextEvent, LoopOnly
    <3>3. loop' = IF events[1] = "ping" THEN "thrown" ELSE events[1]
      BY <2>1, <3>1, EventFacts DEF NextEvent
    <3>4. events[1] \in Events /\ 1 \in 1..Len(events)
      BY <3>1, EventFacts
    <3>5. EventsOK'
      BY <3>1, <3>2, <3>3, <3>4, EventFacts DEF Events, Responses
    <3>6. \A i \in 1..Len(events') : events'[i] = events[i + 1] /\ i + 1 \in 1..Len(events)
      BY <3>1, <3>2, EventFacts
    <3>7. /\ loop' \in {"SpeechEnd", "final", "thrown"}
          /\ loop' = "thrown" => "ping" \in responses
      BY <3>1, <3>3, <3>4 DEF Events, Responses
    <3>8. \A i \in 1..Len(events') :
            (events'[i] = "ping" => "ping" \in responses') /\ events'[i] # "finish"
      BY <3>1, <3>2, <3>6
    <3>9. LedInv'
      BY <3>2, <3>7, <3>8
    <3> QED
      BY <3>5, <3>9
  <2>2. CASE SpeechEndHandler \/ FinalStopsLed \/ FinalJoinsLed \/ FinalResetsRing
    BY <2>2 DEF SpeechEndHandler, FinalStopsLed, FinalJoinsLed, FinalResetsRing, LoopOnly
  <2>3. CASE Finish
    BY <2>3, EventFacts DEF Finish, LoopOnly, Events
  <2> QED
    BY <1>13, <2>1, <2>2, <2>3 DEF EventLoop
<1>14. CASE LedThread \/ ReleaseLEDRingControl
  BY <1>14 DEF LedThread, ReleaseLEDRingControl, LoopOnly
<1>15. CASE Setup
  BY <1>15 DEF Setup
<1>16. CASE UNCHANGED vars
  BY <1>16 DEF vars
<1> QED
  BY <1>1, <1>2, <1>3, <1>4, <1>5, <1>6, <1>7, <1>8, <1>9, <1>10, <1>11, <1>12, <1>13,
     <1>14, <1>15, <1>16
     DEF Next, StartThread, Over

\* Every step keeps what txfunc and the recorder know of the break.
LEMMA BreakStep ==
    ASSUME EnumOK, FlagsOK, CountsOK, BreakInv, AllAudioBeforeBreak, [Next]_vars
    PROVE  AllAudioBeforeBreak' /\ (over' \in {"args", "none"} => BreakInv')
<1> USE DEF BreakInv, AllAudioBeforeBreak, EnumOK, FlagsOK, CountsOK, QueuedInv,
            SpeechStates, streamVars, recorderVars, txVars, CallbacksUnchanged,
            EventsUnchanged
<1>1. CASE OpenThread
  BY <1>1 DEF OpenThread, OpenOk, Open, OpenFails, OpenDone
<1>2. CASE MonitorThread
  BY <1>2 DEF MonitorThread, MonitorWakes, MonitorCloses, Close, MonitorClosed, Free,
       MonitorDone, MonitorOnly
<1>3. CASE StartAwaitsOpen \/ StartAwaitsReopen
  BY <1>3 DEF StartAwaitsOpen, StartAwaitsReopen, StarterGoto, StarterOnly
<1>4. CASE StartReopens
  BY <1>4 DEF StartReopens, OpenStream, StarterGoto, StarterOnly
<1>5. CASE MimiStart \/ StreamStarted
  BY <1>5 DEF MimiStart, LaunchTx, LaunchRx, StreamStarted, Started, StarterGoto,
       StarterOnly
<1>6. CASE SetStarted \/ StreamOver
  BY <1>6 DEF SetStarted, StreamOver, StarterGoto, StarterOnly
<1>7. CASE StartMisuse \/ Exit
  BY <1>7 DEF StartMisuse, Exit, Ends
<1>8. CASE SpeechStart \/ InSpeech \/ SpeechEnd
  BY <1>8 DEF SpeechStart, InSpeech, SpeechEnd, Callback, RecorderOnly
<1>9. CASE RecorderThread
  BY <1>9 DEF RecorderThread, StartOpens, OpenStream, StartChecks, RecogBreak,
       SetRecogBreaked, RecorderOnly
<1>10. CASE Txfunc
  <2>1. UNCHANGED <<recogBreak, speech, inSpeech, recorder, spec, over>>
    BY <1>10 DEF Txfunc, TxReadBreak, TxReadSize, TxPop, TxOnly
  <2>2. CASE TxReadBreak
    BY <2>1, <2>2 DEF TxReadBreak
  <2>3. CASE TxReadSize
    BY <2>1, <2>3 DEF TxReadSize, Returned
  <2>4. CASE TxPop
    BY <2>1, <2>4 DEF TxPop, Returned
  <2> QED
    BY <1>10, <2>2, <2>3, <2>4 DEF Txfunc
<1>11. CASE LibraryStep
  BY <1>11 DEF LibraryStep, Library, TxAsk, TxGiveUp, TxEnd, RxGiveUp, RxEnd,
       StreamUnchanged
<1>12. CASE \E kind \in Responses : Rxfunc(kind)
  BY <1>12 DEF Rxfunc
<1>13. CASE EventLoop
  BY <1>13 DEF EventLoop, NextEvent, SpeechEndHandler, FinalStopsLed, FinalJoinsLed,
       FinalResetsRing, Finish, LoopOnly
<1>14. CASE LedThread \/ ReleaseLEDRingControl
  BY <1>14 DEF LedThread, ReleaseLEDRingControl, LoopOnly
<1>15. CASE Setup
  BY <1>15 DEF Setup
<1>16. CASE UNCHANGED vars
  BY <1>16 DEF vars
<1> QED
  BY <1>1, <1>2, <1>3, <1>4, <1>5, <1>6, <1>7, <1>8, <1>9, <1>10, <1>11, <1>12, <1>13,
     <1>14, <1>15, <1>16
     DEF Next, StartThread, Over

\* Every step keeps what the threads of Stream know of mio_ and state_.
LEMMA StarterStep ==
    ASSUME EnumOK, NotYetInv, OpenInv, StarterInv, BreakInv, [Next]_vars
    PROVE  over' \in {"args", "none"} => NotYetInv' /\ OpenInv' /\ StarterInv'
<1> USE DEF NotYetInv, OpenInv, StarterInv, EnumOK, BreakInv, Openers, Monitors,
            Starters, States, SpeechStates, streamVars, threadVars, recorderVars,
            txVars, CallbacksUnchanged, EventsUnchanged
<1>1. CASE OpenThread
  BY <1>1 DEF OpenThread, OpenOk, Open, OpenFails, OpenDone
<1>2. CASE MonitorThread
  BY <1>2 DEF MonitorThread, MonitorWakes, MonitorCloses, Close, MonitorClosed, Free,
       MonitorDone, MonitorOnly
<1>3. CASE StartAwaitsOpen \/ StartAwaitsReopen
  BY <1>3 DEF StartAwaitsOpen, StartAwaitsReopen, StarterGoto, StarterOnly
<1>4. CASE StartReopens
  BY <1>4 DEF StartReopens, OpenStream, StarterGoto, StarterOnly
<1>5. CASE MimiStart \/ StreamStarted
  BY <1>5 DEF MimiStart, LaunchTx, LaunchRx, StreamStarted, Started, StarterGoto,
       StarterOnly
<1>6. CASE SetStarted \/ StreamOver
  BY <1>6 DEF SetStarted, StreamOver, StarterGoto, StarterOnly
<1>7. CASE StartMisuse \/ Exit
  BY <1>7 DEF StartMisuse, Exit, Ends
<1>8. CASE SpeechStart \/ InSpeech \/ SpeechEnd
  BY <1>8 DEF SpeechStart, InSpeech, SpeechEnd, Callback, RecorderOnly
<1>9. CASE RecorderThread
  BY <1>9 DEF RecorderThread, StartOpens, OpenStream, StartChecks, RecogBreak,
       SetRecogBreaked, RecorderOnly
<1>10. CASE Txfunc
  BY <1>10 DEF Txfunc, TxReadBreak, TxReadSize, TxPop, Returned, TxReturn, TxOnly
<1>11. CASE LibraryStep
  BY <1>11 DEF LibraryStep, Library, TxAsk, TxGiveUp, TxEnd, RxGiveUp, RxEnd,
       StreamUnchanged
<1>12. CASE \E kind \in Responses : Rxfunc(kind)
  BY <1>12 DEF Rxfunc
<1>13. CASE EventLoop
  BY <1>13 DEF EventLoop, NextEvent, SpeechEndHandler, FinalStopsLed, FinalJoinsLed,
       FinalResetsRing, Finish, LoopOnly
<1>14. CASE LedThread \/ ReleaseLEDRingControl
  BY <1>14 DEF LedThread, ReleaseLEDRingControl, LoopOnly
<1>15. CASE Setup
  BY <1>15 DEF Setup
<1>16. CASE UNCHANGED vars
  BY <1>16 DEF vars
<1> QED
  BY <1>1, <1>2, <1>3, <1>4, <1>5, <1>6, <1>7, <1>8, <1>9, <1>10, <1>11, <1>12, <1>13,
     <1>14, <1>15, <1>16
     DEF Next, StartThread, Over

\* A handle that is none is used only in the two ways known.
LEMMA MisuseStep ==
    ASSUME EnumOK, StartMisuseExplained, over \in {"args", "none"} => StarterInv, [Next]_vars
    PROVE  StartMisuseExplained'
<1>1. CASE UNCHANGED <<over, seen>>
  BY <1>1 DEF StartMisuseExplained
<1>2. CASE over' \in {"args", "none", "exited"}
  BY <1>2 DEF StartMisuseExplained
<1>3. CASE Alive /\ StartMisuse
  BY <1>3 DEF Alive, StartMisuse, Ends, StarterInv, StartMisuseExplained
<1>4. CASE Alive /\ ~StartMisuse /\ ~Exit /\ Next
  <2>1. over' = over
    BY <1>4 DEF Next, Alive, Setup, Over, StartThread, OpenThread, OpenOk, OpenFails, OpenDone,
       MonitorThread, MonitorWakes, MonitorCloses, MonitorClosed, MonitorDone, MonitorOnly,
       StartAwaitsOpen, StartReopens, StartAwaitsReopen, MimiStart, StreamStarted, SetStarted,
       StreamOver, StarterOnly, EventsUnchanged, SpeechStart, InSpeech, SpeechEnd, Callback,
       RecorderThread, StartOpens, StartChecks, RecogBreak, SetRecogBreaked, RecorderOnly,
       Txfunc, TxReadBreak, TxReadSize, TxPop, TxOnly, LibraryStep, StreamUnchanged, Rxfunc,
       EventLoop, NextEvent, SpeechEndHandler, FinalStopsLed, FinalJoinsLed, FinalResetsRing,
       Finish, LedThread, ReleaseLEDRingControl, LoopOnly
  <2> QED
    BY <1>2, <1>4, <2>1 DEF Alive
<1>5. CASE Exit
  BY <1>2, <1>5 DEF Exit, Ends
<1>6. CASE ~Alive
  BY <1>1, <1>2, <1>6 DEF Next, Setup, Over, vars, threadVars
<1> QED
  BY <1>1, <1>3, <1>4, <1>5, <1>6 DEF vars, threadVars

SInv ==
    /\ Typed /\ LedInv
    /\ AllAudioBeforeBreak /\ StartMisuseExplained
    /\ over \in {"args", "none"} => ThreadsInv

\* A Stream and its SpeechEvent as constructed.
LEMMA SpeechInit == Init => SInv
<1> SUFFICES ASSUME Init PROVE SInv
  OBVIOUS
<1>1. EnumOK
  BY DEF Init, ClientInit, EnumOK, Handles, TxStates, RxStates, States, Openers, Monitors,
     Starters, SpeechStates
<1>2. FlagsOK
  BY SpeechStreamAssumption DEF SpeechStreamAssumption, Init, FlagsOK
<1>3. CountsOK
  BY SpeechStreamAssumption DEF SpeechStreamAssumption, Init, CountsOK, QueuedInv
<1>4. EventsOK /\ LedInv
  BY EventFacts DEF Init, EventsOK, LedInv
<1>5. ThreadsInv
  BY DEF Init, ThreadsInv, BreakInv, NotYetInv, OpenInv, StarterInv
<1>6. AllAudioBeforeBreak /\ StartMisuseExplained
  BY DEF Init, AllAudioBeforeBreak, StartMisuseExplained
<1> QED
  BY <1>1, <1>2, <1>3, <1>4, <1>5, <1>6 DEF SInv, Typed

\* What each thread knows, as long as there are any, is an invariant.
LEMMA SpeechInductive == Spec => []SInv
<1>1. SInv /\ [Next]_vars => SInv'
  <2> SUFFICES ASSUME SInv, [Next]_vars PROVE SInv'
    OBVIOUS
  <2>1. Typed' /\ LedInv'
    BY EnumStep, FlagsStep, CountsStep, EventsStep DEF SInv, Typed
  <2>2. StartMisuseExplained'
    BY MisuseStep DEF SInv, Typed, ThreadsInv
  <2>3. CASE over \in {"args", "none"}
    <3>1. AllAudioBeforeBreak' /\ (over' \in {"args", "none"} => BreakInv')
      BY <2>3, BreakStep DEF SInv, Typed, ThreadsInv
    <3>2. over' \in {"args", "none"} => NotYetInv' /\ OpenInv' /\ StarterInv'
      BY <2>3, StarterStep DEF SInv, Typed, ThreadsInv
    <3> QED
      BY <2>1, <2>2, <3>1, <3>2 DEF SInv, ThreadsInv
  <2>4. CASE over \notin {"args", "none"}
    <3>1. UNCHANGED <<over, broke, speech, queued>>
      BY <2>4 DEF Next, Alive, Setup, Over, vars, streamVars, recorderVars, txVars
    <3> QED
      BY <2>1, <2>2, <2>4, <3>1 DEF SInv, AllAudioBeforeBreak
  <2> QED
    BY <2>3, <2>4
<1> QED
  BY SpeechInit, <1>1, PTL DEF Spec

\* Every variable keeps its type, and txfunc never pops from an empty queue,
\* for any number of buffers.
THEOREM SpeechTyped == Spec => []StreamTypeOK
<1>1. SInv => StreamTypeOK
  <2> SUFFICES ASSUME SInv PROVE StreamTypeOK
    OBVIOUS
  <2>1. queued \in 0..(MaxInSpeech + 2)
    BY SpeechStreamAssumption DEF SpeechStreamAssumption, SInv, Typed, CountsOK, QueuedInv
  <2> QED
    BY <2>1 DEF SInv, Typed, EnumOK, FlagsOK, CountsOK, EventsOK, StreamTypeOK
<1> QED
  BY SpeechInductive, <1>1, PTL

\* No buffer of an utterance is left behind by its recog-break, however the
\* recorder's callback and txfunc interleave, for any number of buffers.
THEOREM SpeechAudioIsComplete == Spec => []AllAudioBeforeBreak
<1>1. SInv => AllAudioBeforeBreak
  BY DEF SInv
<1> QED
  BY SpeechInductive, <1>1, PTL

\* A bad handle is used in the two ways known and in no other, however the
\* threads of Stream interleave and however often mimi_open is tried.
THEOREM SpeechMisuseIsExplained == Spec => []StartMisuseExplained
<1>1. SInv => StartMisuseExplained
  BY DEF SInv
<1> QED
  BY SpeechInductive, <1>1, PTL

\* The event loop ends with the LED ring given back, or by an exception that a
\* response other than JSON has caused.
THEOREM SpeechGivesRingBack == Spec => []RingGivenBack
<1>1. SInv => RingGivenBack
  BY DEF SInv, LedInv, RingGivenBack
<1> QED
  BY SpeechInductive, <1>1, PTL

-----------------------------------------------------------------------------
\* Each step of the stream calls the library as ClientView lets it, is the
\* library's, or does not touch the connection.
LEMMA SpeechViewStep ==
    ASSUME StreamTypeOK, [Next]_vars
    PROVE  [ClientNext]_clientVars
<1>1. CASE OpenThread \/ MonitorThread
  BY <1>1 DEF OpenThread, OpenOk, OpenFails, OpenDone, MonitorThread, MonitorWakes,
     MonitorCloses, MonitorClosed, MonitorDone, ClientNext
<1>2. CASE StartThread
  <2>1. CASE MimiStart \/ StreamStarted
    BY <2>1 DEF MimiStart, StreamStarted, ClientNext
  <2>2. CASE StartAwaitsOpen \/ StartReopens \/ StartAwaitsReopen
    BY <2>2 DEF StartAwaitsOpen, StartReopens, StartAwaitsReopen
  <2>3. CASE SetStarted \/ StartMisuse \/ StreamOver
    BY <2>3 DEF SetStarted, StartMisuse, StreamOver, Ends
  <2> QED
    BY <1>2, <2>1, <2>2, <2>3 DEF StartThread
<1>3. CASE Txfunc
  <2>1. UNCHANGED clientVars \/ \E last \in BOOLEAN : TxReturn(last)
    BY <1>3 DEF Txfunc, TxReadBreak, TxReadSize, TxPop, Returned, StreamTypeOK
  <2> QED
    BY <2>1 DEF ClientNext
<1>4. CASE LibraryStep
  BY <1>4 DEF LibraryStep, ClientNext
<1>5. CASE SpeechStart \/ InSpeech \/ SpeechEnd \/ RecorderThread \/ Exit
  BY <1>5 DEF SpeechStart, InSpeech, SpeechEnd, Callback, RecorderThread, StartOpens,
     StartChecks, RecogBreak, SetRecogBreaked, RecorderOnly, Exit, Ends
<1>6. CASE (\E kind \in Responses : Rxfunc(kind)) \/ Setup
  BY <1>6 DEF Rxfunc, Setup
<1>7. CASE EventLoop \/ LedThread \/ ReleaseLEDRingControl
  BY <1>7 DEF EventLoop, NextEvent, SpeechEndHandler, FinalStopsLed, FinalJoinsLed,
     FinalResetsRing, Finish, LedThread, ReleaseLEDRingControl, LoopOnly
<1>8. CASE UNCHANGED vars
  BY <1>8 DEF vars
<1> QED
  BY <1>1, <1>2, <1>3, <1>4, <1>5, <1>6, <1>7, <1>8 DEF Next, Over

\* Every step leaves each thread at a call that is allowed, or at a misuse.
LEMMA CallStep ==
    ASSUME EnumOK, NotYetInv, OpenInv, StarterInv, CallInv, [Next]_vars
    PROVE  over' \in {"args", "none"} => CallInv'
<1> USE DEF CallInv, CallsAreLegal, OpenInv, StarterInv
<1>1. CASE OpenOk
  <2>1. /\ opener = "try" /\ opener' = "connected" /\ handle' = "open" /\ mio' = "set"
        /\ tx' = "off" /\ rx' = "off" /\ UNCHANGED <<state, monitor, starter>>
    BY <1>1 DEF OpenOk, Open
  <2> QED
    BY <2>1
<1>2. CASE OpenFails \/ OpenDone
  <2>1. UNCHANGED <<handle, tx, rx, monitor, starter>>
    BY <1>2 DEF OpenFails, OpenDone, clientVars
  <2>2. CASE OpenFails
    <3>1. opener = "try" /\ opener' \in {"try", "connectionFailed"} /\ mio' = "null" /\ state' = state
      BY <2>2 DEF OpenFails
    <3> QED
      BY <2>1, <3>1
  <2>3. CASE OpenDone
    <3>1. /\ opener \in {"connected", "connectionFailed"} /\ opener' = "done"
          /\ state' = opener /\ mio' = mio
      BY <2>3 DEF OpenDone
    <3> QED
      BY <2>1, <3>1
  <2> QED
    BY <1>2, <2>2, <2>3
<1>3. CASE MonitorThread
  <2>1. UNCHANGED <<tx, rx, mio, opener, starter>>
    BY <1>3 DEF MonitorThread, MonitorWakes, MonitorCloses, Close, MonitorClosed, Free,
       MonitorDone, MonitorOnly, clientVars
  <2>2. \/ /\ monitor = "sleep" /\ monitor' = (IF state = "connected" THEN "close" ELSE "done")
           /\ UNCHANGED <<handle, state>>
        \/ /\ monitor = "close" /\ monitor' = "closing" /\ handle' = "closing" /\ state' = state
        \/ /\ monitor = "closing" /\ monitor' = "closed" /\ handle' = "freed" /\ state' = state
        \/ /\ monitor = "closed" /\ monitor' = "done" /\ handle' = handle
           /\ state' = "connectionTimedout"
    BY <1>3 DEF MonitorThread, MonitorWakes, MonitorCloses, Close, MonitorClosed, Free,
       MonitorDone, MonitorOnly, clientVars
  <2> QED
    BY <2>1, <2>2
<1>4. CASE StartAwaitsOpen \/ StartAwaitsReopen
  <2>1. /\ UNCHANGED <<handle, tx, rx, mio, state, opener, monitor>> /\ opener = "done"
        /\ starter \in {"wait", "rewait"} /\ starter' \in {"done", "reopen", "start"}
        /\ starter' = "reopen" => state = "connectionTimedout"
    BY <1>4 DEF StartAwaitsOpen, StartAwaitsReopen, StarterGoto, clientVars
  <2> QED
    BY <2>1
<1>5. CASE StartReopens
  <2>1. /\ UNCHANGED <<handle, tx, rx, mio>> /\ starter = "reopen" /\ starter' = "rewait"
        /\ state' = "connecting" /\ opener' = "try" /\ monitor' = "sleep"
    BY <1>5 DEF StartReopens, OpenStream, StarterGoto, clientVars
  <2> QED
    BY <2>1
<1>6. CASE MimiStart \/ StreamStarted
  <2>1. UNCHANGED <<mio, state, opener, monitor>> /\ mio = "set" /\ handle = "open"
    BY <1>6 DEF MimiStart, StreamStarted, StarterGoto
  <2>2. \/ starter = "start" /\ starter' = "startRx" /\ LaunchTx
        \/ starter = "startRx" /\ starter' = "started" /\ LaunchRx
        \/ starter \in {"start", "startRx"} /\ starter' = "done" /\ UNCHANGED <<handle, tx, rx>>
        \/ starter = "started" /\ starter' = "setState" /\ Started
    BY <1>6 DEF MimiStart, StreamStarted, StarterGoto, clientVars
  <2>3. CASE LaunchTx /\ starter = "start" /\ starter' = "startRx"
    BY <2>1, <2>3 DEF LaunchTx
  <2>4. CASE LaunchRx /\ starter = "startRx" /\ starter' = "started"
    BY <2>1, <2>4 DEF LaunchRx
  <2>5. CASE starter' = "done" /\ UNCHANGED <<handle, tx, rx>>
    BY <2>1, <2>5
  <2>6. CASE Started /\ starter' = "setState"
    BY <2>1, <2>6 DEF Started
  <2> QED
    BY <2>2, <2>3, <2>4, <2>5, <2>6
<1>7. CASE SetStarted \/ StreamOver
  <2>1. /\ UNCHANGED <<handle, tx, rx, mio, opener, monitor>>
        /\ starter' \in {"watch", "done"} /\ starter \in {"setState", "watch"}
        /\ state' # "connectionTimedout"
    BY <1>7 DEF SetStarted, StreamOver, StarterGoto, clientVars
  <2> QED
    BY <2>1
<1>8. CASE StartMisuse \/ Exit
  BY <1>8 DEF StartMisuse, Exit, Ends
<1>9. CASE SpeechStart \/ InSpeech \/ SpeechEnd
  BY <1>9 DEF SpeechStart, InSpeech, SpeechEnd, Callback, RecorderOnly, clientVars, threadVars
<1>10. CASE RecorderThread
  <2>1. UNCHANGED <<handle, tx, rx, mio>>
    BY <1>10 DEF RecorderThread, StartOpens, StartChecks, RecogBreak, SetRecogBreaked,
       RecorderOnly, clientVars
  <2>2. CASE StartOpens
    <3>1. /\ opener = "none" /\ opener' = "try" /\ monitor' = "sleep" /\ state' = "connecting"
          /\ starter' = starter /\ starter = "none"
      BY <2>2 DEF StartOpens, OpenStream, NotYetInv
    <3> QED
      BY <2>1, <3>1
  <2>3. CASE StartChecks
    <3>1. /\ UNCHANGED <<opener, monitor, state>> /\ starter = "none"
          /\ starter' \in {"wait", "none"}
      BY <2>3 DEF StartChecks, NotYetInv
    <3> QED
      BY <2>1, <3>1
  <2>4. CASE RecogBreak \/ SetRecogBreaked
    <3>1. UNCHANGED <<opener, monitor, starter>> /\ state' \in {state, "recogBreaked"}
      BY <2>4 DEF RecogBreak, SetRecogBreaked, threadVars
    <3> QED
      BY <2>1, <3>1
  <2> QED
    BY <1>10, <2>2, <2>3, <2>4 DEF RecorderThread
<1>11. CASE Txfunc \/ LibraryStep
  <2>1. UNCHANGED <<handle, mio, state, opener, monitor, starter>>
    BY <1>11 DEF Txfunc, TxReadBreak, TxReadSize, TxPop, Returned, TxReturn, TxOnly, clientVars,
       LibraryStep, Library, TxAsk, TxGiveUp, TxEnd, RxGiveUp, RxEnd, StreamUnchanged,
       streamVars, threadVars
  <2>2. (tx' = "off" <=> tx = "off") /\ (rx' = "off" <=> rx = "off")
    BY <1>11 DEF Txfunc, TxReadBreak, TxReadSize, TxPop, Returned, TxReturn, clientVars,
       LibraryStep, Library, TxAsk, TxGiveUp, TxEnd, RxGiveUp, RxEnd
  <2> QED
    BY <2>1, <2>2
<1>12. CASE UNCHANGED <<clientVars, streamVars, threadVars>>
  BY <1>12 DEF clientVars, streamVars, threadVars
<1>13. CASE \/ \E kind \in Responses : Rxfunc(kind)
            \/ EventLoop \/ LedThread \/ ReleaseLEDRingControl \/ Setup \/ UNCHANGED vars
  <2>1. UNCHANGED <<clientVars, streamVars, threadVars>>
    BY <1>13 DEF Rxfunc, EventLoop, NextEvent, SpeechEndHandler, FinalStopsLed, FinalJoinsLed,
       FinalResetsRing, Finish, LedThread, ReleaseLEDRingControl, LoopOnly, Setup, vars
  <2> QED
    BY <1>12, <2>1
<1> QED
  BY <1>1, <1>2, <1>3, <1>4, <1>5, <1>6, <1>7, <1>8, <1>9, <1>10, <1>11, <1>13
     DEF Next, OpenThread, StartThread, Over

\* The open, the monitor and the start thread together call the library in
\* the order it asks for, whatever overtakes what, but for the misuses that
\* StartMisuseExplained tells of: what ClientView promises holds until then.
THEOREM SpeechStreamIsClient ==
    Spec => /\ [](over \in {"args", "none"} => CallsAreLegal)
            /\ ClientSafety /\ []ClientConsistent /\ NothingIsTakenBack
<1> DEFINE Inv == over \in {"args", "none"} => CallInv
<1>1. Init => ClientInit /\ Inv
  BY DEF Init, ClientInit, CallInv, CallsAreLegal
<1>2. SInv /\ Inv /\ [Next]_vars => Inv'
  <2> SUFFICES ASSUME SInv, Inv, [Next]_vars, over' \in {"args", "none"} PROVE CallInv'
    OBVIOUS
  <2>1. CASE over \in {"args", "none"}
    BY <2>1, CallStep DEF SInv, Typed, ThreadsInv
  <2>2. CASE over \notin {"args", "none"}
    BY <2>2 DEF Next, Alive, Setup, Over, vars
  <2> QED
    BY <2>1, <2>2
<1>3. Inv => (over \in {"args", "none"} => CallsAreLegal)
  BY DEF CallInv
<1> QED
  BY <1>1, <1>2, <1>3, SpeechViewStep, SpeechInductive, SpeechTyped, ClientMayRely, PTL
     DEF Spec, ClientSafety

=============================================================================
