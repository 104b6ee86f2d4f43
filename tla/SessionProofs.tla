------------------------------ MODULE SessionProofs ------------------------------
(***************************************************************************)
(* Proofs about Session, for any number of utterances, any length of them  *)
(* and any number of attempts to open a connection.                        *)
(***************************************************************************)
EXTENDS Session, TLAPS

\* What the fields hold, apart from the queue.
FieldsOK ==
    /\ handle \in Handles /\ tx \in TxStates /\ rx \in RxStates /\ err \in Int
    /\ mio \in {"null", "set"} /\ recogBreak \in BOOLEAN
    /\ tries \in 0..(OpenRetries - 1)
    /\ recorder \in {"off", "on", "stopped", "failed"} /\ interrupted \in BOOLEAN
    /\ speech \in SpeechStates /\ inSpeech \in 0..MaxInSpeech
    /\ utt \in 0..MaxUtterances
    /\ txPc \in {"none", "size", "pop"} /\ txBreak \in BOOLEAN
    /\ crash \in {"none", "nullStart", "nullActive", "dangling"}
    /\ gaveUp \in BOOLEAN /\ startFailed \in BOOLEAN

\* Every step keeps the fields' types.
LEMMA FieldsStep ==
    ASSUME FieldsOK, [Next]_vars
    PROVE  FieldsOK'
<1> USE DEF FieldsOK, Handles, TxStates, RxStates, SpeechStates, clientVars, sessionVars,
            envVars, txVars
<1>1. CASE StartMisuse \/ DestroyMisuse \/ \E t \in Threads : CloseMisuse(t)
  BY <1>1 DEF StartMisuse, DestroyMisuse, CloseMisuse, Misuse, vars
<1>2. CASE \E t \in Threads : CloseMio(t)
  BY <1>2 DEF CloseMio, Close, HistoryUnchanged
<1>3. CASE \E t \in Threads : CloseReturns(t)
  BY <1>3 DEF CloseReturns, Free, HistoryUnchanged
<1>4. CASE OpenOk
  BY <1>4, SessionAssumption DEF OpenOk, Open, HistoryUnchanged
<1>5. CASE OpenFails
  BY <1>5, SessionAssumption DEF OpenFails, HistoryUnchanged
<1>6. CASE StartOk \/ StartFails
  <2>1. CASE StartOk
    BY <2>1 DEF StartOk, LaunchTx, LaunchRx, Started, HistoryUnchanged
  <2>2. CASE StartFails
    BY <2>2 DEF StartFails, Close
  <2> QED
    BY <1>6, <2>1, <2>2
<1>7. CASE StartCloseReturns
  BY <1>7 DEF StartCloseReturns, Free, HistoryUnchanged
<1>8. CASE SpeechStart \/ InSpeech \/ SpeechEnd
  BY <1>8, SessionAssumption DEF SpeechStart, InSpeech, SpeechEnd, Quiet, Callback, HistoryUnchanged
<1>9. CASE HandleState
  BY <1>9 DEF HandleState, HistoryUnchanged
<1>10. CASE Setup \/ NoticeInterrupt \/ RecStop \/ LeaveLoop \/ DestroyNothing
  BY <1>10 DEF Setup, NoticeInterrupt, RecStop, LeaveLoop, DestroyNothing, MainGoto, HistoryUnchanged
<1>11. CASE Interrupt \/ RecorderFails
  <2>1. CASE Interrupt
    BY <2>1 DEF Interrupt, EnvOnly, HistoryUnchanged
  <2>2. CASE RecorderFails
    BY <2>2 DEF RecorderFails, EnvOnly, HistoryUnchanged
  <2> QED
    BY <1>11, <2>1, <2>2
<1>12. CASE DestroyClose
  BY <1>12 DEF DestroyClose, Close, Free, HistoryUnchanged
<1>13. CASE Txfunc
  BY <1>13 DEF Txfunc, TxReadBreak, TxReadSize, TxPop, Returned, TxReturn, TxOnly,
       HistoryUnchanged
<1>14. CASE LibraryStep
  BY <1>14 DEF LibraryStep, Library, TxAsk, TxGiveUp, TxEnd, RxGiveUp, RxEnd, Report,
       LibraryCode, SessionUnchanged, HistoryUnchanged
<1>15. CASE UNCHANGED vars
  BY <1>15 DEF vars
<1> QED
  BY <1>1, <1>2, <1>3, <1>4, <1>5, <1>6, <1>7, <1>8, <1>9, <1>10, <1>11, <1>12, <1>13,
     <1>14, <1>15
     DEF Next, RecorderThread, MainThread, SessionClose, Over, Threads

\* A thread that goes somewhere leaves the other one where it is.
LEMMA GotoMoves ==
    ASSUME pc \in [Threads -> Pcs],
           NEW t \in Threads, NEW from \in Pcs, NEW to \in Pcs, Goto(t, from, to)
    PROVE  /\ pc' \in [Threads -> Pcs]
           /\ pc[t] = from /\ pc'[t] = to
           /\ \A s \in Threads \ {t} : pc'[s] = pc[s]
BY DEF Goto

\* Every step keeps both threads somewhere.
LEMMA PcStep ==
    ASSUME pc \in [Threads -> Pcs], [Next]_vars
    PROVE  pc' \in [Threads -> Pcs]
<1> USE DEF Threads, Pcs
<1>1. CASE StartMisuse \/ DestroyMisuse \/ \E t \in Threads : CloseMisuse(t)
  BY <1>1 DEF StartMisuse, DestroyMisuse, CloseMisuse, Misuse
<1>2. CASE \E t \in Threads : CloseMio(t)
  BY <1>2, GotoMoves DEF CloseMio
<1>3. CASE \E t \in Threads : CloseReturns(t)
  BY <1>3, GotoMoves DEF CloseReturns, AfterClose
<1>4. CASE OpenOk
  BY <1>4, GotoMoves DEF OpenOk
<1>5. CASE OpenFails
  BY <1>5, GotoMoves DEF OpenFails
<1>6. CASE StartOk \/ StartFails
  BY <1>6, GotoMoves DEF StartOk, StartFails
<1>7. CASE StartCloseReturns
  BY <1>7, GotoMoves DEF StartCloseReturns
<1>8. CASE SpeechStart \/ InSpeech \/ SpeechEnd
  BY <1>8, GotoMoves DEF SpeechStart, InSpeech, SpeechEnd, Callback
<1>9. CASE HandleState
  BY <1>9, GotoMoves DEF HandleState
<1>10. CASE Setup \/ NoticeInterrupt \/ RecStop \/ LeaveLoop \/ DestroyNothing
  BY <1>10, GotoMoves DEF Setup, NoticeInterrupt, RecStop, LeaveLoop, DestroyNothing, MainGoto
<1>11. CASE Interrupt \/ RecorderFails
  BY <1>11 DEF Interrupt, RecorderFails, EnvOnly
<1>12. CASE DestroyClose
  BY <1>12, GotoMoves DEF DestroyClose
<1>13. CASE Txfunc
  BY <1>13 DEF Txfunc, TxReadBreak, TxReadSize, TxPop, TxOnly
<1>14. CASE LibraryStep
  BY <1>14 DEF LibraryStep, SessionUnchanged
<1>15. CASE UNCHANGED vars
  BY <1>15 DEF vars
<1> QED
  BY <1>1, <1>2, <1>3, <1>4, <1>5, <1>6, <1>7, <1>8, <1>9, <1>10, <1>11, <1>12, <1>13,
     <1>14, <1>15
     DEF Next, RecorderThread, MainThread, SessionClose, Over, Threads

\* Every step keeps what main knows.
LEMMA MainStep ==
    ASSUME FieldsOK, pc \in [Threads -> Pcs], MainInv, [Next]_vars
    PROVE  MainInv'
<1> USE DEF FieldsOK, MainInv, Threads, clientVars, sessionVars, envVars, txVars
<1>1. CASE StartMisuse \/ DestroyMisuse \/ \E t \in Threads : CloseMisuse(t)
  BY <1>1 DEF StartMisuse, DestroyMisuse, CloseMisuse, Misuse, vars
<1>2. CASE \E t \in Threads : CloseMio(t)
  BY <1>2 DEF CloseMio, Close, Goto, HistoryUnchanged, Threads
<1>3. CASE \E t \in Threads : CloseReturns(t)
  BY <1>3 DEF CloseReturns, Free, AfterClose, Goto, HistoryUnchanged, Threads
<1>4. CASE OpenOk
  BY <1>4 DEF OpenOk, Open, Goto, HistoryUnchanged
<1>5. CASE OpenFails
  BY <1>5 DEF OpenFails, Goto, HistoryUnchanged
<1>6. CASE StartOk \/ StartFails
  BY <1>6 DEF StartOk, LaunchTx, LaunchRx, Started, StartFails, Close, Goto,
       HistoryUnchanged
<1>7. CASE StartCloseReturns
  BY <1>7 DEF StartCloseReturns, Free, Goto, HistoryUnchanged
<1>8. CASE SpeechStart \/ InSpeech \/ SpeechEnd
  BY <1>8 DEF SpeechStart, InSpeech, SpeechEnd, Quiet, Callback, Goto, HistoryUnchanged
<1>9. CASE HandleState
  BY <1>9 DEF HandleState, Goto, HistoryUnchanged
<1>10. CASE Setup \/ NoticeInterrupt \/ RecStop \/ LeaveLoop \/ DestroyNothing
  BY <1>10 DEF Setup, NoticeInterrupt, RecStop, LeaveLoop, DestroyNothing, MainGoto, Goto,
       HistoryUnchanged
<1>11. CASE Interrupt \/ RecorderFails
  BY <1>11 DEF Interrupt, RecorderFails, EnvOnly, HistoryUnchanged
<1>12. CASE DestroyClose
  BY <1>12 DEF DestroyClose, Close, Free, Goto, HistoryUnchanged
<1>13. CASE Txfunc
  BY <1>13 DEF Txfunc, TxReadBreak, TxReadSize, TxPop, Returned, TxReturn, TxOnly,
       HistoryUnchanged
<1>14. CASE LibraryStep
  BY <1>14 DEF LibraryStep, Library, TxAsk, TxGiveUp, TxEnd, RxGiveUp, RxEnd, Report,
       LibraryCode, SessionUnchanged, HistoryUnchanged
<1>15. CASE UNCHANGED vars
  BY <1>15 DEF vars
<1> QED
  BY <1>1, <1>2, <1>3, <1>4, <1>5, <1>6, <1>7, <1>8, <1>9, <1>10, <1>11, <1>12, <1>13,
     <1>14, <1>15
     DEF Next, RecorderThread, MainThread, SessionClose, Over, Threads

\* Every step keeps what the handle's state tells.
LEMMA HandleStep ==
    ASSUME FieldsOK, pc \in [Threads -> Pcs], stream \in 0..utt, MainInv, HandleInv,
           StreamInv, [Next]_vars
    PROVE  HandleInv'
<1> USE DEF FieldsOK, MainInv, HandleInv, StreamInv, Dangling, Threads, Handles, TxStates,
            SpeechStates, clientVars, sessionVars, envVars, txVars
<1>1. CASE StartMisuse \/ DestroyMisuse \/ \E t \in Threads : CloseMisuse(t)
  BY <1>1 DEF StartMisuse, DestroyMisuse, CloseMisuse, Misuse, vars
<1>2. CASE \E t \in Threads : CloseMio(t)
  BY <1>2 DEF CloseMio, Close, Goto, HistoryUnchanged, Threads
<1>3. CASE \E t \in Threads : CloseReturns(t)
  <2>1. CASE CloseReturns("main")
    <3>1. /\ pc["main"] = "closing" /\ pc'["main"] = "watch" /\ pc'["recorder"] = pc["recorder"]
      BY <2>1 DEF CloseReturns, AfterClose, Goto, Threads
    <3> QED
      BY <2>1, <3>1 DEF CloseReturns, Free, HistoryUnchanged
  <2>2. CASE CloseReturns("recorder")
    <3>1. /\ pc["recorder"] = "closing" /\ pc'["recorder"] = "try" /\ pc'["main"] = pc["main"]
      BY <2>2 DEF CloseReturns, AfterClose, Goto, Threads
    <3> QED
      BY <2>2, <3>1 DEF CloseReturns, Free, HistoryUnchanged
  <2> QED
    BY <1>3, <2>1, <2>2 DEF Threads
<1>4. CASE OpenOk
  BY <1>4 DEF OpenOk, Open, Goto, HistoryUnchanged
<1>5. CASE OpenFails
  BY <1>5 DEF OpenFails, Goto, HistoryUnchanged
<1>6. CASE StartOk \/ StartFails
  BY <1>6 DEF StartOk, LaunchTx, LaunchRx, Started, StartFails, Close, Goto,
       HistoryUnchanged
<1>7. CASE StartCloseReturns
  <2>1. /\ pc["recorder"] = "startClosing" /\ pc'["recorder"] = "idle"
        /\ pc'["main"] = pc["main"]
    BY <1>7 DEF StartCloseReturns, Goto
  <2> QED
    BY <1>7, <2>1 DEF StartCloseReturns, Free, HistoryUnchanged
<1>8. CASE SpeechStart \/ InSpeech \/ SpeechEnd
  <2>1. PICK state \in SpeechStates : Callback(state) /\ state # "NonSpeech"
                 /\ (state = "SpeechStart" => Quiet) /\ (state # "SpeechStart" => ~Quiet)
    BY <1>8 DEF SpeechStart, InSpeech, SpeechEnd
  <2>2. /\ recorder = "on" /\ pc["recorder"] = "idle" /\ pc'["recorder"] = "pushed"
        /\ pc'["main"] = pc["main"]
        /\ speech' = state /\ utt' = IF state = "SpeechStart" THEN utt + 1 ELSE utt
        /\ UNCHANGED <<clientVars, mio, recogBreak, recorder, interrupted, stream>>
        /\ UNCHANGED <<crash, gaveUp, startFailed>>
    BY <2>1 DEF Callback, Goto, HistoryUnchanged
  <2>3. utt \in Nat
    BY SessionAssumption
  <2> QED
    BY <2>1, <2>2, <2>3 DEF Quiet
<1>9. CASE HandleState
  BY <1>9 DEF HandleState, Goto, HistoryUnchanged
<1>10. CASE Setup \/ NoticeInterrupt \/ RecStop \/ LeaveLoop \/ DestroyNothing
  BY <1>10 DEF Setup, NoticeInterrupt, RecStop, LeaveLoop, DestroyNothing, MainGoto, Goto,
       HistoryUnchanged
<1>11. CASE Interrupt \/ RecorderFails
  BY <1>11 DEF Interrupt, RecorderFails, EnvOnly, HistoryUnchanged
<1>12. CASE DestroyClose
  BY <1>12 DEF DestroyClose, Close, Free, Goto, HistoryUnchanged
<1>13. CASE Txfunc
  BY <1>13 DEF Txfunc, TxReadBreak, TxReadSize, TxPop, Returned, TxReturn, TxOnly,
       HistoryUnchanged
<1>14. CASE LibraryStep
  BY <1>14 DEF LibraryStep, Library, TxAsk, TxGiveUp, TxEnd, RxGiveUp, RxEnd, Report,
       LibraryCode, SessionUnchanged, HistoryUnchanged
<1>15. CASE UNCHANGED vars
  BY <1>15 DEF vars
<1> QED
  BY <1>1, <1>2, <1>3, <1>4, <1>5, <1>6, <1>7, <1>8, <1>9, <1>10, <1>11, <1>12, <1>13,
     <1>14, <1>15
     DEF Next, RecorderThread, MainThread, SessionClose, Over, Threads

\* Every step keeps which utterance the stream and the break are for.
LEMMA StreamStep ==
    ASSUME FieldsOK, pc \in [Threads -> Pcs], stream \in 0..utt, MainInv, HandleInv,
           StreamInv, [Next]_vars
    PROVE  StreamInv' /\ stream' \in 0..utt'
<1> USE DEF FieldsOK, MainInv, HandleInv, StreamInv, Threads, SpeechStates, clientVars,
            sessionVars, envVars, txVars
<1>1. CASE StartMisuse \/ DestroyMisuse \/ \E t \in Threads : CloseMisuse(t)
  BY <1>1 DEF StartMisuse, DestroyMisuse, CloseMisuse, Misuse, vars
<1>2. CASE \E t \in Threads : CloseMio(t)
  BY <1>2 DEF CloseMio, Close, Goto, HistoryUnchanged, Threads
<1>3. CASE \E t \in Threads : CloseReturns(t)
  BY <1>3 DEF CloseReturns, Free, AfterClose, Goto, HistoryUnchanged, Threads
<1>4. CASE OpenOk
  BY <1>4 DEF OpenOk, Open, Goto, HistoryUnchanged
<1>5. CASE OpenFails
  BY <1>5 DEF OpenFails, Goto, HistoryUnchanged
<1>6. CASE StartOk \/ StartFails
  <2>1. CASE StartOk
    BY <2>1 DEF StartOk, LaunchTx, LaunchRx, Started, Goto, HistoryUnchanged
  <2>2. CASE StartFails
    BY <2>2 DEF StartFails, Close, Goto
  <2> QED
    BY <1>6, <2>1, <2>2
<1>7. CASE StartCloseReturns
  BY <1>7 DEF StartCloseReturns, Free, Goto, HistoryUnchanged
<1>8. CASE SpeechStart \/ InSpeech \/ SpeechEnd
  BY <1>8, SessionAssumption DEF SpeechStart, InSpeech, SpeechEnd, Quiet, Callback, Goto,
       HistoryUnchanged
<1>9. CASE HandleState
  BY <1>9 DEF HandleState, Goto, HistoryUnchanged
<1>10. CASE Setup \/ NoticeInterrupt \/ RecStop \/ LeaveLoop \/ DestroyNothing
  BY <1>10 DEF Setup, NoticeInterrupt, RecStop, LeaveLoop, DestroyNothing, MainGoto, Goto,
       HistoryUnchanged
<1>11. CASE Interrupt \/ RecorderFails
  BY <1>11 DEF Interrupt, RecorderFails, EnvOnly, HistoryUnchanged
<1>12. CASE DestroyClose
  BY <1>12 DEF DestroyClose, Close, Free, Goto, HistoryUnchanged
<1>13. CASE Txfunc
  BY <1>13 DEF Txfunc, TxReadBreak, TxReadSize, TxPop, Returned, TxReturn, TxOnly,
       HistoryUnchanged
<1>14. CASE LibraryStep
  BY <1>14 DEF LibraryStep, Library, TxAsk, TxGiveUp, TxEnd, RxGiveUp, RxEnd, Report,
       LibraryCode, SessionUnchanged, HistoryUnchanged
<1>15. CASE UNCHANGED vars
  BY <1>15 DEF vars
<1> QED
  BY <1>1, <1>2, <1>3, <1>4, <1>5, <1>6, <1>7, <1>8, <1>9, <1>10, <1>11, <1>12, <1>13,
     <1>14, <1>15
     DEF Next, RecorderThread, MainThread, SessionClose, Over, Threads

\* Every misuse is explained.
LEMMA MisuseStep ==
    ASSUME FieldsOK, MainInv, HandleInv, MisuseExplained, [Next]_vars
    PROVE  MisuseExplained'
<1> DEFINE Misuses == StartMisuse \/ DestroyMisuse \/ \E t \in Threads : CloseMisuse(t)
<1>1. CASE ~Alive
  BY <1>1 DEF Next, Over, vars, envVars, MisuseExplained
<1>2. CASE Misuses
  <2>1. CASE StartMisuse
    BY <2>1 DEF StartMisuse, Misuse, HandleInv, MisuseExplained, envVars
  <2>2. CASE DestroyMisuse
    BY <2>2 DEF DestroyMisuse, Misuse, HandleInv, MisuseExplained, envVars
  <2>3. CASE CloseMisuse("main")
    BY <2>3 DEF CloseMisuse, Misuse, FieldsOK, MainInv, HandleInv, MisuseExplained, envVars
  <2>4. CASE CloseMisuse("recorder")
    BY <2>4 DEF CloseMisuse, Misuse, FieldsOK, MainInv, HandleInv, MisuseExplained, envVars
  <2> QED
    BY <1>2, <2>1, <2>2, <2>3, <2>4 DEF Threads
<1>3. CASE Alive /\ ~Misuses
  <2>1. crash' = crash
    BY <1>3 DEF Next, RecorderThread, MainThread, SessionClose, CloseMio, CloseReturns, OpenOk,
         OpenFails, StartOk, StartFails, StartCloseReturns, HandleState, SpeechStart, InSpeech,
         SpeechEnd, Callback, Setup, NoticeInterrupt, RecStop, LeaveLoop, DestroyNothing,
         MainGoto, Interrupt, RecorderFails, EnvOnly, DestroyClose, Txfunc, TxReadBreak,
         TxReadSize, TxPop, TxOnly, LibraryStep, SessionUnchanged, HistoryUnchanged, Over,
         vars, Threads
  <2> QED
    BY <1>3, <2>1 DEF Alive, MisuseExplained
<1> QED
  BY <1>1, <1>2, <1>3

\* What queueing and taking a sample do to the queue.
LEMMA QueueFacts ==
    ASSUME NEW q \in Seq(Sample)
    PROVE  /\ \A x \in Sample : /\ Append(q, x) \in Seq(Sample)
                                /\ Len(Append(q, x)) = Len(q) + 1
                                /\ \A i \in 1..Len(q) : Append(q, x)[i] = q[i]
                                /\ Append(q, x)[Len(q) + 1] = x
           /\ q # <<>> => /\ Tail(q) \in Seq(Sample) /\ Len(Tail(q)) = Len(q) - 1
                          /\ Len(q) > 0 /\ Head(q) = q[1]
                          /\ \A i \in 1..Len(Tail(q)) : Tail(q)[i] = q[i + 1]
           /\ q = <<>> => Len(q) = 0
           /\ Len(q) \in Nat
           /\ \A i \in 1..Len(q) : q[i] \in Sample
OBVIOUS

\* Only a callback of the recorder and txfunc touch the queue; what others do
\* to the stream leaves a call of txfunc alone.
LEMMA QueueUnchanged ==
    ASSUME FieldsOK, HandleInv, [Next]_vars
    PROVE  \/ SpeechStart \/ InSpeech \/ SpeechEnd
           \/ Txfunc
           \/ /\ UNCHANGED <<queue, txVars, utt, speech>>
              /\ tx = "call" => tx' = "call"
              /\ stream' = stream \/ (stream' = utt /\ tx # "call")
<1> USE DEF HistoryUnchanged, envVars, sessionVars, clientVars
<1>1. CASE OpenOk
  BY <1>1 DEF OpenOk, Open, HandleInv
<1>2. CASE LibraryStep
  BY <1>2 DEF LibraryStep, SessionUnchanged, Library, TxAsk, TxGiveUp, TxEnd, RxGiveUp, RxEnd, Report
<1>3. CASE StartMisuse \/ DestroyMisuse \/ \E t \in Threads : CloseMisuse(t)
  BY <1>3 DEF StartMisuse, DestroyMisuse, CloseMisuse, Misuse
<1>4. CASE \E t \in Threads : CloseMio(t) \/ CloseReturns(t)
  BY <1>4 DEF CloseMio, Close, CloseReturns, Free
<1>5. CASE OpenFails \/ StartOk \/ StartFails \/ StartCloseReturns \/ HandleState
  BY <1>5 DEF OpenFails, StartOk, LaunchTx, LaunchRx, Started, StartFails, Close,
       StartCloseReturns, Free, HandleState
<1>6. CASE Setup \/ NoticeInterrupt \/ RecStop \/ LeaveLoop \/ DestroyNothing \/ DestroyClose
  BY <1>6 DEF Setup, NoticeInterrupt, RecStop, LeaveLoop, DestroyNothing, MainGoto, DestroyClose,
       Close, Free
<1>7. CASE Interrupt \/ RecorderFails \/ UNCHANGED vars
  BY <1>7 DEF Interrupt, RecorderFails, EnvOnly, vars
<1> QED
  BY <1>1, <1>2, <1>3, <1>4, <1>5, <1>6, <1>7
     DEF Next, RecorderThread, MainThread, SessionClose, Over, Threads

\* The queue, and what txfunc and the history keep of it.
QueueOK ==
    /\ queue \in Seq(Sample)
    /\ left \in 0..Len(queue)
    /\ broke \subseteq 1..MaxUtterances

\* A sample is queued, or none: it belongs to the utterance that is spoken.
LEMMA CallbackStep ==
    ASSUME FieldsOK, stream \in 0..utt, QueueOK, HandleInv, StreamInv, TxInv, QueueInv,
           SpeechStart \/ InSpeech \/ SpeechEnd
    PROVE  QueueOK' /\ TxInv' /\ QueueInv' /\ Len(queue') >= Len(queue)
<1>1. PICK state \in SpeechStates \ {"NonSpeech"} :
        Callback(state) /\ (state = "SpeechStart" <=> Quiet)
             /\ (state = "SpeechStart" => utt < MaxUtterances)
  BY DEF SpeechStart, InSpeech, SpeechEnd, SpeechStates, Quiet
<1>2. /\ speech' = state
      /\ utt' = IF state = "SpeechStart" THEN utt + 1 ELSE utt
      /\ UNCHANGED <<tx, stream, txPc, txBreak, left, broke>>
      /\ pc["recorder"] = "idle"
  BY <1>1 DEF Callback, Goto, clientVars, txVars
<1>3. /\ utt \in Nat /\ stream = utt /\ MaxUtterances \in Nat
      /\ state # "SpeechStart" => utt > 0 /\ speech \in {"SpeechStart", "InSpeech"}
  BY <1>1, <1>2, SessionAssumption DEF FieldsOK, HandleInv, StreamInv, Quiet, SpeechStates
<1> DEFINE x == [utt |-> utt', at |-> state]
<1>4. x \in Sample /\ x.utt = utt' /\ x.at = state
  BY <1>1, <1>2, <1>3 DEF Sample, FieldsOK
<1>5. queue' = queue \/ queue' = Append(queue, x)
  BY <1>1 DEF Callback
<1>6. /\ queue' \in Seq(Sample) /\ Len(queue') \in Nat /\ Len(queue') >= Len(queue)
      /\ \A i \in 1..Len(queue') : (i <= Len(queue) /\ queue'[i] = queue[i]) \/ queue'[i] = x
  <2>1. queue \in Seq(Sample) /\ Len(queue) \in Nat
    BY QueueFacts DEF QueueOK
  <2>2. CASE queue' = queue
    BY <2>1, <2>2
  <2>3. CASE queue' = Append(queue, x)
    <3>1. /\ queue' \in Seq(Sample) /\ Len(queue') = Len(queue) + 1
          /\ \A i \in 1..Len(queue) : queue'[i] = queue[i]
          /\ queue'[Len(queue) + 1] = x
      BY <1>4, <2>1, <2>3, QueueFacts
    <3>2. \A i \in 1..Len(queue') : i \in 1..Len(queue) \/ i = Len(queue) + 1
      BY <2>1, <3>1
    <3> QED
      BY <2>1, <3>1, <3>2
  <2> QED
    BY <1>5, <2>2, <2>3
<1>7. QueueOK'
  BY <1>2, <1>6, QueueFacts DEF QueueOK
<1>8. x.utt \notin broke
  BY <1>2, <1>3, <1>4 DEF QueueInv, QueueOK
<1>9. txPc # "none" /\ txBreak => speech = "SpeechEnd" /\ state = "SpeechStart"
  BY <1>3 DEF TxInv
<1>10. TxInv'
  <2>1. ASSUME txPc = "pop", txBreak, NEW i \in (left + 1)..Len(queue')
        PROVE  queue'[i].utt > stream
    <3>1. i \in 1..Len(queue')
      BY <1>6 DEF QueueOK
    <3>2. CASE queue'[i] = x
      BY <1>2, <1>3, <1>4, <1>9, <2>1, <3>2
    <3>3. CASE i <= Len(queue) /\ queue'[i] = queue[i]
      BY <2>1, <3>1, <3>3, QueueFacts DEF QueueOK, TxInv
    <3> QED
      BY <1>6, <3>1, <3>2, <3>3
  <2>2. txPc # "none" /\ txBreak => stream' # utt'
    BY <1>2, <1>3, <1>9
  <2> QED
    BY <1>2, <2>1, <2>2 DEF TxInv
<1>11. QueueInv'
  <2>1. ASSUME NEW i \in 1..Len(queue')
        PROVE  /\ queue'[i].utt <= utt' /\ queue'[i].utt \notin broke
               /\ queue'[i].utt > stream => queue'[i].at = "SpeechStart"
    <3>1. CASE queue'[i] = x
      BY <1>2, <1>3, <1>4, <1>8, <3>1
    <3>2. CASE i <= Len(queue) /\ queue'[i] = queue[i]
      <4>1. i \in 1..Len(queue)
        BY <1>6, <2>1, <3>2, QueueFacts DEF QueueOK
      <4>2. queue[i] \in Sample
        BY <4>1, QueueFacts DEF QueueOK
      <4>3. queue[i].utt \in Nat
        BY <4>2, SessionAssumption DEF Sample
      <4> QED
        BY <1>2, <1>3, <3>2, <4>1, <4>3 DEF QueueInv
    <3> QED
      BY <1>6, <3>1, <3>2
  <2>2. ASSUME NEW s \in broke
        PROVE  s <= stream /\ (s < utt' \/ state = "SpeechEnd")
    BY <1>2, <1>3, <2>2, SessionAssumption DEF QueueInv, QueueOK
  <2> QED
    BY <1>2, <2>1, <2>2 DEF QueueInv
<1> QED
  BY <1>6, <1>7, <1>10, <1>11

\* The steps of BreakTakesAll and StraysAreBounded.
TakesAll ==
    broke' # broke =>
        /\ stream < utt \/ speech = "SpeechEnd"
        /\ \A i \in 1..Len(queue') : queue'[i].utt > stream

Bounded ==
    Len(queue') < Len(queue) =>
        LET x == Head(queue)
        IN  \/ x.utt = stream
            \/ x.utt = stream + 1 /\ x.at = "SpeechStart"
            \/ x.utt < stream /\ x.utt \notin broke

\* One call of txfunc: what it takes, and what it has left behind at a break.
LEMMA TxfuncStep ==
    ASSUME FieldsOK, stream \in 0..utt, QueueOK, HandleInv, StreamInv, TxInv, QueueInv, Txfunc
    PROVE  QueueOK' /\ TxInv' /\ QueueInv' /\ TakesAll /\ Bounded
<1>1. UNCHANGED <<utt, speech, stream>>
  BY DEF Txfunc, TxReadBreak, TxReadSize, TxPop, TxOnly, envVars
<1>2. /\ utt \in Nat /\ stream \in 1..MaxUtterances /\ stream <= utt /\ MaxUtterances \in Nat
      /\ tx = "call"
  <2>1. tx = "call"
    BY DEF Txfunc, TxReadBreak, TxReadSize, TxPop, TxInv
  <2> QED
    BY <2>1, SessionAssumption DEF FieldsOK, HandleInv
<1>3. /\ Len(queue) \in Nat /\ left \in 0..Len(queue)
      /\ \A i \in 1..Len(queue) : queue[i].utt \in Nat
  <2>1. /\ Len(queue) \in Nat /\ left \in 0..Len(queue)
        /\ \A i \in 1..Len(queue) : queue[i] \in Sample
    BY QueueFacts DEF QueueOK
  <2> QED
    BY <2>1, SessionAssumption DEF Sample
<1>4. CASE TxReadBreak
  <2>1. /\ UNCHANGED <<queue, left, broke, tx>> /\ txPc' = "size" /\ txBreak' = recogBreak
    BY <1>4 DEF TxReadBreak, TxOnly, clientVars
  <2>2. recogBreak => stream # utt \/ speech = "SpeechEnd"
    BY DEF StreamInv
  <2>3. Len(queue') = Len(queue)
    BY <2>1
  <2> QED
    BY <1>1, <1>2, <1>3, <2>1, <2>2, <2>3 DEF QueueOK, TxInv, QueueInv, TakesAll, Bounded
<1>5. ASSUME txPc # "none", Returned, queue' \in Seq(Sample), left' = 0,
             txBreak' = txBreak,
             \A i \in 1..Len(queue') : \E j \in 1..Len(queue) : queue'[i] = queue[j],
             txBreak => \A i \in 1..Len(queue') : queue'[i].utt > stream
      PROVE  QueueOK' /\ TxInv' /\ QueueInv' /\ TakesAll
  <2>1. /\ broke' = (IF txBreak THEN broke \union {stream} ELSE broke) /\ txPc' = "none"
        /\ Len(queue') \in Nat
    BY <1>5, QueueFacts DEF Returned
  <2>2. txBreak => stream < utt \/ speech = "SpeechEnd"
    BY <1>2, <1>5 DEF TxInv
  <2>3. TakesAll
    BY <1>5, <2>1, <2>2 DEF TakesAll
  <2>4. QueueOK'
    BY <1>2, <1>5, <2>1 DEF QueueOK
  <2>5. TxInv'
    BY <2>1 DEF TxInv
  <2>6. ASSUME NEW i \in 1..Len(queue')
        PROVE  /\ queue'[i].utt <= utt /\ queue'[i].utt \notin broke'
               /\ queue'[i].utt > stream => queue'[i].at = "SpeechStart"
    <3>1. PICK j \in 1..Len(queue) : queue'[i] = queue[j]
      BY <1>5
    <3>2. /\ queue[j].utt <= utt /\ queue[j].utt \notin broke
          /\ queue[j].utt > stream => queue[j].at = "SpeechStart"
      BY DEF QueueInv
    <3>3. txBreak => queue'[i].utt # stream
      BY <1>2, <1>3, <1>5, <3>1
    <3> QED
      BY <2>1, <3>1, <3>2, <3>3
  <2>7. \A s \in broke' : s <= stream /\ (s < utt \/ speech = "SpeechEnd")
    BY <1>2, <2>1, <2>2 DEF QueueInv
  <2>8. QueueInv'
    BY <1>1, <2>6, <2>7 DEF QueueInv
  <2> QED
    BY <2>3, <2>4, <2>5, <2>8
<1>6. CASE TxReadSize
  <2>1. /\ txPc = "size" /\ left' = Len(queue) /\ queue' = queue /\ txBreak' = txBreak
    BY <1>6 DEF TxReadSize, TxOnly
  <2>2. CASE queue = <<>>
    <3>1. Returned /\ Len(queue) = 0 /\ queue' \in Seq(Sample) /\ Len(queue') = 0
      BY <1>6, <2>1, <2>2, QueueFacts DEF TxReadSize, QueueOK
    <3>2. Bounded
      BY <3>1 DEF Bounded
    <3> QED
      BY <1>5, <2>1, <3>1, <3>2
  <2>3. CASE queue # <<>>
    <3>1. Len(queue) > 0
      BY <2>3, QueueFacts DEF QueueOK
    <3>2. txPc' = "pop" /\ UNCHANGED <<tx, broke>>
      BY <1>6, <2>3 DEF TxReadSize, clientVars
    <3>3. Len(queue') = Len(queue)
      BY <2>1
    <3> QED
      BY <1>1, <1>2, <1>3, <2>1, <3>1, <3>2, <3>3 DEF QueueOK, TxInv, QueueInv, TakesAll, Bounded
  <2> QED
    BY <2>2, <2>3
<1>7. CASE TxPop
  <2>1. /\ txPc = "pop" /\ queue # <<>> /\ queue' = Tail(queue) /\ left' = left - 1
        /\ txBreak' = txBreak
    BY <1>7 DEF TxPop, TxOnly
  <2>2. /\ queue' \in Seq(Sample) /\ Len(queue') = Len(queue) - 1 /\ Len(queue) > 0
        /\ Head(queue) = queue[1] /\ left > 0
        /\ \A i \in 1..Len(queue') : queue'[i] = queue[i + 1]
    BY <2>1, QueueFacts DEF QueueOK, TxInv
  <2>3. \A i \in 1..Len(queue') :
        i + 1 \in 1..Len(queue) /\ (i >= left => i + 1 \in (left + 1)..Len(queue))
    BY <1>3, <2>2
  <2>4. Bounded
    <3>1. /\ queue[1].utt <= utt /\ queue[1].utt \notin broke /\ queue[1].utt \in Nat
          /\ queue[1].utt > stream => queue[1].at = "SpeechStart"
      BY <1>3, <2>2 DEF QueueInv
    <3>2. stream # utt => utt = stream + 1
      BY <1>2 DEF StreamInv
    <3> QED
      BY <1>2, <2>2, <3>1, <3>2 DEF Bounded
  <2>5. txBreak => \A i \in left..Len(queue') : queue'[i].utt > stream
    BY <1>3, <2>1, <2>2, <2>3 DEF TxInv
  <2>6. CASE left = 1
    <3>1. Returned
      BY <1>7, <2>6 DEF TxPop
    <3> QED
      BY <1>5, <2>1, <2>2, <2>3, <2>4, <2>5, <2>6, <3>1
  <2>7. CASE left # 1
    <3>1. UNCHANGED <<tx, txPc, broke>>
      BY <1>7, <2>7 DEF TxPop, clientVars
    <3>2. QueueOK' /\ TakesAll
      BY <1>3, <2>1, <2>2, <2>7, <3>1 DEF QueueOK, TakesAll
    <3>3. TxInv'
      BY <1>1, <1>3, <2>1, <2>2, <2>5, <2>7, <3>1 DEF TxInv
    <3>4. QueueInv'
      BY <1>1, <2>2, <2>3, <3>1 DEF QueueInv
    <3> QED
      BY <2>4, <3>2, <3>3, <3>4
  <2> QED
    BY <2>6, <2>7
<1> QED
  BY <1>4, <1>6, <1>7 DEF Txfunc

\* Every step keeps the queue and what is known of it.
LEMMA QueueStep ==
    ASSUME FieldsOK, stream \in 0..utt, QueueOK, HandleInv, StreamInv, TxInv, QueueInv, [Next]_vars
    PROVE  QueueOK' /\ TxInv' /\ QueueInv' /\ TakesAll /\ Bounded
<1>1. CASE SpeechStart \/ InSpeech \/ SpeechEnd
  <2>1. QueueOK' /\ TxInv' /\ QueueInv' /\ Len(queue') >= Len(queue)
    BY <1>1, CallbackStep
  <2>2. broke' = broke
    BY <1>1 DEF SpeechStart, InSpeech, SpeechEnd, Callback, txVars
  <2>3. Len(queue) \in Nat /\ Len(queue') \in Nat
    BY <2>1, QueueFacts DEF QueueOK
  <2> QED
    BY <2>1, <2>2, <2>3 DEF TakesAll, Bounded
<1>2. CASE Txfunc
  BY <1>2, TxfuncStep
<1>3. CASE /\ UNCHANGED <<queue, txVars, utt, speech>>
           /\ tx = "call" => tx' = "call"
           /\ stream' = stream \/ (stream' = utt /\ tx # "call")
  <2>1. UNCHANGED <<queue, txPc, txBreak, left, broke, utt, speech>>
    BY <1>3 DEF txVars
  <2>2. /\ utt \in Nat /\ stream \in Nat /\ stream' \in Nat /\ stream <= stream' /\ stream' <= utt
        /\ txPc # "none" => stream' = stream
    BY <1>3, SessionAssumption DEF FieldsOK, TxInv
  <2>3. Len(queue') = Len(queue) /\ Len(queue) \in Nat
    BY <2>1, QueueFacts DEF QueueOK
  <2>4. QueueOK' /\ TakesAll /\ Bounded
    BY <2>1, <2>3 DEF QueueOK, TakesAll, Bounded
  <2>5. TxInv'
    BY <1>3, <2>1, <2>2, <2>3 DEF TxInv
  <2>6. \A i \in 1..Len(queue) : queue[i].utt \in Nat
    <3>1. \A i \in 1..Len(queue) : queue[i] \in Sample
      BY QueueFacts DEF QueueOK
    <3> QED
      BY <3>1, SessionAssumption DEF Sample
  <2>7. broke \subseteq Nat
    BY SessionAssumption DEF QueueOK
  <2>8. QueueInv'
    BY <2>1, <2>2, <2>3, <2>6, <2>7 DEF QueueInv
  <2> QED
    BY <2>4, <2>5, <2>8
<1> QED
  BY <1>1, <1>2, <1>3, QueueUnchanged

-----------------------------------------------------------------------------
(* The theorems.                                                           *)

\* What the threads know is an invariant; the theorems follow from it.
LEMMA SessionInductive == Spec => [](SessionInv /\ FieldsOK /\ QueueOK)
<1> DEFINE Inv == SessionInv /\ FieldsOK /\ QueueOK
<1>1. Init => Inv
  <2> SUFFICES ASSUME Init PROVE Inv
    OBVIOUS
  <2>1. /\ handle = "null" /\ tx = "off" /\ rx = "off" /\ err = 0 /\ mio = "null"
        /\ tries = 0 /\ recorder = "off" /\ speech = "NonSpeech" /\ inSpeech = 0
        /\ utt = 0 /\ stream = 0 /\ txPc = "none" /\ crash = "none"
    BY DEF Init, ClientInit
  <2>2. /\ recogBreak \in BOOLEAN /\ interrupted \in BOOLEAN /\ txBreak \in BOOLEAN
        /\ gaveUp \in BOOLEAN /\ startFailed \in BOOLEAN
    BY DEF Init
  <2>3. FieldsOK /\ MisuseExplained /\ stream \in 0..utt
    BY <2>1, <2>2, SessionAssumption
       DEF FieldsOK, MisuseExplained, Handles, TxStates, RxStates, SpeechStates
  <2>4. pc \in [Threads -> Pcs]
    BY DEF Init, Threads, Pcs
  <2>5. Len(queue) = 0 /\ QueueOK
    BY QueueFacts DEF Init, QueueOK
  <2>6. MainInv /\ HandleInv /\ StreamInv
    BY DEF Init, ClientInit, MainInv, HandleInv, StreamInv, Dangling
  <2>7. TxInv /\ QueueInv
    BY <2>5 DEF Init, TxInv, QueueInv
  <2> QED
    BY <2>3, <2>4, <2>5, <2>6, <2>7 DEF SessionInv, SessionTypeOK, FieldsOK, QueueOK
<1>2. Inv /\ [Next]_vars => Inv'
  <2> SUFFICES ASSUME SessionInv, FieldsOK, QueueOK, [Next]_vars PROVE Inv'
    OBVIOUS
  <2>1. pc \in [Threads -> Pcs] /\ stream \in 0..utt
    BY DEF SessionInv, SessionTypeOK
  <2>2. FieldsOK' /\ pc' \in [Threads -> Pcs]
    BY <2>1, FieldsStep, PcStep
  <2>3. MainInv' /\ HandleInv' /\ MisuseExplained'
    BY <2>1, MainStep, HandleStep, MisuseStep DEF SessionInv
  <2>4. StreamInv' /\ stream' \in 0..utt'
    BY <2>1, StreamStep DEF SessionInv
  <2>5. QueueOK' /\ TxInv' /\ QueueInv'
    BY <2>1, QueueStep DEF SessionInv
  <2> QED
    BY <2>2, <2>3, <2>4, <2>5 DEF SessionInv, SessionTypeOK, FieldsOK, QueueOK
<1> QED
  BY <1>1, <1>2, PTL DEF Spec

\* Every field and local stays within its values; txfunc in particular never
\* waits for a sample that is not there.
THEOREM SessionTyped == Spec => []SessionTypeOK
<1>1. SessionInv => SessionTypeOK
  BY DEF SessionInv
<1> QED
  BY <1>1, SessionInductive, PTL

\* However long it runs, a bad handle is used only for one of the three known
\* reasons: recorder's callback and main never trip over each other.
THEOREM SessionMisuseIsExplained == Spec => []MisuseExplained
<1>1. SessionInv => MisuseExplained
  BY DEF SessionInv
<1> QED
  BY <1>1, SessionInductive, PTL

\* The break comes after the end of the utterance, and leaves none of its
\* samples, for any number and length of utterances.
THEOREM SessionBreakTakesAll == Spec => BreakTakesAll
<1>1. SessionInv /\ QueueOK /\ FieldsOK /\ [Next]_vars => [TakesAll]_vars
  BY QueueStep DEF SessionInv, SessionTypeOK
<1>2. [TakesAll]_vars => [broke' # broke =>
        /\ stream < utt \/ speech = "SpeechEnd"
        /\ \A i \in 1..Len(queue') : queue'[i].utt > stream]_vars
  BY DEF TakesAll
<1> QED
  BY <1>1, <1>2, SessionInductive, PTL DEF Spec, BreakTakesAll

\* Which samples can reach another utterance's stream, for any number and
\* length of utterances.
THEOREM SessionStraysAreBounded == Spec => StraysAreBounded
<1>1. SessionInv /\ QueueOK /\ FieldsOK /\ [Next]_vars => [Bounded]_vars
  BY QueueStep DEF SessionInv, SessionTypeOK
<1>2. [Bounded]_vars => [Len(queue') < Len(queue) =>
        LET x == Head(queue)
        IN  \/ x.utt = stream
            \/ x.utt = stream + 1 /\ x.at = "SpeechStart"
            \/ x.utt < stream /\ x.utt \notin broke]_vars
  BY DEF Bounded
<1> QED
  BY <1>1, <1>2, SessionInductive, PTL DEF Spec, StraysAreBounded

-----------------------------------------------------------------------------
\* Each step of the session calls the library as ClientView lets it, is the
\* library's, or does not touch the connection.
LEMMA SessionViewStep ==
    ASSUME FieldsOK, [Next]_vars
    PROVE  [ClientNext]_clientVars
<1>1. CASE RecorderThread \/ MainThread
  <2>1. CASE SessionClose("recorder") \/ SessionClose("main")
    BY <2>1 DEF SessionClose, CloseMio, CloseMisuse, CloseReturns, Misuse, ClientNext
  <2>2. CASE OpenOk \/ StartOk \/ StartFails \/ StartCloseReturns
    BY <2>2 DEF OpenOk, StartOk, StartFails, StartCloseReturns, ClientNext
  <2>3. CASE HandleState \/ OpenFails \/ StartMisuse
    BY <2>3 DEF HandleState, OpenFails, StartMisuse, Misuse
  <2>4. CASE Setup \/ NoticeInterrupt \/ RecStop \/ LeaveLoop \/ DestroyNothing
    BY <2>4 DEF Setup, NoticeInterrupt, RecStop, LeaveLoop, DestroyNothing, MainGoto
  <2>5. CASE DestroyMisuse \/ DestroyClose
    BY <2>5 DEF DestroyMisuse, DestroyClose, Misuse, ClientNext
  <2> QED
    BY <1>1, <2>1, <2>2, <2>3, <2>4, <2>5 DEF RecorderThread, MainThread
<1>2. CASE Txfunc
  <2>1. UNCHANGED clientVars \/ \E last \in BOOLEAN : TxReturn(last)
    BY <1>2 DEF Txfunc, TxReadBreak, TxReadSize, TxPop, Returned, FieldsOK
  <2> QED
    BY <2>1 DEF ClientNext
<1>3. CASE LibraryStep
  BY <1>3 DEF LibraryStep, ClientNext
<1>4. CASE SpeechStart \/ InSpeech \/ SpeechEnd \/ Interrupt \/ RecorderFails
  BY <1>4 DEF SpeechStart, InSpeech, SpeechEnd, Callback, Interrupt, RecorderFails, EnvOnly
<1>5. CASE UNCHANGED vars
  BY <1>5 DEF vars
<1> QED
  BY <1>1, <1>2, <1>3, <1>4, <1>5 DEF Next, Over

\* What a step of one thread leaves of where the other one is.
LEMMA OtherThread ==
    ASSUME pc \in [Threads -> Pcs], NEW t \in Threads, NEW from, NEW to, Goto(t, from, to)
    PROVE  /\ pc[t] = from /\ pc'[t] = to
           /\ t = "main" => pc'["recorder"] = pc["recorder"]
           /\ t = "recorder" => pc'["main"] = pc["main"]
BY DEF Goto, Threads

\* Every step leaves each thread at a call that is allowed, or at a misuse.
LEMMA CallStep ==
    ASSUME FieldsOK, pc \in [Threads -> Pcs], MainInv, HandleInv, StreamInv, TxInv, CallInv,
           [Next]_vars
    PROVE  CallInv'
<1> USE DEF CallInv, CallsAreLegal, Threads
<1>1. CASE StartMisuse \/ DestroyMisuse \/ \E t \in Threads : CloseMisuse(t)
  BY <1>1 DEF StartMisuse, DestroyMisuse, CloseMisuse, Misuse, clientVars, sessionVars
<1>2. CASE \E t \in Threads : CloseMio(t)
  <2>1. PICK t \in Threads : CloseMio(t)
    BY <1>2
  <2>2. /\ pc[t] = "close" /\ pc'[t] = "closing"
        /\ t = "main" => pc'["recorder"] = pc["recorder"]
        /\ t = "recorder" => pc'["main"] = pc["main"]
    BY <2>1, OtherThread DEF CloseMio
  <2>3. mio = "set" /\ handle = "started" /\ handle' = "closing" /\ UNCHANGED <<tx, rx, mio>>
    BY <2>1, <2>2 DEF CloseMio, Close, Dangling, sessionVars
  <2> QED
    BY <2>2, <2>3 DEF MainInv
<1>3. CASE \E t \in Threads : CloseReturns(t)
  <2>1. PICK t \in Threads : CloseReturns(t)
    BY <1>3
  <2>2. /\ pc[t] = "closing" /\ pc'[t] = AfterClose(t)
        /\ t = "main" => pc'["recorder"] = pc["recorder"]
        /\ t = "recorder" => pc'["main"] = pc["main"]
    BY <2>1, OtherThread DEF CloseReturns
  <2>3. mio' = "null" /\ handle' = "freed" /\ UNCHANGED <<tx, rx>>
    BY <2>1 DEF CloseReturns, Free
  <2> QED
    BY <2>2, <2>3 DEF MainInv, AfterClose
<1>4. CASE OpenOk \/ OpenFails
  <2>1. pc["recorder"] = "try" /\ pc'["main"] = pc["main"] /\ pc'["recorder"] \in {"try", "start"}
    BY <1>4, OtherThread DEF OpenOk, OpenFails, Goto
  <2>2. CASE OpenOk
    <3>1. pc'["recorder"] = "start" /\ handle' = "open" /\ tx' = "off" /\ rx' = "off"
          /\ mio' = "set"
      BY <2>2 DEF OpenOk, Open, Goto
    <3> QED
      BY <2>1, <3>1 DEF MainInv
  <2>3. CASE OpenFails
    <3>1. UNCHANGED <<handle, tx, rx, mio>>
      BY <2>3 DEF OpenFails, clientVars
    <3> QED
      BY <2>1, <3>1 DEF MainInv
  <2> QED
    BY <1>4, <2>2, <2>3
<1>5. CASE StartOk
  <2>1. /\ mio = "set" /\ mio' = "set" /\ pc'["main"] = pc["main"]
        /\ pc["recorder"] \in {"start", "startRx", "startDone"}
    BY <1>5 DEF StartOk, Goto, sessionVars
  <2>2. \/ pc["recorder"] = "start" /\ pc'["recorder"] = "startRx" /\ LaunchTx
        \/ pc["recorder"] = "startRx" /\ pc'["recorder"] = "startDone" /\ LaunchRx
        \/ pc'["recorder"] = "idle" /\ Started
    BY <1>5 DEF StartOk, Goto
  <2>3. pc["main"] \in {"watch", "stop"}
    BY <2>1 DEF MainInv
  <2>4. CASE pc["recorder"] = "start" /\ pc'["recorder"] = "startRx" /\ LaunchTx
    BY <2>1, <2>3, <2>4 DEF LaunchTx
  <2>5. CASE pc["recorder"] = "startRx" /\ pc'["recorder"] = "startDone" /\ LaunchRx
    BY <2>1, <2>3, <2>5 DEF LaunchRx
  <2>6. CASE pc'["recorder"] = "idle" /\ Started
    BY <2>1, <2>3, <2>6 DEF Started
  <2> QED
    BY <2>2, <2>4, <2>5, <2>6
<1>6. CASE StartFails \/ StartCloseReturns
  <2>1. /\ pc'["main"] = pc["main"] /\ UNCHANGED <<mio, tx, rx>>
        /\ \/ /\ pc["recorder"] \in {"start", "startRx"} /\ pc'["recorder"] = "startClosing"
              /\ mio = "set" /\ handle' = "closing"
           \/ /\ pc["recorder"] = "startClosing" /\ pc'["recorder"] = "idle"
              /\ handle' = "freed"
    BY <1>6 DEF StartFails, StartCloseReturns, Close, Free, Goto, sessionVars
  <2>2. pc["main"] \in {"watch", "stop"}
    BY <2>1 DEF MainInv
  <2> QED
    BY <2>1, <2>2
<1>7. CASE SpeechStart \/ InSpeech \/ SpeechEnd \/ HandleState
  <2>1. /\ UNCHANGED <<handle, tx, rx, mio>> /\ pc'["main"] = pc["main"]
        /\ \/ pc["recorder"] = "idle" /\ pc'["recorder"] = "pushed"
           \/ pc["recorder"] = "pushed" /\ pc'["recorder"] = "idle"
           \/ pc["recorder"] = "pushed" /\ pc'["recorder"] = "close" /\ mio = "set"
           \/ pc["recorder"] = "pushed" /\ pc'["recorder"] = "try" /\ mio # "set"
    BY <1>7 DEF SpeechStart, InSpeech, SpeechEnd, Callback, HandleState, Goto, clientVars
  <2>2. pc["main"] \in {"watch", "stop"}
    <3>1. recorder = "on" \/ pc["recorder"] = "pushed"
      BY <1>7 DEF SpeechStart, InSpeech, SpeechEnd, Callback, HandleState, Goto
    <3> QED
      BY <3>1 DEF MainInv
  <2>3. mio \in {"null", "set"} /\ handle \notin {"open", "closing"}
    BY <2>1, <2>2 DEF FieldsOK
  <2>4. mio = "set" => handle \in {"started", "freed"}
    BY <2>3 DEF FieldsOK, Handles
  <2> QED
    BY <2>1, <2>2, <2>3, <2>4
<1>8. CASE Setup \/ NoticeInterrupt \/ RecStop \/ LeaveLoop \/ DestroyNothing
  <2>1. /\ UNCHANGED <<handle, tx, rx, mio>> /\ pc'["recorder"] = pc["recorder"]
        /\ pc'["main"] \in {"watch", "exited", "stop"} \/ pc["recorder"] = "idle"
        /\ pc'["main"] \in {"watch", "exited", "stop", "close", "destroy"}
        /\ pc["main"] \in {"args", "watch", "stop", "destroy"}
    BY <1>8 DEF Setup, NoticeInterrupt, RecStop, LeaveLoop, DestroyNothing, MainGoto, Goto,
       clientVars, sessionVars
  <2> QED
    BY <2>1 DEF FieldsOK, Handles
<1>9. CASE DestroyClose
  <2>1. /\ UNCHANGED <<mio, tx, rx>> /\ pc'["recorder"] = pc["recorder"]
        /\ \/ pc["main"] = "destroy" /\ pc'["main"] = "destroying" /\ handle' = "closing"
           \/ pc["main"] = "destroying" /\ pc'["main"] = "exited" /\ handle' = "freed"
        /\ mio = "set"
    BY <1>9 DEF DestroyClose, Close, Free, Goto, sessionVars
  <2>2. pc["recorder"] = "idle"
    BY <2>1 DEF MainInv
  <2> QED
    BY <2>1, <2>2
<1>10. CASE Txfunc
  <2>1. UNCHANGED <<handle, rx, mio, pc>> /\ tx # "off" /\ tx' # "off" 
    BY <1>10 DEF Txfunc, TxReadBreak, TxReadSize, TxPop, Returned, TxReturn, TxOnly, clientVars, TxInv
  <2> QED
    BY <2>1
<1>11. CASE LibraryStep
  <2>1. /\ UNCHANGED <<handle, mio, pc>>
        /\ tx' = "off" <=> tx = "off"
        /\ rx' = "off" <=> rx = "off"
    BY <1>11 DEF LibraryStep, Library, TxAsk, TxGiveUp, TxEnd, RxGiveUp, RxEnd, Report,
       SessionUnchanged, sessionVars
  <2> QED
    BY <2>1
<1>12. CASE Interrupt \/ RecorderFails \/ UNCHANGED vars
  BY <1>12 DEF Interrupt, RecorderFails, EnvOnly, vars, clientVars, sessionVars
<1> QED
  BY <1>1, <1>2, <1>3, <1>4, <1>5, <1>6, <1>7, <1>8, <1>9, <1>10, <1>11, <1>12
     DEF Next, RecorderThread, MainThread, SessionClose, Over, Threads

\* The two threads of the session together call the library in the order it
\* asks for, over all of its connections, but for the misuses MisuseExplained
\* tells of: what ClientView promises holds for them until then.
THEOREM SessionIsClient ==
    Spec => []CallsAreLegal /\ ClientSafety /\ []ClientConsistent /\ NothingIsTakenBack
<1>1. Init => ClientInit /\ CallInv
  <2>1. Init => ClientInit
    BY DEF Init
  <2>2. Init => CallInv
    BY DEF Init, ClientInit, CallInv, CallsAreLegal, Threads
  <2> QED
    BY <2>1, <2>2
<1>2. SessionInv /\ FieldsOK /\ CallInv /\ [Next]_vars => CallInv'
  BY CallStep DEF SessionInv, SessionTypeOK
<1>3. CallInv => CallsAreLegal
  BY DEF CallInv
<1> QED
  BY <1>1, <1>2, <1>3, SessionViewStep, SessionInductive, ClientMayRely, PTL
     DEF Spec, ClientSafety

=================================================================================
