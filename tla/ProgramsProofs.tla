--------------------------- MODULE ProgramsProofs ---------------------------
(***************************************************************************)
(* Proofs about the three programs, for any length of file and recording.  *)
(***************************************************************************)
EXTENDS Programs, TLAPS

\* What pushing and popping do to the queue.
LEMMA QueueFacts ==
    ASSUME NEW q \in Seq(Samples)
    PROVE  /\ Len(q) \in Nat
           /\ \A s \in Samples : /\ Append(q, s) \in Seq(Samples)
                               /\ Len(Append(q, s)) = Len(q) + 1
           /\ q # <<>> => /\ Tail(q) \in Seq(Samples)
                          /\ Len(q) > 0 /\ Len(Tail(q)) = Len(q) - 1
           /\ <<>> \in Seq(Samples) /\ Len(<<>>) = 0 /\ 0 \in Samples
BY DEF Samples

\* Every step keeps the types; left only counts samples that are in the queue.
LEMMA TypeStep ==
    ASSUME ProgramsTypeOK, left = 0 \/ prog = "ex1", [Next]_vars
    PROVE  ProgramsTypeOK'
<1> USE DEF ProgramsTypeOK, clientVars, ioVars, Handles, TxStates, RxStates, Sources,
            Pcs, NoCode
<1>1. CASE FileArguments \/ PaArguments \/ Ex1Arguments
  BY <1>1 DEF FileArguments, PaArguments, Ex1Arguments, Arguments, At
<1>2. CASE FileOpenInput \/ PaInitialize \/ PaOpenStream \/ PaStartStream
           \/ Ex1StartRecorder
  BY <1>2 DEF FileOpenInput, PaInitialize, PaOpenStream, PaStartStream,
       Ex1StartRecorder, Acquire, At, BufferUnchanged
<1>3. CASE FileOpenFails \/ PaOpenFails \/ Ex1OpenFails
  BY <1>3 DEF FileOpenFails, PaOpenFails, Ex1OpenFails, OpenFails, At, BufferUnchanged
<1>4. CASE MimiOpen \/ MimiStart
  BY <1>4 DEF MimiOpen, Open, MimiStart, LaunchTx, LaunchRx, Started, MainOnly
<1>5. CASE FileStartFails \/ PaStartFails \/ Ex1StartFails
  BY <1>5 DEF FileStartFails, PaStartFails, Ex1StartFails, StartFails, Close, MainOnly
<1>6. CASE FileWait \/ PaWait \/ Ex1Leave \/ Ex1AwaitResult
  BY <1>6 DEF FileWait, PaWait, Ex1Leave, Ex1AwaitResult, MainGoto, At
<1>7. CASE PaCloseStream \/ Ex1Stop
  BY <1>7 DEF PaCloseStream, Ex1Stop, At, BufferUnchanged
<1>8. CASE FileReadError \/ PaReadError \/ Ex1ReadError
  BY <1>8 DEF FileReadError, PaReadError, Ex1ReadError, ReadError, At
<1>9. CASE MimiClose \/ CloseReturns \/ Release
  BY <1>9 DEF MimiClose, Close, CloseReturns, Free, Release, MainOnly, BufferUnchanged
<1>10. CASE Txfunc
  <2> USE <1>10 DEF Txfunc, FileTxChunk, FileTxShort, PaTxPop, PaTxTimeout, Ex1TxEnter,
                   Ex1TxReadSize, Ex1TxPop, TxReturn, Callback
  <2>1. tx' \in TxStates /\ UNCHANGED <<handle, rx, err>>
    OBVIOUS
  <2>2. queue' \in Seq(Samples)
    BY QueueFacts
  <2>3. left' \in 0..Len(queue')
    BY QueueFacts
  <2>4. sizing' \in BOOLEAN /\ timedOut' \in BOOLEAN
    OBVIOUS
  <2>5. unread' \in 0..MaxChunks
    BY ProgramsAssumption DEF ProgramsAssumption
  <2>6. popped' \in 0..(ChunkSamples - 1)
    BY ProgramsAssumption DEF ProgramsAssumption
  <2> QED
    BY <2>1, <2>2, <2>3, <2>4, <2>5, <2>6
<1>11. CASE Library /\ ProgramUnchanged
  BY <1>11 DEF Library, TxAsk, TxGiveUp, TxEnd, RxGiveUp, RxEnd, ProgramUnchanged
<1>12. CASE LibraryReport
  BY <1>12 DEF LibraryReport, Report, LibraryCode, Ended, ProgramUnchanged
<1>13. CASE Recording \/ PaComplete \/ RecordingFails \/ Interrupt
  <2> USE <1>13 DEF Recording, Ex1RecorderCallback, PaRecordCallback, Push, PaComplete,
                   RecordingFails, Interrupt, OutsideMain, BufferUnchanged
  <2>1. recorded' \in 0..MaxSamples
    BY ProgramsAssumption DEF ProgramsAssumption
  <2>2. queue' \in Seq(Samples) /\ left' \in 0..Len(queue')
    <3>1. queue' = queue \/ \E s \in Samples : queue' = Append(queue, s)
      BY DEF Samples
    <3>2. left' = left
      OBVIOUS
    <3>3. queue \in Seq(Samples) /\ left \in 0..Len(queue)
      OBVIOUS
    <3> HIDE <1>13 DEF ProgramsTypeOK
    <3> QED
      BY <3>1, <3>2, <3>3, QueueFacts
  <2>3. interrupted' \in BOOLEAN /\ sizing' \in BOOLEAN /\ timedOut' \in BOOLEAN
    OBVIOUS
  <2>4. source' \in Sources
    OBVIOUS
  <2> QED
    BY <2>1, <2>2, <2>3, <2>4
<1>14. CASE UNCHANGED vars
  BY <1>14 DEF vars
<1> QED
  BY <1>1, <1>2, <1>3, <1>4, <1>5, <1>6, <1>7, <1>8, <1>9, <1>10, <1>11, <1>12, <1>13,
     <1>14
     DEF Next, Main, LibraryStep, Over

\* Every step keeps main and the handle together.
LEMMA HandleStep ==
    ASSUME ProgramsTypeOK, HandleInv, [Next]_vars
    PROVE  HandleInv'
<1> USE DEF HandleInv, ProgramsTypeOK, clientVars, ioVars, TxStates, RxStates
<1>1. CASE FileArguments \/ PaArguments \/ Ex1Arguments
  BY <1>1 DEF FileArguments, PaArguments, Ex1Arguments, Arguments, At
<1>2. CASE FileOpenInput \/ PaInitialize \/ PaOpenStream \/ PaStartStream
           \/ Ex1StartRecorder
  BY <1>2 DEF FileOpenInput, PaInitialize, PaOpenStream, PaStartStream,
       Ex1StartRecorder, Acquire, At, BufferUnchanged
<1>3. CASE FileOpenFails \/ PaOpenFails \/ Ex1OpenFails
  BY <1>3 DEF FileOpenFails, PaOpenFails, Ex1OpenFails, OpenFails, At, BufferUnchanged
<1>4. CASE MimiOpen \/ MimiStart
  BY <1>4 DEF MimiOpen, Open, MimiStart, LaunchTx, LaunchRx, Started, MainOnly
<1>5. CASE FileStartFails \/ PaStartFails \/ Ex1StartFails
  BY <1>5 DEF FileStartFails, PaStartFails, Ex1StartFails, StartFails, Close, MainOnly
<1>6. CASE FileWait \/ PaWait \/ Ex1Leave \/ Ex1AwaitResult
  BY <1>6 DEF FileWait, PaWait, Ex1Leave, Ex1AwaitResult, MainGoto, At
<1>7. CASE PaCloseStream \/ Ex1Stop
  BY <1>7 DEF PaCloseStream, Ex1Stop, At, BufferUnchanged
<1>8. CASE FileReadError \/ PaReadError \/ Ex1ReadError
  BY <1>8 DEF FileReadError, PaReadError, Ex1ReadError, ReadError, At
<1>9. CASE MimiClose \/ CloseReturns \/ Release
  BY <1>9 DEF MimiClose, Close, CloseReturns, Free, Release, MainOnly, BufferUnchanged
<1>10. CASE Txfunc
  BY <1>10 DEF Txfunc, FileTxChunk, FileTxShort, PaTxPop, PaTxTimeout, Ex1TxEnter,
       Ex1TxReadSize, Ex1TxPop, TxReturn, Callback
<1>11. CASE Library /\ ProgramUnchanged
  BY <1>11 DEF Library, TxAsk, TxGiveUp, TxEnd, RxGiveUp, RxEnd, ProgramUnchanged
<1>12. CASE LibraryReport
  BY <1>12 DEF LibraryReport, Report, LibraryCode, Ended, ProgramUnchanged
<1>13. CASE Recording \/ PaComplete \/ RecordingFails \/ Interrupt
  BY <1>13 DEF Recording, Ex1RecorderCallback, PaRecordCallback, Push, PaComplete,
       RecordingFails, Interrupt, OutsideMain, BufferUnchanged
<1>14. CASE UNCHANGED vars
  BY <1>14 DEF vars
<1> QED
  BY <1>1, <1>2, <1>3, <1>4, <1>5, <1>6, <1>7, <1>8, <1>9, <1>10, <1>11, <1>12, <1>13,
     <1>14
     DEF Next, Main, LibraryStep, Over

\* Every step keeps what is known of the source.
LEMMA SourceStep ==
    ASSUME ProgramsTypeOK, HandleInv, SourceInv, [Next]_vars
    PROVE  SourceInv'
<1> USE DEF SourceInv, HandleInv, clientVars, ioVars, Active
<1>1. CASE FileArguments \/ PaArguments \/ Ex1Arguments
  BY <1>1 DEF FileArguments, PaArguments, Ex1Arguments, Arguments, At
<1>2. CASE FileOpenInput \/ PaInitialize \/ PaOpenStream \/ PaStartStream
           \/ Ex1StartRecorder
  BY <1>2 DEF FileOpenInput, PaInitialize, PaOpenStream, PaStartStream,
       Ex1StartRecorder, Acquire, At, BufferUnchanged
<1>3. CASE FileOpenFails \/ PaOpenFails \/ Ex1OpenFails
  BY <1>3 DEF FileOpenFails, PaOpenFails, Ex1OpenFails, OpenFails, At, BufferUnchanged
<1>4. CASE MimiOpen \/ MimiStart
  BY <1>4 DEF MimiOpen, Open, MimiStart, LaunchTx, LaunchRx, Started, MainOnly
<1>5. CASE FileStartFails \/ PaStartFails \/ Ex1StartFails
  BY <1>5 DEF FileStartFails, PaStartFails, Ex1StartFails, StartFails, Close, MainOnly
<1>6. CASE FileWait \/ PaWait \/ Ex1Leave \/ Ex1AwaitResult
  BY <1>6 DEF FileWait, PaWait, Ex1Leave, Ex1AwaitResult, MainGoto, At
<1>7. CASE PaCloseStream \/ Ex1Stop
  BY <1>7 DEF PaCloseStream, Ex1Stop, At, BufferUnchanged
<1>8. CASE FileReadError \/ PaReadError \/ Ex1ReadError
  BY <1>8 DEF FileReadError, PaReadError, Ex1ReadError, ReadError, At
<1>9. CASE MimiClose \/ CloseReturns \/ Release
  BY <1>9 DEF MimiClose, Close, CloseReturns, Free, Release, MainOnly, BufferUnchanged
<1>10. CASE Txfunc
  BY <1>10 DEF Txfunc, FileTxChunk, FileTxShort, PaTxPop, PaTxTimeout, Ex1TxEnter,
       Ex1TxReadSize, Ex1TxPop, TxReturn, Callback
<1>11. CASE Library /\ ProgramUnchanged
  BY <1>11 DEF Library, TxAsk, TxGiveUp, TxEnd, RxGiveUp, RxEnd, ProgramUnchanged
<1>12. CASE LibraryReport
  BY <1>12 DEF LibraryReport, Report, LibraryCode, Ended, ProgramUnchanged
<1>13. CASE Recording \/ PaComplete \/ RecordingFails \/ Interrupt
  BY <1>13 DEF Recording, Ex1RecorderCallback, PaRecordCallback, Push, PaComplete,
       RecordingFails, Interrupt, OutsideMain, BufferUnchanged
<1>14. CASE UNCHANGED vars
  BY <1>14 DEF vars
<1> QED
  BY <1>1, <1>2, <1>3, <1>4, <1>5, <1>6, <1>7, <1>8, <1>9, <1>10, <1>11, <1>12, <1>13,
     <1>14
     DEF Next, Main, LibraryStep, Over

\* Every step keeps what is known of error numbers and return values.
LEMMA CodeStep ==
    ASSUME ProgramsTypeOK, HandleInv, CodeInv, [Next]_vars
    PROVE  CodeInv'
<1> USE DEF CodeInv, HandleInv, ProgramsTypeOK, clientVars, ioVars, LibraryCode
<1>1. CASE FileArguments \/ PaArguments \/ Ex1Arguments
  BY <1>1 DEF FileArguments, PaArguments, Ex1Arguments, Arguments, At
<1>2. CASE FileOpenInput \/ PaInitialize \/ PaOpenStream \/ PaStartStream
           \/ Ex1StartRecorder
  BY <1>2 DEF FileOpenInput, PaInitialize, PaOpenStream, PaStartStream,
       Ex1StartRecorder, Acquire, At, BufferUnchanged
<1>3. CASE FileOpenFails \/ PaOpenFails \/ Ex1OpenFails
  BY <1>3 DEF FileOpenFails, PaOpenFails, Ex1OpenFails, OpenFails, At, BufferUnchanged
<1>4. CASE MimiOpen \/ MimiStart
  BY <1>4 DEF MimiOpen, Open, MimiStart, LaunchTx, LaunchRx, Started, MainOnly
<1>5. CASE FileStartFails \/ PaStartFails \/ Ex1StartFails
  BY <1>5 DEF FileStartFails, PaStartFails, Ex1StartFails, StartFails, Close, MainOnly
<1>6. CASE FileWait \/ PaWait \/ Ex1Leave \/ Ex1AwaitResult
  BY <1>6 DEF FileWait, PaWait, Ex1Leave, Ex1AwaitResult, MainGoto, At
<1>7. CASE PaCloseStream \/ Ex1Stop
  BY <1>7 DEF PaCloseStream, Ex1Stop, At, BufferUnchanged
<1>8. CASE FileReadError \/ PaReadError \/ Ex1ReadError
  BY <1>8 DEF FileReadError, PaReadError, Ex1ReadError, ReadError, At
<1>9. CASE MimiClose \/ CloseReturns \/ Release
  BY <1>9 DEF MimiClose, Close, CloseReturns, Free, Release, MainOnly, BufferUnchanged
<1>10. CASE Txfunc
  BY <1>10, QueueFacts DEF Txfunc, FileTxChunk, FileTxShort,
       PaTxPop, PaTxTimeout, Ex1TxEnter, Ex1TxReadSize, Ex1TxPop, TxReturn, Callback
<1>11. CASE Library /\ ProgramUnchanged
  BY <1>11 DEF Library, TxAsk, TxGiveUp, TxEnd, RxGiveUp, RxEnd, ProgramUnchanged
<1>12. CASE LibraryReport
  BY <1>12 DEF LibraryReport, Report, LibraryCode, Ended, ProgramUnchanged
<1>13. CASE Recording \/ PaComplete \/ RecordingFails \/ Interrupt
  BY <1>13 DEF Recording, Ex1RecorderCallback, PaRecordCallback, Push, PaComplete,
       RecordingFails, Interrupt, OutsideMain, BufferUnchanged
<1>14. CASE UNCHANGED vars
  BY <1>14 DEF vars
<1> QED
  BY <1>1, <1>2, <1>3, <1>4, <1>5, <1>6, <1>7, <1>8, <1>9, <1>10, <1>11, <1>12, <1>13,
     <1>14
     DEF Next, Main, LibraryStep, Over

\* Each program begins without a connection.
LEMMA ProgramsInit == Init => ProgramsInv
<1> SUFFICES ASSUME Init PROVE ProgramsInv
  OBVIOUS
<1>1. ProgramsTypeOK
  <2>1. queue \in Seq(Samples) /\ left \in 0..Len(queue)
    BY QueueFacts DEF Init
  <2>2. /\ unread \in 0..MaxChunks /\ recorded \in 0..MaxSamples
        /\ popped \in 0..(ChunkSamples - 1)
    BY ProgramsAssumption DEF ProgramsAssumption, Init
  <2>3. interrupted \in BOOLEAN /\ sizing \in BOOLEAN /\ timedOut \in BOOLEAN
    BY DEF Init
  <2> QED
    BY <2>1, <2>2, <2>3 DEF Init, ClientInit, ProgramsTypeOK, Handles, TxStates, RxStates,
       Sources, Pcs, NoCode
<1>2. HandleInv /\ SourceInv /\ CodeInv
  BY DEF Init, ClientInit, HandleInv, SourceInv, CodeInv
<1> QED
  BY <1>1, <1>2 DEF ProgramsInv

\* What main knows at each of its steps is an invariant.
LEMMA ProgramsInductive == Spec => []ProgramsInv
<1>1. ProgramsInv /\ [Next]_vars => ProgramsInv'
  <2> SUFFICES ASSUME ProgramsInv, [Next]_vars PROVE ProgramsInv'
    OBVIOUS
  <2>1. ProgramsTypeOK'
    BY TypeStep DEF ProgramsInv, CodeInv
  <2>2. HandleInv' /\ SourceInv' /\ CodeInv'
    BY HandleStep, SourceStep, CodeStep DEF ProgramsInv
  <2> QED
    BY <2>1, <2>2 DEF ProgramsInv
<1> QED
  BY ProgramsInit, <1>1, PTL DEF Spec

\* Every variable keeps its type, and ex1's txfunc never wants more samples
\* than there are.
THEOREM ProgramsTyped == Spec => []ProgramsTypeOK
BY ProgramsInductive, PTL DEF ProgramsInv

\* However main ends, and whatever failed on the way, the connection is closed
\* and nothing records any more.
THEOREM ProgramsHoldNothing == Spec => []NothingHeldAtExit
<1>1. ProgramsInv => NothingHeldAtExit
  BY DEF ProgramsInv, HandleInv, SourceInv, NothingHeldAtExit
<1> QED
  BY ProgramsInductive, <1>1, PTL

\* The file and pa programs return 0 only after a session without an error.
THEOREM ProgramsExitHonestly == Spec => []ExitCodeHonest
<1>1. ProgramsInv => ExitCodeHonest
  BY DEF ProgramsInv, CodeInv, ExitCodeHonest
<1> QED
  BY ProgramsInductive, <1>1, PTL

\* The file program and ex1 wait for the end of the session before they close.
THEOREM ProgramsCloseGracefully == Spec => GracefulClose
<1>1. ProgramsInv /\ [Next]_vars
        => [handle = "started" /\ handle' = "closing" /\ prog # "pa" =>
              ~Active \/ source = "failed"]_vars
  <2> SUFFICES ASSUME ProgramsInv, [Next]_vars,
                      handle = "started", handle' = "closing", prog # "pa"
               PROVE  ~Active \/ source = "failed"
    OBVIOUS
  <2>1. pc = "close"
    BY DEF ProgramsInv, HandleInv, Next, Main, Txfunc, LibraryStep, Over, clientVars,
           Acquire, Arguments, At, BufferUnchanged, Callback, Close, CloseReturns,
           Ended, Ex1Arguments, Ex1AwaitResult, Ex1Leave, Ex1OpenFails, Ex1ReadError,
           Ex1RecorderCallback, Ex1StartFails, Ex1StartRecorder, Ex1Stop, Ex1TxEnter,
           Ex1TxReadSize, Ex1TxPop, FileArguments, FileOpenFails, FileOpenInput, FileReadError,
           FileStartFails, FileTxChunk, FileTxShort, FileWait, Free, Interrupt,
           LaunchRx, LaunchTx, Library, LibraryCode, LibraryReport, MainGoto, MainOnly,
           MimiClose, MimiOpen, MimiStart, Open, OpenFails, OutsideMain, PaArguments,
           PaCloseStream, PaComplete, PaInitialize, PaOpenFails, PaOpenStream,
           PaReadError, PaRecordCallback, PaStartFails, PaStartStream, PaTxPop,
           PaTxTimeout, PaWait, ProgramUnchanged, Push, ReadError, Recording,
           RecordingFails, Release, Report, RxEnd, RxGiveUp, Samples, StartFails,
           Started, TxAsk, TxEnd, TxGiveUp, TxReturn, vars
  <2> QED
    BY <2>1 DEF ProgramsInv, SourceInv
<1> QED
  BY ProgramsInductive, <1>1, PTL DEF Spec, GracefulClose

-----------------------------------------------------------------------------
\* Each step of a program calls the library as ClientView lets it, returns
\* from txfunc, is the library's, or does not touch the connection.
LEMMA ProgramsViewStep ==
    ASSUME ProgramsTypeOK, [Next]_vars
    PROVE  [ClientNext]_clientVars
<1>1. CASE Main
  <2>1. CASE MimiOpen \/ MimiStart \/ MimiClose \/ CloseReturns
    BY <2>1 DEF MimiOpen, MimiStart, MimiClose, CloseReturns, ClientNext
  <2>2. CASE FileStartFails \/ PaStartFails \/ Ex1StartFails
    BY <2>2 DEF FileStartFails, PaStartFails, Ex1StartFails, StartFails, ClientNext
  <2>3. CASE FileArguments \/ PaArguments \/ Ex1Arguments
    BY <2>3 DEF FileArguments, PaArguments, Ex1Arguments, Arguments
  <2>4. CASE FileOpenInput \/ PaInitialize \/ PaOpenStream \/ PaStartStream \/ Ex1StartRecorder
    BY <2>4 DEF FileOpenInput, PaInitialize, PaOpenStream, PaStartStream, Ex1StartRecorder, Acquire
  <2>5. CASE FileOpenFails \/ PaOpenFails \/ Ex1OpenFails
    BY <2>5 DEF FileOpenFails, PaOpenFails, Ex1OpenFails, OpenFails
  <2>6. CASE FileReadError \/ PaReadError \/ Ex1ReadError
    BY <2>6 DEF FileReadError, PaReadError, Ex1ReadError, ReadError
  <2>7. CASE FileWait \/ PaWait \/ PaCloseStream \/ Ex1Leave \/ Ex1Stop \/ Ex1AwaitResult \/ Release
    BY <2>7 DEF FileWait, PaWait, PaCloseStream, Ex1Leave, Ex1Stop, Ex1AwaitResult, Release, MainGoto
  <2> QED
    BY <1>1, <2>1, <2>2, <2>3, <2>4, <2>5, <2>6, <2>7 DEF Main
<1>2. CASE Txfunc
  <2>1. UNCHANGED clientVars \/ \E last \in BOOLEAN : TxReturn(last)
    BY <1>2 DEF Txfunc, FileTxChunk, FileTxShort, PaTxPop, PaTxTimeout, Ex1TxEnter,
       Ex1TxReadSize, Ex1TxPop, ProgramsTypeOK
  <2> QED
    BY <2>1 DEF ClientNext
<1>3. CASE LibraryStep
  BY <1>3 DEF LibraryStep, LibraryReport, ClientNext
<1>4. CASE Recording \/ PaComplete \/ RecordingFails \/ Interrupt
  BY <1>4 DEF Recording, Ex1RecorderCallback, PaRecordCallback, Push, PaComplete,
     RecordingFails, Interrupt, OutsideMain
<1>5. CASE UNCHANGED vars
  BY <1>5 DEF vars
<1> QED
  BY <1>1, <1>2, <1>3, <1>4, <1>5 DEF Next, Over

\* The three programs call the library in the order it asks for: when main
\* comes to a call the call is allowed, mimi_start and mimi_close come once and
\* nothing on a handle that mimi_close has freed.  What ClientView promises
\* then holds for them.
THEOREM ProgramsAreClients ==
    Spec => []CallsAreLegal /\ ClientSafety /\ []ClientConsistent /\ NothingIsTakenBack
<1>1. Init => ClientInit
  BY DEF Init
<1>2. ProgramsInv => CallsAreLegal
  BY DEF ProgramsInv, HandleInv, CallsAreLegal
<1> QED
  BY <1>1, <1>2, ProgramsViewStep, ProgramsTyped, ProgramsInductive, ClientMayRely, PTL
     DEF Spec, ClientSafety

=============================================================================
