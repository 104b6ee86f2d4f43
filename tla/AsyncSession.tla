---------------------------- MODULE AsyncSession ----------------------------
(***************************************************************************)
(* mimiioAsynchronousCallbackAPIController and the C API on top of it: one *)
(* connection opened with callbacks, from mimi_open to mimi_close.  Four   *)
(* threads run: the application's, which makes the API calls, and the      *)
(* monitor, the tx worker and the rx worker that mimi_start puts into the  *)
(* session's thread pool.  They talk through plain fields; the pool's      *)
(* joinAll is the only synchronisation.                                    *)
(***************************************************************************)
EXTENDS TxWorker, RxWorker

VARIABLES
    monPc, monFinish,    \* mimiioAsynchronousCallbackAPIMonitor and its finish_
    errorno, started,    \* mimiioController::errorno_, started_
    userPc,              \* where the application is in its use of the API
    reported             \* what mimi_error returned once mimi_is_active was false

monVars  == <<monPc, monFinish>>
userVars == <<started, userPc, reported>>
vars == <<connVars, encVars, txVars, rxVars, monVars, errorno, userVars>>

MonPcs == {"idle", "loop", "poll", "copy", "finishTx", "finishRx", "done"}

\* Inside mimi_start: the thread that is to be started next, then started_.
Starting == {"startTx", "startRx", "setStarted"}
\* Inside mimi_close: the finish() that is called next, then joinAll.
Closing  == {"finishRx", "finishMon", "join"}
\* Between two calls of the API.
Calling  == {"opened", "failed", "running", "inactive", "checked"}

UserPcs == Starting \union Closing \union Calling \union {"freed"}

ClosedByUser == userPc \in Closing \union {"freed"}

Init ==
    /\ ConnInit /\ EncInit /\ TxInit /\ RxInit
    /\ monPc = "idle"
    /\ monFinish = FALSE
    /\ errorno = 0
    /\ started = FALSE
    /\ userPc = "opened"
    /\ reported = 0

-----------------------------------------------------------------------------
(* What mimi_is_active and mimi_stream_state return.                       *)

IsActive == ~(txFinished /\ rxFinished)

StreamState ==
    IF ~started THEN "WAIT"
    ELSE CASE txFinished /\ rxFinished   -> "CLOSED"
           [] txFinished /\ ~rxFinished  -> "RECV"
           [] ~txFinished /\ rxFinished  -> "SEND"
           [] ~txFinished /\ ~rxFinished -> "BOTH"

-----------------------------------------------------------------------------
(* The monitor.                                                            *)

MonGoto(from, to) == monPc = from /\ monPc' = to

MonUnshared == UNCHANGED <<connVars, encVars, txVars, rxVars, monFinish, userVars>>

MonLoop ==
    /\ MonGoto("loop", IF monFinish THEN "done" ELSE "poll")
    /\ MonUnshared /\ UNCHANGED errorno

\* Seeded fault: only the tx worker's error wakes the monitor.
MonPollTxOnly ==
    /\ MonGoto("poll", IF txErrorno # 0 THEN "copy" ELSE "loop")
    /\ MonUnshared /\ UNCHANGED errorno

\* Either worker has an error, or sleep and look again.
MonPoll ==
    /\ MonGoto("poll", IF txErrorno # 0 \/ rxErrorno # 0 THEN "copy" ELSE "loop")
    /\ MonUnshared /\ UNCHANGED errorno

\* Seeded fault: the rx worker's error is copied whichever worker has one.
MonCopyRx ==
    /\ MonGoto("copy", "finishTx")
    /\ errorno' = rxErrorno
    /\ MonUnshared

\* The tx worker's error comes first.
MonCopy ==
    /\ MonGoto("copy", "finishTx")
    /\ errorno' = IF txErrorno # 0 THEN txErrorno ELSE rxErrorno
    /\ MonUnshared

MonFinishTx ==
    /\ MonGoto("finishTx", "finishRx")
    /\ txFinish' = TRUE
    /\ UNCHANGED <<connVars, encVars, txPc, txErrorno, txFinished, txLocals, txExc,
                   audioGiven, audioRests, txLate, rxVars, monFinish, errorno, userVars>>

\* Seeded fault: the rx worker is not told to finish.
MonForgetsRx ==
    /\ MonGoto("finishRx", "done")
    /\ MonUnshared /\ UNCHANGED errorno

\* Seeded fault: the monitor keeps polling after it has seen an error.
MonFinishRxPollsOn ==
    /\ MonGoto("finishRx", "loop")
    /\ rxFinish' = TRUE
    /\ UNCHANGED <<connVars, encVars, txVars, rxPc, rxErrorno, rxFinished, rxFrame,
                   rxExc, rxLate, monFinish, errorno, userVars>>

MonFinishRx ==
    /\ MonGoto("finishRx", "done")
    /\ rxFinish' = TRUE
    /\ UNCHANGED <<connVars, encVars, txVars, rxPc, rxErrorno, rxFinished, rxFrame,
                   rxExc, rxLate, monFinish, errorno, userVars>>

MonNext == MonLoop \/ MonPoll \/ MonCopy \/ MonFinishTx \/ MonFinishRx

-----------------------------------------------------------------------------
(* mimi_start: the pool starts monitor, tx and rx in turn.  It may throw   *)
(* at each (no thread to be had); mimi_start then returns 905 and leaves   *)
(* the threads it has started running.                                     *)

UserGoto(from, to) == userPc = from /\ userPc' = to

StartMonitor ==
    /\ UserGoto("opened", "startTx")
    /\ monPc' = "loop"
    /\ UNCHANGED <<connVars, encVars, txVars, rxVars, monFinish, errorno, started, reported>>

StartTx ==
    /\ UserGoto("startTx", "startRx")
    /\ txPc' = "loop"
    /\ UNCHANGED <<connVars, encVars, txErrorno, txFinish, txFinished, txLocals, txExc,
                   audioGiven, audioRests, txLate, rxVars, monVars, errorno, started, reported>>

StartRx ==
    /\ UserGoto("startRx", "setStarted")
    /\ rxPc' = "loop"
    /\ UNCHANGED <<connVars, encVars, txVars, rxErrorno, rxFinish, rxFinished, rxFrame,
                   rxExc, rxLate, monVars, errorno, started, reported>>

SetStarted ==
    /\ UserGoto("setStarted", "running")
    /\ started' = TRUE
    /\ UNCHANGED <<connVars, encVars, txVars, rxVars, monVars, errorno, reported>>

\* Seeded fault: started_ is set although the start failed.
StartFailsStarted ==
    /\ userPc \in {"opened", "startTx", "startRx"}
    /\ userPc' = "failed"
    /\ started' = TRUE
    /\ UNCHANGED <<connVars, encVars, txVars, rxVars, monVars, errorno, reported>>

StartFails ==
    /\ userPc \in {"opened", "startTx", "startRx"}
    /\ userPc' = "failed"
    /\ UNCHANGED <<connVars, encVars, txVars, rxVars, monVars, errorno, started, reported>>

(* The loop the tutorial prescribes: while(mimi_is_active(mio)) wait; then *)
(* mimi_error(mio).                                                        *)

ObserveInactive ==
    /\ UserGoto("running", "inactive")
    /\ ~IsActive
    /\ UNCHANGED <<connVars, encVars, txVars, rxVars, monVars, errorno, started, reported>>

ReadError ==
    /\ UserGoto("inactive", "checked")
    /\ reported' = errorno
    /\ UNCHANGED <<connVars, encVars, txVars, rxVars, monVars, errorno, started>>

(* mimi_close: finish() on the three threads, joinAll, delete.             *)

BeginClose ==
    /\ userPc \in Calling
    /\ userPc' = "finishRx"
    /\ txFinish' = TRUE
    /\ UNCHANGED <<connVars, encVars, txPc, txErrorno, txFinished, txLocals, txExc,
                   audioGiven, audioRests, txLate, rxVars, monVars, errorno, started, reported>>

CloseFinishRx ==
    /\ UserGoto("finishRx", "finishMon")
    /\ rxFinish' = TRUE
    /\ UNCHANGED <<connVars, encVars, txVars, rxPc, rxErrorno, rxFinished, rxFrame,
                   rxExc, rxLate, monVars, errorno, started, reported>>

CloseFinishMon ==
    /\ UserGoto("finishMon", "join")
    /\ monFinish' = TRUE
    /\ UNCHANGED <<connVars, encVars, txVars, rxVars, monPc, errorno, started, reported>>

Thread == {"monitor", "tx", "rx"}

Resting == {"idle", "done"}

LiveThreads ==
    {t \in Thread :
        CASE t = "monitor" -> monPc \notin Resting
          [] t = "tx"      -> txPc \notin Resting
          [] t = "rx"      -> rxPc \notin Resting}

\* Seeded fault: the session is deleted without waiting for its threads.
FreeWithoutJoin ==
    /\ UserGoto("join", "freed")
    /\ UNCHANGED <<connVars, encVars, txVars, rxVars, monVars, errorno, started, reported>>

\* tpool_.joinAll() returns, and everything is destroyed.
JoinAndFree ==
    /\ UserGoto("join", "freed")
    /\ LiveThreads = {}
    /\ UNCHANGED <<connVars, encVars, txVars, rxVars, monVars, errorno, started, reported>>

-----------------------------------------------------------------------------
Tx == TxNext /\ UNCHANGED <<rxVars, monVars, errorno, userVars>>
Rx == RxNext /\ UNCHANGED <<encVars, txVars, monVars, errorno, userVars>>

\* What mimi_start and mimi_close do once they are called.
InCall ==
    \/ StartTx \/ StartRx \/ SetStarted
    \/ CloseFinishRx \/ CloseFinishMon \/ JoinAndFree

\* What the application is free to do or not, and thread creation to refuse.
AtWill == StartMonitor \/ StartFails \/ ObserveInactive \/ ReadError \/ BeginClose

Freed == userPc = "freed" /\ UNCHANGED vars

Next == Tx \/ Rx \/ MonNext \/ InCall \/ AtWill \/ Freed

Spec == Init /\ [][Next]_vars

(***************************************************************************)
(* Every thread that can run runs, and a call of the API that has begun    *)
(* goes on.  For the tx worker this includes that txfunc and rxfunc return *)
(* and, for the rx worker, that the 30 second receive timeout of the       *)
(* socket lets receive_frame return.  The application owes nothing.        *)
(***************************************************************************)
Fairness == WF_vars(Tx) /\ WF_vars(Rx) /\ WF_vars(MonNext) /\ WF_vars(InCall)

FairSpec == Spec /\ Fairness

-----------------------------------------------------------------------------
(* Correctness.                                                            *)

\* Every variable stays within the values its field or local can take.
TypeOK ==
    /\ closed \in BOOLEAN /\ closeReplied \in BOOLEAN
    /\ audioSent \in Nat /\ breaksSent \in Nat
    /\ encBuffered \in Nat /\ encOutput \in Nat /\ encFailed \in BOOLEAN
    /\ txPc \in TxPcs /\ rxPc \in RxPcs /\ monPc \in MonPcs /\ userPc \in UserPcs
    /\ txErrorno \in Int /\ rxErrorno \in Int /\ errorno \in Int /\ reported \in Int
    /\ txFinish \in BOOLEAN /\ txFinished \in BOOLEAN
    /\ rxFinish \in BOOLEAN /\ rxFinished \in BOOLEAN
    /\ monFinish \in BOOLEAN /\ started \in BOOLEAN
    /\ txBreak \in BOOLEAN /\ txLen \in Lens \union {0} /\ txData \in Nat
    /\ txExc \in Exceptions \union {"none"} /\ rxExc \in Exceptions \union {"none"}
    /\ rxFrame \in Frames \union {NoFrame}
    /\ audioGiven \in Nat /\ audioRests \in Nat /\ txLate \in Nat /\ rxLate \in Nat

\* When the tx worker has sent the recog-break without an error, all audio it
\* ever took from txfunc, and the stream header, went out before it: nothing
\* is left in the encoder or in a buffer (run(), the two flush paths).  All but
\* what the code loses without a word: the rests of buffers that are not a
\* whole number of frames (flac.cpp:75), and whatever a codec that has failed
\* keeps (flac.cpp:75 and 80 ignore what libFLAC returns).
AudioBeforeBreak ==
    breaksSent > 0 /\ txErrorno = 0 /\ ~encFailed =>
        audioSent + audioRests = audioGiven + HeaderUnits

\* The code mimi_error returns is one a worker has.  The one exception is an
\* error of txfunc's that the monitor copied before the break sent because of
\* it failed and overwrote the worker's errorno_.
ReportedErrorIsGenuine ==
    errorno # 0 =>
        \/ errorno \in {txErrorno, rxErrorno}
        \/ errorno \in TxUserErrors /\ \E e \in SendFailures : txErrorno = TxCatchErrorno(e)

\* A close frame that leaves no error: a normal one, and the illegal status 0,
\* which RxWorker.cpp:77 stores as the worker's errorno_.
ClosesWithoutError(f) == f \in {NormalCloseFrame, ZeroCloseFrame}

\* If both workers have ended, neither with an error, and the application has
\* not called mimi_close, then the service closed with status 1000 and was
\* answered: no failure ends a session silently but a close status of 0, for
\* which errorcodes.md promises 904.
CleanEndIsNormalClose ==
    ~ClosedByUser /\ ~IsActive /\ txErrorno = 0 /\ rxErrorno = 0 =>
        closeReplied /\ ClosesWithoutError(rxFrame)

\* After finish() each callback is entered at most once more, whichever step
\* its worker was at: finish_ is read once per iteration.
LateCallsBounded == txLate <= 1 /\ rxLate <= 1

\* closed_ is only set when the close reply is on the wire or the peer is gone,
\* or when an empty fragment has come, which receive_frame takes for a peer
\* that is gone.
ClosedIsHonest == closed => closeReplied \/ rxFrame \in FlagsZero

\* The monitor ends only because the application closes, or after it has
\* handed an error over and told both workers to finish.
MonitorNeverAbandons ==
    monPc = "done" /\ ~ClosedByUser => errorno # 0 /\ txFinish /\ rxFinish

\* An error once visible through mimi_error is never replaced or withdrawn.
ErrorSticky == [][errorno # 0 => errorno' = errorno]_vars

\* The recog-break is the last thing the tx worker does with the connection
\* and with txfunc, in the normal case and after an error of txfunc's.
NothingAfterBreak ==
    [][breaksSent > 0 =>
        /\ breaksSent' = breaksSent
        /\ audioSent' = audioSent
        /\ audioGiven' = audioGiven]_vars

\* A worker's error gets to mimi_error unless the application closes first,
\* also when mimi_start failed half way.
ErrorReachesApi ==
    (txErrorno # 0 \/ rxErrorno # 0) ~> (errorno # 0 \/ ClosedByUser)

\* An error of one worker ends the other one too.
ErrorEndsSession ==
    (started /\ (txErrorno # 0 \/ rxErrorno # 0)) ~> ~IsActive

\* A close frame that was answered ends both directions, also when its status
\* is no error and the monitor therefore never steps in.
ServerCloseEndsSession == (started /\ closeReplied) ~> ~IsActive

-----------------------------------------------------------------------------
(* The inductive invariant behind the safety properties: what each thread  *)
(* knows at each of its steps.                                             *)

\* A worker has an error.
Failed == txErrorno # 0 \/ rxErrorno # 0

\* The tx worker: until it or the codec fails, every unit of audio it was given
\* is on the wire, in its hands, or in the encoder, or a rest; the break finds
\* hands and encoder empty.
TxInv ==
    /\ txFinished <=> txPc = "done"
    /\ txPc \notin {"errorBreak", "catch", "exit", "done"} => txErrorno = 0
    /\ txPc = "errorBreak" => txErrorno \in TxUserErrors
    /\ txPc = "catch" /\ txErrorno # 0 =>
            txErrorno \in TxUserErrors /\ txExc \in SendFailures
    /\ txPc \in {"idle", "loop", "check", "call", "encode", "flush"} => txData = 0
    /\ txPc \in {"sendTail", "break"} => encOutput = 0 /\ encBuffered = 0
    /\ txPc = "break" => txData = 0
    /\ txErrorno = 0 /\ txPc # "catch" /\ ~encFailed =>
            audioGiven + HeaderUnits =
                audioSent + audioRests + txData + encOutput + encBuffered
                + (IF txPc = "encode" THEN FrameUnits(txLen) ELSE 0)
    /\ breaksSent > 0 => txPc \in {"exit", "done"}
    /\ breaksSent > 0 /\ txErrorno = 0 =>
            txData = 0 /\ encOutput = 0 /\ encBuffered = 0
    /\ txLate <= 1
    /\ txLate = 1 => txFinish /\ txPc \notin {"idle", "check"}

\* The rx worker: after closed_ is set it takes no frame any more, and only
\* finish(), a normal close or one with status 0 lets it end without an error.
RxInv ==
    /\ rxFinished <=> rxPc = "done"
    /\ rxPc \notin {"exit", "done"} => rxErrorno = 0
    /\ closed => rxPc \in {"status", "catch", "exit", "done"} /\ ClosedIsHonest
    /\ rxPc \in {"reply", "markClosed", "status"} => rxFrame \in Frames
    /\ rxPc \in {"markClosed", "status"} => closeReplied /\ rxFrame.op = "CLOSE"
    /\ rxPc \in {"exit", "done"} /\ rxErrorno = 0 =>
            \/ rxFinish
            \/ closeReplied /\ ClosesWithoutError(rxFrame)
    /\ rxLate <= 1
    /\ rxLate = 1 => rxFinish /\ rxPc \notin {"idle", "check", "receive"}

\* The monitor: finish_ of a worker means a failure or mimi_close, and the
\* monitor writes errorno_ once, on its way out.
MonInv ==
    /\ txFinish \/ rxFinish => ClosedByUser \/ Failed
    /\ monPc \in {"copy", "finishTx", "finishRx"} => Failed
    /\ monPc \in {"finishTx", "finishRx"} => errorno # 0
    /\ monPc = "finishRx" => txFinish
    /\ monFinish => ClosedByUser
    /\ monPc = "done" => ClosedByUser \/ (errorno # 0 /\ txFinish /\ rxFinish)
    /\ errorno # 0 => monPc \in {"finishTx", "finishRx", "done"}
    /\ ReportedErrorIsGenuine

\* A thread runs once mimi_start has come to it, and none is left when
\* mimi_close is done.
StartInv ==
    /\ userPc = "opened" => monPc = "idle"
    /\ userPc \in {"opened", "startTx"} => txPc = "idle"
    /\ userPc \in {"opened", "startTx", "startRx"} => rxPc = "idle"
    /\ userPc \in Starting => monPc # "idle"
    /\ userPc \in {"startRx", "setStarted"} => txPc # "idle"
    /\ userPc = "setStarted" => rxPc # "idle"
    /\ userPc \in Starting \union {"opened", "failed"} => ~started
    /\ started => monPc # "idle" /\ txPc # "idle" /\ rxPc # "idle"
    /\ userPc = "freed" => {monPc, txPc, rxPc} \subseteq Resting

IInv == TypeOK /\ TxInv /\ RxInv /\ MonInv /\ StartInv

-----------------------------------------------------------------------------
(* How far each thread is from its end once it has been told to end: the   *)
(* longest way there.                                                      *)

\* The way from the loop's head, and from its check of closed(), depends on
\* whether it is finish_ or closed_ that ends the loop.
TxSteps(fromLoop, fromCheck) ==
    CASE txPc = "check"                   -> fromCheck
      [] txPc = "call"                    -> 8
      [] txPc = "encode"                  -> 7
      [] txPc = "send"                    -> 6
      [] txPc = "flush"                   -> 5
      [] txPc = "sendTail"                -> 4
      [] txPc \in {"break", "errorBreak"} -> 3
      [] txPc = "loop"                    -> fromLoop
      [] txPc = "catch"                   -> 2
      [] txPc = "exit"                    -> 1
      [] OTHER                            -> 0

TxStepsFinishing == TxSteps(2, 9)
TxStepsClosed    == TxSteps(3, 2)

RxStepsFinishing ==
    CASE rxPc = "check"                     -> 6
      [] rxPc = "receive"                   -> 5
      [] rxPc = "reply"                     -> 4
      [] rxPc \in {"markClosed", "callback"} -> 3
      [] rxPc \in {"status", "catch", "loop"} -> 2
      [] rxPc = "exit"                      -> 1
      [] OTHER                              -> 0

MonStepsFinishing ==
    CASE monPc = "poll"                -> 4
      [] monPc = "copy"                -> 3
      [] monPc = "finishTx"            -> 2
      [] monPc \in {"finishRx", "loop"} -> 1
      [] OTHER                         -> 0

StepsToJoin == TxStepsFinishing + RxStepsFinishing + MonStepsFinishing

\* finish() and closed_ are never taken back.
ToldStaysTold ==
    [][/\ txFinish => txFinish'
       /\ rxFinish => rxFinish'
       /\ monFinish => monFinish'
       /\ closed => closed']_vars

\* A thread that runs and has been told to finish gets nearer to its end with
\* each of its steps, and the tx worker also when the connection is closed.
WindsDown ==
    [][/\ txFinish /\ txPc \notin {"idle", txPc'} => TxStepsFinishing' < TxStepsFinishing
       /\ closed /\ txPc \notin {"idle", txPc'} => TxStepsClosed' < TxStepsClosed
       /\ rxFinish /\ rxPc \notin {"idle", rxPc'} => RxStepsFinishing' < RxStepsFinishing
       /\ monFinish /\ monPc \notin {"idle", monPc'} => MonStepsFinishing' < MonStepsFinishing
      ]_vars

\* While mimi_close waits, nothing happens that does not bring it nearer to its
\* end, and when the threads have no steps left it returns.
JoinConverges ==
    /\ [](userPc = "join" =>
            /\ txFinish /\ rxFinish /\ monFinish
            /\ StepsToJoin \in 0..19
            /\ StepsToJoin = 0 => LiveThreads = {})
    /\ [][userPc = "join" /\ userPc' = "join" => StepsToJoin' < StepsToJoin]_vars

-----------------------------------------------------------------------------
(* What the documentation says and the code does not do.                   *)

\* start_communication.md: mimi_error right after mimi_is_active has returned
\* false is zero for a normal end; the example treats zero as success.
ErrorVisibleWhenInactive ==
    userPc = "checked" /\ (txErrorno # 0 \/ rxErrorno # 0) => reported # 0

\* errorcodes.md: an error of the encoder at run time is errorno 502.  It is
\* 799 for a buffer the encoder throws at, and none when libFLAC fails.
EncoderErrorIs502 ==
    txFinished /\ (encFailed \/ (txLen # 0 /\ ~Accepts(txLen))) => txErrorno = 502

\* The comment in the rx worker's loop: receive callback only for text or
\* binary frames.
OnlyDataToRxfunc == rxPc = "callback" => rxFrame.op \in {"TEXT", "BINARY"}

(* The session as the application sees it.                                 *)

LaunchedThreads ==
    {t \in Thread :
        CASE t = "monitor" -> monPc # "idle"
          [] t = "tx"      -> txPc # "idle"
          [] t = "rx"      -> rxPc # "idle"}

Handle ==
    IF userPc \in Closing THEN "closing"
    ELSE IF userPc = "freed" THEN "freed" ELSE "open"

Life == INSTANCE StreamLife WITH
    state    <- StreamState,
    err      <- errorno,
    launched <- LaunchedThreads,
    live     <- LiveThreads,
    handle   <- Handle

\* Every step of the threads and of the application is a step of the abstract
\* session, or none: the stream state only moves as its directions do, errors
\* stay, and nothing is freed under a thread that runs.
KeepsStreamLife == Life!Safety

\* Safety and liveness of the abstract session hold of the threads.
ImplementsStreamLife == Life!Spec

-----------------------------------------------------------------------------
(* The session as the callbacks and the calls meet it.                     *)

ClientHandle ==
    CASE userPc \in {"running", "inactive", "checked"} -> "started"
      [] userPc \in Closing                             -> "closing"
      [] userPc = "freed"                               -> "freed"
      [] OTHER                                          -> "open"

ClientTx ==
    CASE txPc = "idle"                                             -> "off"
      [] txPc \in {"call", "done"}                                 -> txPc
      [] txPc \in {"loop", "check"}                                -> "busy"
      [] txPc \in {"encode", "send"} /\ ~txBreak                   -> "busy"
      [] OTHER                                                     -> "leaving"

ClientRx ==
    CASE rxPc = "idle"                                             -> "off"
      [] rxPc = "done"                                             -> "done"
      [] rxPc \in {"markClosed", "status", "catch", "exit"}        -> "leaving"
      [] OTHER                                                     -> "on"

Client == INSTANCE ClientView WITH
    handle <- ClientHandle,
    tx     <- ClientTx,
    rx     <- ClientRx,
    err    <- errorno

\* The threads keep to what the example programs are built on: after a break
\* or an error txfunc is never called again, an error is known only once a
\* worker has failed, and no callback runs after mimi_close.
KeepsClientView == Client!ClientSafety

\* ... and what the programs wait for comes about: the workers that have to
\* leave end, and mimi_close returns, however long txfunc keeps supplying.
ImplementsClientView == Client!ClientSpec

=============================================================================
