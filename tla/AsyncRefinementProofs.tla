----------------------- MODULE AsyncRefinementProofs -----------------------
(***************************************************************************)
(* The asynchronous session implements the safety parts of StreamLife and  *)
(* of ClientView, for every value of its constants: what mimiio.h promises *)
(* of a stream, and what the example programs take for granted of the      *)
(* library, holds of its threads.                                          *)
(***************************************************************************)
EXTENDS AsyncSessionProofs

\* Which threads are live and launched, read off their program counters.
LEMMA ThreadSets ==
    /\ LiveThreads \subseteq Thread /\ LaunchedThreads \subseteq Thread
    /\ "monitor" \in LiveThreads <=> monPc \notin Resting
    /\ "tx" \in LiveThreads <=> txPc \notin Resting
    /\ "rx" \in LiveThreads <=> rxPc \notin Resting
    /\ "monitor" \in LaunchedThreads <=> monPc # "idle"
    /\ "tx" \in LaunchedThreads <=> txPc # "idle"
    /\ "rx" \in LaunchedThreads <=> rxPc # "idle"
BY DEF LiveThreads, LaunchedThreads, Thread

\* The same of the next state.
LEMMA ThreadSetsNext ==
    /\ LiveThreads' \subseteq Thread /\ LaunchedThreads' \subseteq Thread
    /\ "monitor" \in LiveThreads' <=> monPc' \notin Resting
    /\ "tx" \in LiveThreads' <=> txPc' \notin Resting
    /\ "rx" \in LiveThreads' <=> rxPc' \notin Resting
    /\ "monitor" \in LaunchedThreads' <=> monPc' # "idle"
    /\ "tx" \in LaunchedThreads' <=> txPc' # "idle"
    /\ "rx" \in LaunchedThreads' <=> rxPc' # "idle"
BY DEF LiveThreads, LaunchedThreads, Thread

\* What becomes of the sets when only one thread's counter moves.
LEMMA OneThread ==
    ASSUME NEW S \in SUBSET Thread, NEW T \in SUBSET Thread, NEW t \in Thread, t \in S,
           \A u \in Thread \ {t} : u \in T <=> u \in S
    PROVE  IF t \in T THEN T = S ELSE T = S \ {t}
OBVIOUS

\* Once mimi_start is through, the stream state tells which workers live.
LEMMA StateFollowsThreads ==
    ASSUME IInv
    PROVE  StreamState = IF started THEN Life!StateOf(LiveThreads) ELSE "WAIT"
<1>1. CASE ~started
  BY <1>1 DEF StreamState
<1>2. CASE started
  <2>1. txFinished <=> "tx" \notin LiveThreads
    BY <1>2, ThreadSets DEF IInv, TxInv, StartInv, Resting
  <2>2. rxFinished <=> "rx" \notin LiveThreads
    BY <1>2, ThreadSets DEF IInv, RxInv, StartInv, Resting
  <2> QED
    BY <1>2, <2>1, <2>2 DEF StreamState, Life!StateOf
<1> QED
  BY <1>1, <1>2

\* The same of the next state.
LEMMA StateFollowsThreadsNext ==
    ASSUME IInv'
    PROVE  StreamState' = IF started' THEN Life!StateOf(LiveThreads') ELSE "WAIT"
<1>1. CASE ~started'
  BY <1>1 DEF StreamState
<1>2. CASE started'
  <2>1. txFinished' <=> "tx" \notin LiveThreads'
    BY <1>2, ThreadSetsNext DEF IInv, TxInv, StartInv, Resting
  <2>2. rxFinished' <=> "rx" \notin LiveThreads'
    BY <1>2, ThreadSetsNext DEF IInv, RxInv, StartInv, Resting
  <2> QED
    BY <1>2, <2>1, <2>2 DEF StreamState, Life!StateOf
<1> QED
  BY <1>1, <1>2

\* "WAIT" is no state of running directions.
LEMMA WaitMeansNotStarted ==
    ASSUME IInv
    PROVE  StreamState = "WAIT" <=> ~started
BY StateFollowsThreads DEF Life!StateOf

-----------------------------------------------------------------------------
\* A thread other than the monitor, or the monitor with an error told or while
\* the application closes, ends; or no thread ends at all.
LEMMA EndStep ==
    ASSUME IInv, IInv',
           UNCHANGED <<errorno, started, userPc, LaunchedThreads>>,
           NEW t \in Thread,
           LiveThreads' = LiveThreads \/ (t \in LiveThreads /\ LiveThreads' = LiveThreads \ {t}),
           t = "monitor" => errorno # 0 \/ Handle = "closing" \/ LiveThreads' = LiveThreads
    PROVE  [Life!Next]_(Life!lifeVars)
<1>1. Handle' = Handle
  BY DEF Handle
<1>2. CASE LiveThreads' = LiveThreads
  <2>1. StreamState' = StreamState
    BY <1>2, StateFollowsThreads, StateFollowsThreadsNext
  <2> QED
    BY <1>1, <1>2, <2>1 DEF Life!lifeVars
<1>3. CASE t \in LiveThreads /\ LiveThreads' = LiveThreads \ {t} /\ LiveThreads' # LiveThreads
  <2>1. StreamState' = IF StreamState = "WAIT" THEN "WAIT" ELSE Life!StateOf(LiveThreads \ {t})
    BY <1>3, WaitMeansNotStarted, StateFollowsThreadsNext
  <2>2. Life!End(t)
    BY <1>1, <1>3, <2>1 DEF Life!End
  <2> QED
    BY <2>2 DEF Life!Next, Life!Threads, Thread
<1> QED
  BY <1>2, <1>3

\* A step of the tx worker is its end, or does not show.
LEMMA TxLife ==
    ASSUME IInv, IInv', Tx
    PROVE  [Life!Next]_(Life!lifeVars)
<1>1. "tx" \in LiveThreads
  BY TxUnchanged, ThreadSets
<1>2. IF "tx" \in LiveThreads' THEN LiveThreads' = LiveThreads
      ELSE LiveThreads' = LiveThreads \ {"tx"}
  <2>1. \A u \in Thread \ {"tx"} : u \in LiveThreads' <=> u \in LiveThreads
    BY TxUnchanged, ThreadSets, ThreadSetsNext DEF Thread
  <2> QED
    BY <1>1, <2>1, ThreadSets, ThreadSetsNext, OneThread DEF Thread
<1>3. LaunchedThreads' = LaunchedThreads
  <2>1. \A u \in Thread \ {"tx"} : u \in LaunchedThreads' <=> u \in LaunchedThreads
    BY TxUnchanged, ThreadSets, ThreadSetsNext DEF Thread
  <2>2. "tx" \in LaunchedThreads /\ "tx" \in LaunchedThreads'
    BY TxUnchanged, ThreadSets, ThreadSetsNext DEF Resting
  <2> QED
    BY <2>1, <2>2, ThreadSets, ThreadSetsNext, OneThread DEF Thread
<1> QED
  BY <1>1, <1>2, <1>3, TxUnchanged, EndStep DEF Thread

\* A step of the rx worker is its end, the close, or does not show.
LEMMA RxLife ==
    ASSUME IInv, IInv', Rx
    PROVE  [Life!Next]_(Life!lifeVars)
<1>0. UNCHANGED <<txPc, monPc, errorno, started, userPc>> /\ rxPc \notin Resting /\ rxPc' # "idle"
  BY RxUnchanged DEF IInv, txVars, monVars
<1>1. "rx" \in LiveThreads
  BY <1>0, ThreadSets
<1>2. IF "rx" \in LiveThreads' THEN LiveThreads' = LiveThreads
      ELSE LiveThreads' = LiveThreads \ {"rx"}
  <2>1. \A u \in Thread \ {"rx"} : u \in LiveThreads' <=> u \in LiveThreads
    BY <1>0, ThreadSets, ThreadSetsNext DEF Thread
  <2> QED
    BY <1>1, <2>1, ThreadSets, ThreadSetsNext, OneThread DEF Thread
<1>3. LaunchedThreads' = LaunchedThreads
  <2>1. \A u \in Thread \ {"rx"} : u \in LaunchedThreads' <=> u \in LaunchedThreads
    BY <1>0, ThreadSets, ThreadSetsNext DEF Thread
  <2>2. "rx" \in LaunchedThreads /\ "rx" \in LaunchedThreads'
    BY <1>0, ThreadSets, ThreadSetsNext DEF Resting
  <2> QED
    BY <2>1, <2>2, ThreadSets, ThreadSetsNext, OneThread DEF Thread
<1> QED
  BY <1>0, <1>1, <1>2, <1>3, EndStep DEF Thread

\* A step of the monitor is its end, the report of an error, or does not show.
LEMMA MonLife ==
    ASSUME IInv, IInv', MonNext
    PROVE  [Life!Next]_(Life!lifeVars)
<1>0. /\ UNCHANGED <<txPc, rxPc, started, userPc>>
      /\ monPc \notin Resting /\ monPc' # "idle"
  BY DEF Resting, MonNext, MonGoto, MonUnshared, txVars, rxVars, userVars, MonLoop, MonPoll,
       MonCopy, MonFinishTx, MonFinishRx
<1>1. "monitor" \in LiveThreads
  BY <1>0, ThreadSets
<1>2. IF "monitor" \in LiveThreads' THEN LiveThreads' = LiveThreads
      ELSE LiveThreads' = LiveThreads \ {"monitor"}
  <2>1. \A u \in Thread \ {"monitor"} : u \in LiveThreads' <=> u \in LiveThreads
    BY <1>0, ThreadSets, ThreadSetsNext DEF Thread
  <2> QED
    BY <1>1, <2>1, ThreadSets, ThreadSetsNext, OneThread DEF Thread
<1>3. LaunchedThreads' = LaunchedThreads
  <2>1. \A u \in Thread \ {"monitor"} : u \in LaunchedThreads' <=> u \in LaunchedThreads
    BY <1>0, ThreadSets, ThreadSetsNext DEF Thread
  <2>2. "monitor" \in LaunchedThreads /\ "monitor" \in LaunchedThreads'
    BY <1>0, ThreadSets, ThreadSetsNext DEF Resting
  <2> QED
    BY <2>1, <2>2, ThreadSets, ThreadSetsNext, OneThread DEF Thread
<1>4. CASE MonCopy
  <2>1. LiveThreads' = LiveThreads
    BY <1>2, <1>4, ThreadSetsNext DEF MonCopy, MonGoto, Resting
  <2>2. errorno = 0 /\ errorno' \in Int \ {0}
    BY <1>4 DEF MonCopy, MonGoto, IInv, TypeOK, MonInv, Failed
  <2>3. StreamState' = StreamState /\ Handle' = Handle
    BY <1>0, <2>1, StateFollowsThreads, StateFollowsThreadsNext DEF Handle
  <2> QED
    BY <1>1, <1>3, <2>1, <2>2, <2>3 DEF Life!Next, Life!Report
<1>5. CASE ~MonCopy
  <2>1. errorno' = errorno
    BY <1>5 DEF MonNext, MonLoop, MonPoll, MonFinishTx, MonFinishRx
  <2>2. LiveThreads' # LiveThreads => errorno # 0 \/ monFinish
    <3>1. monPc' \in Resting => errorno # 0 \/ monFinish
      BY <1>5 DEF Resting, MonNext, MonGoto, MonLoop, MonPoll, MonFinishTx, MonFinishRx, IInv, MonInv
    <3> QED
      BY <1>2, <3>1, ThreadSetsNext
  <2>3. monFinish => Handle = "closing"
    BY <1>0 DEF IInv, MonInv, StartInv, ClosedByUser, Handle
  <2> QED
    BY <1>0, <1>1, <1>2, <1>3, <2>1, <2>2, <2>3, EndStep DEF Thread
<1> QED
  BY <1>4, <1>5

-----------------------------------------------------------------------------
\* A step of the application that starts no thread and does not change the
\* handle or started_ does not show.
LEMMA InvisibleStep ==
    ASSUME IInv, IInv', UNCHANGED <<monPc, txPc, rxPc, started, errorno, Handle>>
    PROVE  UNCHANGED Life!lifeVars
<1>1. LiveThreads' = LiveThreads /\ LaunchedThreads' = LaunchedThreads
  BY DEF LiveThreads, LaunchedThreads
<1> QED
  BY <1>1, StateFollowsThreads, StateFollowsThreadsNext DEF Life!lifeVars

\* A thread that was idle begins to run.
LEMMA LaunchStep ==
    ASSUME IInv, IInv', userPc \in Starting \union {"opened"},
           UNCHANGED <<started, errorno, Handle>>,
           NEW t \in Thread, t \notin LaunchedThreads,
           LiveThreads' = LiveThreads \union {t},
           LaunchedThreads' = LaunchedThreads \union {t}
    PROVE  Life!Next
<1>1. ~started
  BY DEF IInv, StartInv
<1>2. StreamState = "WAIT" /\ StreamState' = "WAIT"
  BY <1>1, StateFollowsThreads, StateFollowsThreadsNext
<1>3. Handle = "open"
  BY DEF Handle, Starting, Closing
<1>4. Life!Launch(t)
  BY <1>2, <1>3 DEF Life!Launch
<1> QED
  BY <1>4 DEF Life!Next, Life!Threads, Thread

\* A step of the application moves the handle or launches a thread.
LEMMA UserLife ==
    ASSUME IInv, IInv', InCall \/ AtWill
    PROVE  [Life!Next]_(Life!lifeVars)
<1> USE DEF UserGoto, Starting, Closing, Calling, txVars, rxVars, monVars, Resting
<1>1. CASE StartMonitor
  <2>1. /\ LiveThreads' = LiveThreads \union {"monitor"}
        /\ LaunchedThreads' = LaunchedThreads \union {"monitor"}
        /\ "monitor" \notin LaunchedThreads
    BY <1>1, ThreadSets, ThreadSetsNext DEF StartMonitor, Thread, IInv, StartInv
  <2> QED
    BY <1>1, <2>1, LaunchStep DEF StartMonitor, Thread, Handle
<1>2. CASE StartTx
  <2>1. /\ LiveThreads' = LiveThreads \union {"tx"}
        /\ LaunchedThreads' = LaunchedThreads \union {"tx"}
        /\ "tx" \notin LaunchedThreads
    BY <1>2, ThreadSets, ThreadSetsNext DEF StartTx, Thread, IInv, StartInv
  <2> QED
    BY <1>2, <2>1, LaunchStep DEF StartTx, Thread, Handle
<1>3. CASE StartRx
  <2>1. /\ LiveThreads' = LiveThreads \union {"rx"}
        /\ LaunchedThreads' = LaunchedThreads \union {"rx"}
        /\ "rx" \notin LaunchedThreads
    BY <1>3, ThreadSets, ThreadSetsNext DEF StartRx, Thread, IInv, StartInv
  <2> QED
    BY <1>3, <2>1, LaunchStep DEF StartRx, Thread, Handle
<1>4. CASE SetStarted
  <2>1. LiveThreads' = LiveThreads /\ LaunchedThreads' = LaunchedThreads
    BY <1>4 DEF SetStarted, LiveThreads, LaunchedThreads
  <2>2. LaunchedThreads = Thread /\ ~started
    BY <1>4, ThreadSets DEF SetStarted, IInv, StartInv, Thread
  <2>3. StreamState = "WAIT" /\ StreamState' = Life!StateOf(LiveThreads)
    BY <1>4, <2>1, <2>2, StateFollowsThreads, StateFollowsThreadsNext DEF SetStarted
  <2>4. Handle = "open" /\ Handle' = "open"
    BY <1>4 DEF SetStarted, Handle
  <2>5. Life!Start
    BY <1>4, <2>1, <2>2, <2>3, <2>4 DEF SetStarted, Life!Start, Life!Threads, Thread
  <2> QED
    BY <2>5 DEF Life!Next
<1>5. CASE StartFails \/ ObserveInactive \/ ReadError \/ CloseFinishRx \/ CloseFinishMon
  <2>1. Handle' = Handle
    BY <1>5 DEF StartFails, ObserveInactive, ReadError, CloseFinishRx, CloseFinishMon, Handle
  <2>2. UNCHANGED <<monPc, txPc, rxPc, started, errorno>>
    BY <1>5 DEF StartFails, ObserveInactive, ReadError, CloseFinishRx, CloseFinishMon
  <2> QED
    BY <2>1, <2>2, InvisibleStep
<1>6. CASE BeginClose
  <2>1. Handle = "open" /\ Handle' = "closing"
    BY <1>6 DEF BeginClose, Handle
  <2>2. UNCHANGED <<LiveThreads, LaunchedThreads, started, errorno>>
    BY <1>6 DEF BeginClose, LiveThreads, LaunchedThreads
  <2>3. StreamState' = StreamState
    BY <2>2, StateFollowsThreads, StateFollowsThreadsNext
  <2> QED
    BY <2>1, <2>2, <2>3 DEF Life!Next, Life!Close
<1>7. CASE JoinAndFree
  <2>1. Handle = "closing" /\ Handle' = "freed" /\ LiveThreads = {}
    BY <1>7 DEF JoinAndFree, Handle
  <2>2. UNCHANGED <<LiveThreads, LaunchedThreads, started, errorno>>
    BY <1>7 DEF JoinAndFree, LiveThreads, LaunchedThreads
  <2>3. StreamState' = StreamState
    BY <2>2, StateFollowsThreads, StateFollowsThreadsNext
  <2> QED
    BY <2>1, <2>2, <2>3 DEF Life!Next, Life!Free
<1> QED
  BY <1>1, <1>2, <1>3, <1>4, <1>5, <1>6, <1>7 DEF InCall, AtWill

-----------------------------------------------------------------------------
\* Before mimi_start there is no thread and no error.
LEMMA InitLife == Init => Life!Init
<1> SUFFICES ASSUME Init PROVE Life!Init
  OBVIOUS
<1>1. LiveThreads = {} /\ LaunchedThreads = {}
  BY ThreadSets DEF Init, TxInit, RxInit, Resting, Thread
<1>2. StreamState = "WAIT" /\ errorno = 0 /\ Handle = "open"
  BY DEF Init, StreamState, Handle, Closing
<1> QED
  BY <1>1, <1>2 DEF Life!Init

\* The threads of a session, their polling and their flags implement the life
\* of a stream as mimiio.h describes it: every step is one of StreamLife's or
\* does not show.
THEOREM SessionImplementsStreamLife == Spec => KeepsStreamLife
<1>1. IInv /\ IInv' /\ [Next]_vars => [Life!Next]_(Life!lifeVars)
  <2> SUFFICES ASSUME IInv, IInv', [Next]_vars
               PROVE  [Life!Next]_(Life!lifeVars)
    OBVIOUS
  <2>1. CASE UNCHANGED vars
    BY <2>1, InvisibleStep DEF vars, txVars, rxVars, monVars, userVars, Handle
  <2> QED
    BY <2>1, TxLife, RxLife, MonLife, UserLife DEF Next, Freed
<1> QED
  BY InitLife, Inductive, <1>1, PTL DEF Spec, KeepsStreamLife, Life!Safety

\* From the state and its threads follows what the abstract stream keeps.
LEMMA LifeStep ==
    ASSUME Life!StateIsTrue, [Life!Next]_(Life!lifeVars)
    PROVE  Life!StateIsTrue'
<1> USE DEF Life!StateIsTrue, Life!Threads
<1>1. ASSUME NEW t \in Life!Threads, Life!Launch(t) PROVE Life!StateIsTrue'
  BY <1>1 DEF Life!Launch
<1>2. ASSUME NEW t \in Life!Threads, Life!End(t) PROVE Life!StateIsTrue'
  <2>1. StreamState' # "WAIT" => StreamState # "WAIT"
    BY <1>2 DEF Life!End
  <2> QED
    BY <1>2, <2>1 DEF Life!End
<1>3. CASE Life!Start
  BY <1>3 DEF Life!Start
<1>4. CASE Life!Report
  BY <1>4 DEF Life!Report
<1>5. CASE Life!Close \/ Life!Free
  BY <1>5 DEF Life!Close, Life!Free
<1>6. CASE UNCHANGED Life!lifeVars
  BY <1>6 DEF Life!lifeVars
<1> QED
  BY <1>1, <1>2, <1>3, <1>4, <1>5, <1>6 DEF Life!Next

\* No step of the abstract stream goes back.
LEMMA LifeGoesOn ==
    ASSUME Life!StateIsTrue, Life!Next
    PROVE  /\ StreamState # "WAIT" => StreamState' # "WAIT" /\ LiveThreads' \subseteq LiveThreads
           /\ errorno # 0 => errorno' = errorno
           /\ Handle # "freed"
<1> USE DEF Life!StateIsTrue, Life!Threads
<1>1. ASSUME NEW t \in Life!Threads, Life!Launch(t)
      PROVE  /\ StreamState = "WAIT"
             /\ errorno' = errorno
             /\ Handle # "freed"
  BY <1>1 DEF Life!Launch
<1>2. ASSUME NEW t \in Life!Threads, Life!End(t)
      PROVE  /\ StreamState # "WAIT" => StreamState' # "WAIT" /\ LiveThreads' \subseteq LiveThreads
             /\ errorno' = errorno
             /\ Handle # "freed"
  BY <1>2 DEF Life!End, Life!StateOf
<1>3. CASE Life!Start
  BY <1>3 DEF Life!Start
<1>4. CASE Life!Report
  BY <1>4 DEF Life!Report
<1>5. CASE Life!Close \/ Life!Free
  BY <1>5 DEF Life!Close, Life!Free
<1> QED
  BY <1>1, <1>2, <1>3, <1>4, <1>5 DEF Life!Next

\* What mimiio.h says of MIMIIO_STREAM_STATE holds of the threads: the state
\* is WAIT until mimi_start succeeds, then tells which directions are open, and
\* none opens again; mimi_close frees nothing that a thread still uses.
THEOREM StreamStateIsTrue == Spec => []Life!StateIsTrue /\ Life!OneWay
<1>1. Life!Init => Life!StateIsTrue
  BY DEF Life!Init, Life!StateIsTrue
<1> QED
  BY SessionImplementsStreamLife, <1>1, LifeStep, LifeGoesOn, PTL
     DEF KeepsStreamLife, Life!Safety, Life!OneWay

-----------------------------------------------------------------------------
\* Where a worker is for the application follows from its own counter, for tx
\* together with the break of the buffer it has in hand.
LEMMA WorkersUnchanged ==
    /\ UNCHANGED <<txPc, txBreak>> => ClientTx' = ClientTx
    /\ UNCHANGED rxPc => ClientRx' = ClientRx
    /\ UNCHANGED userPc => ClientHandle' = ClientHandle
BY DEF ClientTx, ClientRx, ClientHandle

\* A step of the tx worker asks txfunc, returns from it, gives up, ends, or
\* does not show.
LEMMA TxView ==
    ASSUME Tx
    PROVE  [Client!ClientNext]_(Client!clientVars)
<1>1. UNCHANGED <<ClientHandle, ClientRx, errorno>>
  BY WorkersUnchanged DEF Tx, rxVars, userVars
<1>2. \/ ClientTx' = ClientTx
      \/ ClientTx = "busy" /\ ClientTx' \in {"call", "leaving"}
      \/ ClientTx = "call" /\ ClientTx' \in {"busy", "leaving"}
      \/ ClientTx = "leaving" /\ ClientTx' = "done"
  <2> USE DEF ClientTx, TxGoto, TxUnshared, txLocals
  <2>1. CASE TxLoop \/ TxCheckClosed
    BY <2>1 DEF TxLoop, TxCheckClosed
  <2>2. CASE TxCallError \/ TxCallOverrun
    BY <2>2 DEF TxCallError, TxCallOverrun
  <2>3. CASE TxCallEmpty
    BY <2>3 DEF TxCallEmpty
  <2>4. CASE TxCallAudio
    BY <2>4 DEF TxCallAudio
  <2>5. CASE TxEncode \/ TxEncodeFails
    BY <2>5 DEF TxEncode, TxEncodeFails, TxThrow
  <2>6. CASE TxSend \/ TxFlush \/ TxSendTail \/ TxSendBreak
    BY <2>6 DEF TxSend, TxFlush, TxSendTail, TxSendBreak
  <2>7. CASE TxSendFails
    BY <2>7 DEF TxSendFails, TxThrow
  <2>8. CASE TxCatch \/ TxExit
    BY <2>8 DEF TxCatch, TxExit
  <2> QED
    BY <2>1, <2>2, <2>3, <2>4, <2>5, <2>6, <2>7, <2>8 DEF Tx, TxNext
<1>3. CASE ClientTx' = ClientTx
  BY <1>1, <1>3 DEF Client!clientVars
<1>4. CASE ClientTx = "busy" /\ ClientTx' \in {"call", "leaving"}
  BY <1>1, <1>4 DEF Client!ClientNext, Client!Library, Client!TxAsk, Client!TxGiveUp
<1>5. CASE ClientTx = "call" /\ ClientTx' \in {"busy", "leaving"}
  <2>1. Client!TxReturn(ClientTx' = "leaving")
    BY <1>1, <1>5 DEF Client!TxReturn
  <2> QED
    BY <2>1 DEF Client!ClientNext
<1>6. CASE ClientTx = "leaving" /\ ClientTx' = "done"
  BY <1>1, <1>6 DEF Client!ClientNext, Client!Library, Client!TxEnd
<1> QED
  BY <1>2, <1>3, <1>4, <1>5, <1>6

\* A step of the rx worker gives up, ends, or does not show.
LEMMA RxView ==
    ASSUME Rx
    PROVE  [Client!ClientNext]_(Client!clientVars)
<1>1. UNCHANGED <<ClientHandle, ClientTx, errorno>>
  BY WorkersUnchanged DEF Rx, txVars, txLocals, userVars
<1>2. \/ ClientRx' = ClientRx
      \/ ClientRx = "on" /\ ClientRx' = "leaving"
      \/ ClientRx = "leaving" /\ ClientRx' = "done"
  <2> USE DEF ClientRx, RxGoto
  <2>1. CASE RxLoop \/ RxCheckClosed
    BY <2>1 DEF RxLoop, RxCheckClosed
  <2>2. CASE RxReceive
    BY <2>2 DEF RxReceive
  <2>3. CASE RxReceiveFails \/ RxReplyFails
    BY <2>3 DEF RxReceiveFails, RxReplyFails, RxThrow
  <2>4. CASE RxPong \/ RxCloseReply \/ RxMarkClosed \/ RxCloseStatus
    BY <2>4 DEF RxPong, RxCloseReply, RxMarkClosed, RxCloseStatus
  <2>5. CASE RxCallback
    BY <2>5 DEF RxCallback
  <2>6. CASE RxCatch \/ RxExit
    BY <2>6 DEF RxCatch, RxExit
  <2> QED
    BY <2>1, <2>2, <2>3, <2>4, <2>5, <2>6 DEF Rx, RxNext
<1>3. CASE ClientRx' = ClientRx
  BY <1>1, <1>3 DEF Client!clientVars
<1>4. CASE ClientRx # ClientRx'
  BY <1>1, <1>2, <1>4 DEF Client!ClientNext, Client!Library, Client!RxGiveUp, Client!RxEnd
<1> QED
  BY <1>3, <1>4

\* A step of the monitor reports an error of a worker that is on its way out,
\* or does not show.
LEMMA MonView ==
    ASSUME IInv, MonNext
    PROVE  [Client!ClientNext]_(Client!clientVars)
<1>1. UNCHANGED <<ClientHandle, ClientTx, ClientRx>>
  BY WorkersUnchanged DEF MonNext, MonLoop, MonPoll, MonCopy, MonFinishTx, MonFinishRx,
     MonUnshared, txVars, txLocals, rxVars, userVars
<1>2. CASE MonCopy
  <2>1. Failed /\ errorno = 0 /\ errorno' \in Int \ {0}
    BY <1>2 DEF MonCopy, MonGoto, IInv, TypeOK, MonInv, Failed
  <2>2. Client!Ended(ClientTx) \/ Client!Ended(ClientRx)
    <3>1. CASE txErrorno # 0
      <4>1. txPc \in {"errorBreak", "catch", "exit", "done"}
        BY <3>1 DEF IInv, TxInv
      <4> QED
        BY <4>1 DEF ClientTx, Client!Ended
    <3>2. CASE rxErrorno # 0
      <4>1. rxPc \in {"exit", "done"}
        BY <3>2 DEF IInv, RxInv
      <4> QED
        BY <4>1 DEF ClientRx, Client!Ended
    <3> QED
      BY <2>1, <3>1, <3>2 DEF Failed
  <2>3. ClientHandle \notin {"null", "freed"}
    BY <1>2 DEF MonCopy, MonGoto, IInv, StartInv, Resting, ClientHandle
  <2> QED
    BY <1>1, <2>1, <2>2, <2>3 DEF Client!ClientNext, Client!Report
<1>3. CASE ~MonCopy
  <2>1. errorno' = errorno
    BY <1>3 DEF MonNext, MonLoop, MonPoll, MonFinishTx, MonFinishRx
  <2> QED
    BY <1>1, <2>1 DEF Client!clientVars
<1> QED
  BY <1>2, <1>3

\* A step of the application starts a worker, moves the handle, or does not
\* show.
LEMMA UserView ==
    ASSUME IInv, InCall \/ AtWill
    PROVE  [Client!ClientNext]_(Client!clientVars)
<1> USE DEF UserGoto, txVars, txLocals, rxVars
<1>1. CASE StartMonitor \/ StartFails \/ ObserveInactive \/ ReadError \/ CloseFinishRx
           \/ CloseFinishMon
  <2>1. UNCHANGED <<ClientTx, ClientRx, errorno>>
    BY <1>1, WorkersUnchanged DEF StartMonitor, StartFails, ObserveInactive, ReadError,
       CloseFinishRx, CloseFinishMon
  <2>2. ClientHandle' = ClientHandle
    BY <1>1 DEF StartMonitor, StartFails, ObserveInactive, ReadError, CloseFinishRx,
       CloseFinishMon, ClientHandle, Closing
  <2> QED
    BY <2>1, <2>2 DEF Client!clientVars
<1>2. CASE StartTx
  <2>1. ClientHandle = "open" /\ ClientHandle' = "open"
    BY <1>2 DEF StartTx, ClientHandle, Closing
  <2>2. ClientTx = "off" /\ ClientTx' = "busy"
    BY <1>2 DEF StartTx, ClientTx, IInv, StartInv
  <2>3. UNCHANGED <<ClientRx, errorno>>
    BY <1>2, WorkersUnchanged DEF StartTx
  <2> QED
    BY <2>1, <2>2, <2>3 DEF Client!ClientNext, Client!LaunchTx
<1>3. CASE StartRx
  <2>1. ClientHandle = "open" /\ ClientHandle' = "open"
    BY <1>3 DEF StartRx, ClientHandle, Closing
  <2>2. ClientRx = "off" /\ ClientRx' = "on" /\ ClientTx # "off"
    BY <1>3 DEF StartRx, ClientRx, ClientTx, IInv, TypeOK, StartInv, TxPcs
  <2>3. UNCHANGED <<ClientTx, errorno>>
    BY <1>3, WorkersUnchanged DEF StartRx
  <2> QED
    BY <2>1, <2>2, <2>3 DEF Client!ClientNext, Client!LaunchRx
<1>4. CASE SetStarted
  <2>1. ClientHandle = "open" /\ ClientHandle' = "started"
    BY <1>4 DEF SetStarted, ClientHandle, Closing
  <2>2. ClientRx # "off"
    BY <1>4 DEF SetStarted, ClientRx, IInv, TypeOK, StartInv, RxPcs
  <2>3. UNCHANGED <<ClientTx, ClientRx, errorno>>
    BY <1>4, WorkersUnchanged DEF SetStarted
  <2> QED
    BY <2>1, <2>2, <2>3 DEF Client!ClientNext, Client!Started
<1>5. CASE BeginClose
  <2>1. ClientHandle \in {"open", "started"} /\ ClientHandle' = "closing"
    BY <1>5 DEF BeginClose, Calling, ClientHandle, Closing
  <2>2. UNCHANGED <<ClientTx, ClientRx, errorno>>
    BY <1>5, WorkersUnchanged DEF BeginClose
  <2> QED
    BY <2>1, <2>2 DEF Client!ClientNext, Client!Close
<1>6. CASE JoinAndFree
  <2>1. ClientHandle = "closing" /\ ClientHandle' = "freed"
    BY <1>6 DEF JoinAndFree, ClientHandle, Closing
  <2>2. txPc \in Resting /\ rxPc \in Resting
    BY <1>6 DEF JoinAndFree, LiveThreads, Thread
  <2>3. ClientTx \in {"off", "done"} /\ ClientRx \in {"off", "done"}
    BY <2>2 DEF Resting, ClientTx, ClientRx
  <2>4. UNCHANGED <<ClientTx, ClientRx, errorno>>
    BY <1>6, WorkersUnchanged DEF JoinAndFree
  <2> QED
    BY <2>1, <2>3, <2>4 DEF Client!ClientNext, Client!Free
<1> QED
  BY <1>1, <1>2, <1>3, <1>4, <1>5, <1>6 DEF InCall, AtWill

-----------------------------------------------------------------------------
\* A session that was just opened is an open handle without workers.
LEMMA InitView == Init => Client!ClientInit
BY DEF Init, TxInit, RxInit, Client!ClientInit, ClientHandle, ClientTx, ClientRx, Closing

\* Threads, flags and polling implement the connection as the example
\* programs use it: each step is one of ClientView's or does not show.
THEOREM SessionImplementsClientView == Spec => KeepsClientView
<1>1. IInv /\ [Next]_vars => [Client!ClientNext]_(Client!clientVars)
  <2> SUFFICES ASSUME IInv, [Next]_vars
               PROVE  [Client!ClientNext]_(Client!clientVars)
    OBVIOUS
  <2>1. CASE UNCHANGED vars
    BY <2>1, WorkersUnchanged DEF vars, txVars, txLocals, rxVars, userVars, Client!clientVars
  <2> QED
    BY <2>1, TxView, RxView, MonView, UserView DEF Next, Freed
<1> QED
  BY InitView, Inductive, <1>1, PTL DEF Spec, KeepsClientView, Client!ClientSafety

\* What an application may rely on holds of the threads behind the API.
THEOREM SessionMayBeReliedOn == Spec => []Client!ClientConsistent /\ Client!NothingIsTakenBack
BY SessionImplementsClientView, Client!ClientMayRely, PTL DEF KeepsClientView

=============================================================================
