-------------------------- MODULE SyncSessionProofs --------------------------
(***************************************************************************)
(* Proofs about SyncSession, for any codes and any number of calls.        *)
(***************************************************************************)
EXTENDS SyncSession, TLAPS

\* No error number is zero, save that of the close status 0.
LEMMA ErrorsNonZero ==
    /\ \A e : CatchErrorno(e) # 0
    /\ \A f \in Frames : OpfType(f) = "CLOSE_FRAME" => CloseStatus(f) # 0 \/ f = ZeroCloseFrame
<1>1. \A e : CatchErrorno(e) # 0
  BY ConnectionAssumption DEF ConnectionAssumption, CatchErrorno
<1>2. ASSUME NEW f \in Frames, OpfType(f) = "CLOSE_FRAME", f # ZeroCloseFrame
      PROVE  CloseStatus(f) # 0
  <2>1. f.op = "CLOSE"
    BY <1>2 DEF OpfType
  <2>2. CASE f = Frame("CLOSE", 0, 0)
    BY <2>2 DEF Frame, CloseStatus
  <2>3. ASSUME NEW s \in CloseStatuses, f = Frame("CLOSE", 1, s)
        PROVE  CloseStatus(f) # 0
    <3>1. s \in Nat /\ s < 65536
      BY ConnectionAssumption DEF ConnectionAssumption
    <3>2. s # 0
      BY <1>2, <2>3 DEF ZeroCloseFrame
    <3>3. f.n = 1 /\ f.status = s
      BY <2>3 DEF Frame
    <3> QED
      BY <3>1, <3>2, <3>3 DEF CloseStatus, ShortStatus
  <2> QED
    BY <2>1, <2>2, <2>3 DEF Frames, Frame, FlagsZero, HangUp, EmptyFragment, Ops
<1> QED
  BY <1>1, <1>2

\* A new connection is open.
LEMMA SyncInit == Init => SyncInv
BY DEF Init, ConnInit, SyncInv, ClosedHasReason, ZeroIsExplained

\* Every call keeps the invariant.
LEMMA SyncStep ==
    ASSUME SyncInv, [Next]_syncVars
    PROVE  SyncInv'
<1> USE DEF SyncInv, ClosedHasReason, ZeroIsExplained, connVars, Returns, Fails
<1>1. CASE Start
  BY <1>1 DEF Start
<1>2. ASSUME NEW call \in {"send", "break", "receive"}, CallWhenClosed(call)
      PROVE  SyncInv'
  BY <1>2 DEF CallWhenClosed
<1>3. CASE Send \/ SendBreak \/ ReceiveAgain
  BY <1>3 DEF Send, SendBreak, ReceiveAgain
<1>4. CASE SendFails \/ SendBreakFails
  BY <1>4, ErrorsNonZero DEF SendFails, SendBreakFails
<1>5. CASE ReceiveFails
  BY <1>5, ErrorsNonZero DEF ReceiveFails
<1>6. CASE ReceiveNothing
  BY <1>6, ErrorsNonZero DEF ReceiveNothing
<1>7. CASE ReceiveData
  BY <1>7 DEF ReceiveData
<1>8. CASE ReceivePing
  BY <1>8 DEF ReceivePing
<1>9. CASE ReceiveClose
  BY <1>9, ErrorsNonZero DEF ReceiveClose
<1>10. CASE ReceiveReplyFails
  BY <1>10, ErrorsNonZero DEF ReceiveReplyFails
<1>11. CASE UNCHANGED syncVars
  BY <1>11 DEF syncVars
<1> QED
  BY <1>1, <1>2, <1>3, <1>4, <1>5, <1>6, <1>7, <1>8, <1>9, <1>10, <1>11 DEF Next, Receive

\* The invariant holds after any sequence of calls.
LEMMA SyncInductive == Spec => []SyncInv
<1>1. SyncInv /\ [Next]_syncVars => SyncInv'
  BY SyncStep
<1> QED
  BY SyncInit, <1>1, PTL DEF Spec

\* A connection that is closed has an error to show, or was closed with status 0.
THEOREM SyncCorrect == Spec => []ClosedHasReason
<1>1. SyncInv => ClosedHasReason
  BY DEF SyncInv
<1> QED
  BY SyncInductive, <1>1, PTL

\* No send or receive that comes back with 0 goes unexplained.
THEOREM SyncZeroExplained == Spec => []ZeroIsExplained
<1>1. SyncInv => ZeroIsExplained
  BY DEF SyncInv
<1> QED
  BY SyncInductive, <1>1, PTL

\* Whatever a handler or a close frame stores is a code of the table.
LEMMA StoredCodes ==
    /\ \A e : CatchErrorno(e) \in ErrorCodes
    /\ \A f \in Frames : OpfType(f) = "CLOSE_FRAME" => CloseStatus(f) \in ErrorCodes
<1>1. \A e : CatchErrorno(e) \in ErrorCodes
  BY DEF CatchErrorno, ErrorCodes
<1>2. ASSUME NEW f \in Frames, OpfType(f) = "CLOSE_FRAME"
      PROVE  CloseStatus(f) \in ErrorCodes
  <2>1. f.op = "CLOSE"
    BY <1>2 DEF OpfType
  <2>2. f.n = 0 \/ f.status \in CloseStatuses
    BY <2>1 DEF Frames, Frame, FlagsZero, HangUp, EmptyFragment, Ops
  <2> QED
    BY <2>2 DEF CloseStatus, ErrorCodes, ShortStatus, Frame
<1> QED
  BY <1>1, <1>2

\* Every call keeps the types.
LEMMA SyncTypeStep ==
    ASSUME SyncTypeOK, [Next]_syncVars
    PROVE  SyncTypeOK'
<1> USE DEF SyncTypeOK, Calls, connVars, Returns, Fails
<1>1. CASE Start
  BY <1>1 DEF Start
<1>2. ASSUME NEW call \in {"send", "break", "receive"}, CallWhenClosed(call)
      PROVE  SyncTypeOK'
  BY <1>2 DEF CallWhenClosed
<1>3. CASE Send
  <2>1. PICK n \in {0, 1} : audioSent' = audioSent + n /\ Returns("send", n, Frame("BINARY", n, 0))
    BY <1>3 DEF Send
  <2>2. Frame("BINARY", n, 0) \in Frames
    BY DEF Frames, Ops
  <2> QED
    BY <1>3, <2>1, <2>2 DEF Send
<1>4. CASE SendBreak
  BY <1>4 DEF SendBreak
<1>5. CASE SendFails \/ SendBreakFails
  BY <1>5, StoredCodes DEF SendFails, SendBreakFails
<1>6. CASE ReceiveFails \/ ReceiveReplyFails
  BY <1>6, StoredCodes DEF ReceiveFails, ReceiveReplyFails
<1>7. CASE ReceiveNothing
  BY <1>7, StoredCodes DEF ReceiveNothing
<1>8. CASE ReceiveAgain \/ ReceiveData \/ ReceivePing
  BY <1>8 DEF ReceiveAgain, ReceiveData, ReceivePing
<1>9. CASE ReceiveClose
  BY <1>9, StoredCodes DEF ReceiveClose
<1>10. CASE UNCHANGED syncVars
  BY <1>10 DEF syncVars
<1> QED
  BY <1>1, <1>2, <1>3, <1>4, <1>5, <1>6, <1>7, <1>8, <1>9, <1>10 DEF Next, Receive

\* mimi_error only ever tells a code of errorcodes.md, whatever the service and
\* the network do.
THEOREM SyncTyped == Spec => []SyncTypeOK
<1>1. Init => SyncTypeOK
  <2> SUFFICES ASSUME Init PROVE SyncTypeOK
    OBVIOUS
  <2>1. closed \in BOOLEAN /\ closeReplied \in BOOLEAN /\ started \in BOOLEAN
    BY DEF Init, ConnInit
  <2>2. audioSent \in Nat /\ breaksSent \in Nat /\ errorno \in ErrorCodes
    BY DEF Init, ConnInit, ErrorCodes
  <2>3. lastCall \in Calls /\ lastResult \in {-1, 0, 1}
    BY DEF Init, Calls
  <2>4. lastFrame \in Frames \union {NoFrame} /\ closedBy \in Frames \union {NoFrame}
    BY DEF Init
  <2> QED
    BY <2>1, <2>2, <2>3, <2>4 DEF SyncTypeOK
<1>2. SyncTypeOK /\ [Next]_syncVars => SyncTypeOK'
  BY SyncTypeStep
<1> QED
  BY <1>1, <1>2, PTL DEF Spec

\* After the reply to the close frame the socket stays silent.
THEOREM SyncQuiet == Spec => QuietAfterCloseReply
<1>1. SyncInv /\ [Next]_syncVars
        => [closeReplied => UNCHANGED <<closeReplied, audioSent, breaksSent>>]_syncVars
  BY DEF SyncInv, Next, Receive, ReceiveAgain, Start, CallWhenClosed, Send, SendFails, SendBreak,
       SendBreakFails, ReceiveFails, ReceiveNothing, ReceiveData, ReceivePing, ReceiveClose,
       ReceiveReplyFails, connVars, syncVars
<1> QED
  BY SyncInductive, <1>1, PTL DEF Spec, QuietAfterCloseReply

=============================================================================
