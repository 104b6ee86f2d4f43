------------------------- MODULE AsyncSessionProofs -------------------------
(***************************************************************************)
(* Proofs about AsyncSession, for every value of its constants: any codes, *)
(* any buffer lengths, any amount of audio, either kind of encoder.        *)
(***************************************************************************)
EXTENDS AsyncSession, TLAPS

ConstantAssumptions ==
    /\ CloseStatuses \subseteq {s \in Nat : s < 65536}
    /\ WsCode \in Nat
    /\ SendFailures \subseteq NetworkFailures
    /\ ReceiveFailures \subseteq NetworkFailures
    /\ Format \in {"PCM", "FLAC"} /\ Channels \in Nat \ {0}
    /\ TxUserErrors \subseteq Int \ {0}
    /\ RxUserErrors \subseteq Int \ {0}
    /\ Lens \subseteq Nat
    /\ MaxChunks \in Nat

\* The assumptions of the modules, and the bound on audio, in one place.
LEMMA Constants == ConstantAssumptions
BY ConnectionAssumption, FormatAssumption, TxAssumption, RxAssumption
   DEF ConstantAssumptions

\* Every frame has a payload of none or some, and an integer status; only a
\* close with a payload carries one.
LEMMA FrameFields ==
    ASSUME NEW f \in Frames \union {NoFrame}
    PROVE  /\ f.n \in {0, 1}
           /\ f.status \in Int
           /\ f.op = "CLOSE" /\ f.n # 0 => f.status \in CloseStatuses
BY Constants DEF ConstantAssumptions, Frames, NoFrame, FlagsZero, HangUp, EmptyFragment, Frame,
   Ops

\* What a close frame makes of errorno_ is an error number.
LEMMA CloseErrornoType ==
    ASSUME NEW f \in Frames \union {NoFrame}
    PROVE  CloseErrorno(f) \in Int
BY FrameFields DEF CloseErrorno, ShortStatus

-----------------------------------------------------------------------------
(* The encoder.                                                            *)

\* What leaves the codec is a part of what is inside it, and all of it where
\* there is no codec.
LEMMA EmittedBound ==
    ASSUME NEW n \in Nat, NEW emitted \in Emitted(n)
    PROVE  emitted \in Nat /\ emitted <= n
BY DEF Emitted

\* A buffer is one unit, or two, or a rest alone.
LEMMA UnitTypes ==
    ASSUME NEW len
    PROVE  FrameUnits(len) \in {0, 1} /\ RestUnits(len) \in {0, 1}
BY DEF FrameUnits, RestUnits

\* Encoding leaves the encoder with an empty encodedData_, and unless the codec
\* has failed every unit is either inside it or in the caller's hands.
LEMMA Encoded ==
    ASSUME TypeOK, NEW len, NEW out, EncodeAndGet(len, out)
    PROVE  /\ out \in Nat /\ encBuffered' \in Nat /\ encOutput' = 0 /\ encFailed' \in BOOLEAN
           /\ ~encFailed' =>
                ~encFailed /\ out + encBuffered' = encBuffered + encOutput + FrameUnits(len)
<1> DEFINE inside == encBuffered + FrameUnits(len)
<1>1. inside \in Nat /\ encOutput \in Nat
  BY UnitTypes DEF TypeOK
<1>2. PICK emitted \in Emitted(inside), works \in MayWork \union MayFail :
        /\ out = encOutput + emitted
        /\ encBuffered' = IF works THEN inside - emitted ELSE 0
        /\ encFailed' = ~works
        /\ encOutput' = 0
  BY DEF EncodeAndGet
<1>3. emitted \in Nat /\ emitted <= inside
  BY <1>1, EmittedBound
<1>4. works \in BOOLEAN /\ (works => ~encFailed)
  BY DEF MayWork, MayFail
<1>5. encFailed' \in BOOLEAN /\ (~encFailed' => works)
  BY <1>2, <1>4
<1>6. out \in Nat /\ encOutput' = 0
  BY <1>1, <1>2, <1>3
<1>7. CASE works
  <2>1. encBuffered' = inside - emitted /\ out = encOutput + emitted
    BY <1>2, <1>7
  <2>2. encBuffered' \in Nat /\ out + encBuffered' = encOutput + inside
    BY <2>1, <1>1, <1>3
  <2>3. out + encBuffered' = encBuffered + encOutput + FrameUnits(len)
    BY <2>2, <1>1, UnitTypes DEF TypeOK
  <2> QED
    BY <2>2, <2>3, <1>4, <1>5, <1>6, <1>7
<1>8. CASE ~works
  <2>1. encBuffered' = 0
    BY <1>2, <1>8
  <2> QED
    BY <2>1, <1>5, <1>6, <1>8
<1> QED
  BY <1>4, <1>7, <1>8

\* Flushing empties the encoder, into the caller's hands unless it fails.
LEMMA Flushed ==
    ASSUME TypeOK, NEW out, FlushAndGet(out)
    PROVE  /\ out \in Nat /\ encBuffered' = 0 /\ encOutput' = 0 /\ encFailed' \in BOOLEAN
           /\ ~encFailed' => ~encFailed /\ out = encBuffered + encOutput
<1>1. encBuffered \in Nat /\ encOutput \in Nat /\ encFailed \in BOOLEAN
  BY DEF TypeOK
<1>2. PICK emitted \in Emitted(encBuffered) :
        /\ out = encOutput + emitted
        /\ encFailed' = (encFailed \/ emitted < encBuffered)
        /\ encBuffered' = 0
        /\ encOutput' = 0
  BY DEF FlushAndGet
<1>3. emitted \in Nat /\ emitted <= encBuffered
  BY <1>1, EmittedBound
<1>4. encFailed' \in BOOLEAN
  BY <1>1, <1>2
<1>5. ~encFailed' => ~encFailed /\ ~(emitted < encBuffered)
  BY <1>2
<1>6. ~(emitted < encBuffered) => emitted = encBuffered
  BY <1>1, <1>3
<1>7. out \in Nat /\ (emitted = encBuffered => out = encBuffered + encOutput)
  BY <1>1, <1>2, <1>3
<1>8. encBuffered' = 0 /\ encOutput' = 0
  BY <1>2
<1> QED
  BY <1>4, <1>5, <1>6, <1>7, <1>8

-----------------------------------------------------------------------------
(* Type correctness.                                                       *)

\* The initial state is well typed.
LEMMA InitTypeOK == Init => TypeOK
<1> SUFFICES ASSUME Init PROVE TypeOK
  OBVIOUS
<1>1. encBuffered \in Nat /\ encOutput \in Nat /\ encFailed \in BOOLEAN
  BY DEF Init, EncInit, HeaderUnits
<1>2. /\ closed \in BOOLEAN /\ closeReplied \in BOOLEAN
      /\ audioSent \in Nat /\ breaksSent \in Nat
  BY DEF Init, ConnInit
<1>3. txFinish \in BOOLEAN /\ txFinished \in BOOLEAN /\ txBreak \in BOOLEAN
  BY DEF Init, TxInit
<1>4. txPc \in TxPcs /\ txExc \in Exceptions \union {"none"}
  BY DEF Init, TxInit, TxPcs
<1>5. /\ txErrorno \in Int /\ txLen \in Lens \union {0} /\ txData \in Nat
      /\ audioGiven \in Nat /\ audioRests \in Nat /\ txLate \in Nat
  BY DEF Init, TxInit
<1>6. rxFinish \in BOOLEAN /\ rxFinished \in BOOLEAN
  BY DEF Init, RxInit
<1>7. rxPc \in RxPcs /\ rxExc \in Exceptions \union {"none"}
  BY DEF Init, RxInit, RxPcs
<1>8. rxErrorno \in Int /\ rxLate \in Nat /\ rxFrame \in Frames \union {NoFrame}
  BY DEF Init, RxInit
<1>9. monFinish \in BOOLEAN /\ started \in BOOLEAN
  BY DEF Init
<1>10. monPc \in MonPcs /\ userPc \in UserPcs
  BY DEF Init, MonPcs, UserPcs, Calling
<1>11. errorno \in Int /\ reported \in Int
  BY DEF Init
<1> QED
  BY <1>1, <1>2, <1>3, <1>4, <1>5, <1>6, <1>7, <1>8, <1>9, <1>10, <1>11 DEF TypeOK

\* Every step of the tx worker keeps the types.
LEMMA TxTypeOK ==
    ASSUME TypeOK, Tx
    PROVE  TypeOK'
<1> USE DEF TypeOK, TxPcs, TxGoto, TxUnshared, connVars, encVars, txLocals,
            rxVars, monVars, userVars
<1>0. UNCHANGED <<rxVars, monVars, errorno, userVars>>
  BY DEF Tx
<1>1. CASE TxLoop
  <2>1. txPc' \in {"exit", "check"} /\ txBreak' = FALSE /\ txLen' = 0 /\ txData' = 0
    BY <1>1 DEF TxLoop
  <2>2. UNCHANGED <<txErrorno, txFinish, txFinished, txExc, audioGiven, audioRests,
                  txLate, connVars, encVars>>
    BY <1>1 DEF TxLoop
  <2>3. txPc' \in TxPcs /\ txLen' \in Lens \union {0} /\ txData' \in Nat /\ txBreak' \in BOOLEAN
    BY <2>1
  <2> QED
    BY <1>0, <2>2, <2>3
<1>2. CASE TxCheckClosed
  BY <1>0, <1>2 DEF TxCheckClosed
<1>3. CASE TxCallError
  BY <1>0, <1>3, Constants DEF TxCallError, ConstantAssumptions
<1>4. CASE TxCallOverrun
  BY <1>0, <1>4 DEF TxCallOverrun
<1>5. CASE TxCallEmpty
  BY <1>0, <1>5 DEF TxCallEmpty
<1>6. CASE TxCallAudio
  BY <1>0, <1>6 DEF TxCallAudio, FrameUnits, RestUnits
<1>7. CASE TxEncode
  <2>1. txData' \in Nat /\ encBuffered' \in Nat /\ encOutput' \in Nat /\ encFailed' \in BOOLEAN
    BY <1>7, Encoded DEF TxEncode
  <2> QED
    BY <1>0, <1>7, <2>1 DEF TxEncode
<1>8. CASE TxEncodeFails
  BY <1>0, <1>8 DEF TxEncodeFails, TxThrow, Exceptions
<1>9. CASE TxSend
  BY <1>0, <1>9 DEF TxSend
<1>10. CASE TxFlush
  <2>1. txData' \in Nat /\ encBuffered' \in Nat /\ encOutput' \in Nat /\ encFailed' \in BOOLEAN
    BY <1>10, Flushed DEF TxFlush
  <2> QED
    BY <1>0, <1>10, <2>1 DEF TxFlush
<1>11. CASE TxSendTail
  BY <1>0, <1>11 DEF TxSendTail
<1>12. CASE TxSendBreak
  BY <1>0, <1>12 DEF TxSendBreak
<1>13. CASE TxSendFails
  BY <1>0, <1>13, Constants DEF TxSendFails, TxThrow, Exceptions, ConstantAssumptions
<1>14. CASE TxCatch
  BY <1>0, <1>14, Constants DEF TxCatch, TxCatchErrorno, ConstantAssumptions
<1>15. CASE TxExit
  BY <1>0, <1>15 DEF TxExit
<1> QED
  BY <1>1, <1>2, <1>3, <1>4, <1>5, <1>6, <1>7, <1>8, <1>9, <1>10, <1>11, <1>12,
     <1>13, <1>14, <1>15 DEF Tx, TxNext

\* Every step of the rx worker keeps the types.
LEMMA RxTypeOK ==
    ASSUME TypeOK, Rx
    PROVE  TypeOK'
<1> USE DEF TypeOK, RxPcs, RxGoto, connVars, encVars, txVars, txLocals,
            monVars, userVars
<1>0. UNCHANGED <<encVars, txVars, monVars, errorno, userVars>>
  BY DEF Rx
<1>1. CASE RxLoop
  BY <1>0, <1>1 DEF RxLoop
<1>2. CASE RxCheckClosed
  BY <1>0, <1>2 DEF RxCheckClosed
<1>3. CASE RxReceive
  BY <1>0, <1>3 DEF RxReceive, ThrownBy, Exceptions
<1>4. CASE RxReceiveFails
  BY <1>0, <1>4, Constants DEF RxReceiveFails, RxThrow, Exceptions, ConstantAssumptions
<1>5. CASE RxPong
  BY <1>0, <1>5 DEF RxPong
<1>6. CASE RxCloseReply
  BY <1>0, <1>6 DEF RxCloseReply
<1>7. CASE RxReplyFails
  BY <1>0, <1>7, Constants DEF RxReplyFails, RxThrow, Exceptions, ConstantAssumptions
<1>8. CASE RxMarkClosed
  BY <1>0, <1>8 DEF RxMarkClosed
<1>9. CASE RxCloseStatus
  BY <1>0, <1>9, CloseErrornoType DEF RxCloseStatus
<1>10. CASE RxCallback
  BY <1>0, <1>10, Constants DEF RxCallback, ConstantAssumptions
<1>11. CASE RxCatch
  BY <1>0, <1>11, Constants DEF RxCatch, RxCatchErrorno, ConstantAssumptions
<1>12. CASE RxExit
  BY <1>0, <1>12 DEF RxExit
<1> QED
  BY <1>1, <1>2, <1>3, <1>4, <1>5, <1>6, <1>7, <1>8, <1>9, <1>10, <1>11, <1>12
     DEF Rx, RxNext

\* Every step of the monitor keeps the types.
LEMMA MonTypeOK ==
    ASSUME TypeOK, MonNext
    PROVE  TypeOK'
<1> USE DEF TypeOK, MonPcs, TxPcs, RxPcs, UserPcs, MonGoto, MonUnshared, connVars, encVars, txVars,
            txLocals, rxVars, userVars
<1>1. CASE MonLoop
  BY <1>1 DEF MonLoop
<1>2. CASE MonPoll
  BY <1>2 DEF MonPoll
<1>3. CASE MonCopy
  BY <1>3 DEF MonCopy
<1>4. CASE MonFinishTx
  BY <1>4 DEF MonFinishTx
<1>5. CASE MonFinishRx
  BY <1>5 DEF MonFinishRx
<1> QED
  BY <1>1, <1>2, <1>3, <1>4, <1>5 DEF MonNext

\* Every step of the application keeps the types.
LEMMA UserTypeOK ==
    ASSUME TypeOK, InCall \/ AtWill
    PROVE  TypeOK'
<1> USE DEF TypeOK, UserPcs, Starting, Closing, Calling, UserGoto, MonPcs, TxPcs, RxPcs,
            connVars, encVars, txVars, txLocals, rxVars, monVars
<1>1. CASE StartMonitor
  BY <1>1 DEF StartMonitor
<1>2. CASE StartTx
  BY <1>2 DEF StartTx
<1>3. CASE StartRx
  BY <1>3 DEF StartRx
<1>4. CASE SetStarted
  BY <1>4 DEF SetStarted
<1>5. CASE StartFails
  BY <1>5 DEF StartFails
<1>6. CASE ObserveInactive
  BY <1>6 DEF ObserveInactive
<1>7. CASE ReadError
  BY <1>7 DEF ReadError
<1>8. CASE BeginClose
  BY <1>8 DEF BeginClose
<1>9. CASE CloseFinishRx
  BY <1>9 DEF CloseFinishRx
<1>10. CASE CloseFinishMon
  BY <1>10 DEF CloseFinishMon
<1>11. CASE JoinAndFree
  BY <1>11 DEF JoinAndFree
<1> QED
  BY <1>1, <1>2, <1>3, <1>4, <1>5, <1>6, <1>7, <1>8, <1>9, <1>10, <1>11
     DEF InCall, AtWill

\* A step that changes nothing keeps the types.
LEMMA StutterTypeOK ==
    ASSUME TypeOK, UNCHANGED vars
    PROVE  TypeOK'
BY DEF TypeOK, vars, connVars, encVars, txVars, txLocals, rxVars, monVars, userVars

\* Every step of every thread keeps every variable in its type.
THEOREM TypeCorrect == Spec => []TypeOK
<1>1. TypeOK /\ [Next]_vars => TypeOK'
  BY TxTypeOK, RxTypeOK, MonTypeOK, UserTypeOK, StutterTypeOK DEF Next, Freed
<1> QED
  BY InitTypeOK, <1>1, PTL DEF Spec
-----------------------------------------------------------------------------
(* The inductive invariant.                                                *)

\* No error code is zero.
LEMMA CodesNonZero ==
    /\ \A e : TxCatchErrorno(e) # 0 /\ RxCatchErrorno(e) # 0
    /\ 0 \notin TxUserErrors
    /\ 0 \notin RxUserErrors
BY Constants DEF ConstantAssumptions, TxCatchErrorno, RxCatchErrorno

\* Before mimi_start no thread has done anything.
LEMMA InitIInv == Init => IInv
<1> SUFFICES ASSUME Init PROVE IInv
  OBVIOUS
<1>1. TypeOK
  BY InitTypeOK
<1>2. TxInv
  BY DEF Init, ConnInit, EncInit, TxInit, TxInv, HeaderUnits
<1>3. RxInv
  BY DEF Init, ConnInit, RxInit, RxInv
<1>4. MonInv
  BY DEF Init, TxInit, RxInit, MonInv, ReportedErrorIsGenuine
<1>5. StartInv
  BY DEF Init, TxInit, RxInit, StartInv, Starting
<1> QED
  BY <1>1, <1>2, <1>3, <1>4, <1>5 DEF IInv

-----------------------------------------------------------------------------
(* Steps of the tx worker.                                                 *)

\* The tx worker keeps what it knows of its errors, its audio and its calls.
LEMMA TxKeepsTxInv ==
    ASSUME TypeOK, TxInv, Tx
    PROVE  TxInv'
<1> USE DEF TypeOK, TxInv, TxGoto, TxUnshared, connVars, encVars, txLocals
<1>1. CASE TxLoop
  BY <1>1 DEF TxLoop
<1>2. CASE TxCheckClosed
  BY <1>2 DEF TxCheckClosed
<1>3. CASE TxCallError
  BY <1>3, CodesNonZero DEF TxCallError
<1>4. CASE TxCallOverrun
  BY <1>4 DEF TxCallOverrun
<1>5. CASE TxCallEmpty
  BY <1>5 DEF TxCallEmpty
<1>6. CASE TxCallAudio
  BY <1>6, UnitTypes DEF TxCallAudio, HeaderUnits
<1>7. CASE TxEncode
  <2>1. /\ txData' \in Nat /\ encBuffered' \in Nat /\ encOutput' = 0
        /\ ~encFailed' =>
             ~encFailed /\ txData' + encBuffered' = encBuffered + encOutput + FrameUnits(txLen)
    BY <1>7, Encoded DEF TxEncode
  <2>2. txPc = "encode" /\ txPc' \in {"send", "flush", "loop"} /\ (txPc' # "send" => txData' = 0)
    BY <1>7 DEF TxEncode
  <2>3. UNCHANGED <<connVars, txFinish, txErrorno, txFinished, txBreak, txLen, txExc,
                    audioGiven, audioRests, txLate>>
    BY <1>7 DEF TxEncode
  <2> QED
    BY <2>1, <2>2, <2>3, UnitTypes DEF HeaderUnits
<1>8. CASE TxEncodeFails
  BY <1>8 DEF TxEncodeFails, TxThrow
<1>9. CASE TxSend
  BY <1>9 DEF TxSend
<1>10. CASE TxFlush
  <2>1. /\ txData' \in Nat /\ encBuffered' = 0 /\ encOutput' = 0
        /\ ~encFailed' => ~encFailed /\ txData' = encBuffered + encOutput
    BY <1>10, Flushed DEF TxFlush
  <2>2. txPc = "flush" /\ txPc' \in {"sendTail", "break"} /\ (txPc' = "break" => txData' = 0)
    BY <1>10 DEF TxFlush
  <2>3. UNCHANGED <<connVars, txFinish, txErrorno, txFinished, txBreak, txLen, txExc,
                    audioGiven, audioRests, txLate>>
    BY <1>10 DEF TxFlush
  <2> QED
    BY <2>1, <2>2, <2>3 DEF HeaderUnits
<1>11. CASE TxSendTail
  BY <1>11 DEF TxSendTail
<1>12. CASE TxSendBreak
  BY <1>12, CodesNonZero DEF TxSendBreak
<1>13. CASE TxSendFails
  BY <1>13, CodesNonZero DEF TxSendFails, TxThrow
<1>14. CASE TxCatch
  BY <1>14, CodesNonZero DEF TxCatch
<1>15. CASE TxExit
  BY <1>15 DEF TxExit
<1> QED
  BY <1>1, <1>2, <1>3, <1>4, <1>5, <1>6, <1>7, <1>8, <1>9, <1>10, <1>11, <1>12,
     <1>13, <1>14, <1>15 DEF Tx, TxNext

\* An error of the tx worker's may be replaced by another, never cleared.
LEMMA TxFailureStays ==
    ASSUME TypeOK, TxInv, Tx
    PROVE  txErrorno # 0 => txErrorno' # 0
<1> USE DEF TxInv, TxGoto
<1>1. CASE TxCallError
  BY <1>1, CodesNonZero DEF TxCallError
<1>2. CASE TxCallOverrun
  BY <1>2 DEF TxCallOverrun
<1>3. CASE TxCatch
  BY <1>3, CodesNonZero DEF TxCatch
<1>4. CASE ~(TxCallError \/ TxCallOverrun \/ TxCatch)
  BY <1>4 DEF Tx, TxNext, TxLoop, TxCheckClosed, TxCallEmpty, TxCallAudio, TxEncode,
       TxEncodeFails, TxThrow, TxSend, TxFlush, TxSendTail, TxSendBreak, TxSendFails, TxExit
<1> QED
  BY <1>1, <1>2, <1>3, <1>4

\* The only error that changes is one of txfunc's, when its break fails.
LEMMA TxErrorChange ==
    ASSUME TypeOK, TxInv, Tx, txErrorno # 0
    PROVE  \/ txErrorno' = txErrorno
           \/ /\ txErrorno \in TxUserErrors
              /\ \E e \in SendFailures : txErrorno' = TxCatchErrorno(e)
<1> USE DEF TxInv, TxGoto
<1>1. CASE TxCallError
  BY <1>1 DEF TxCallError
<1>2. CASE TxCallOverrun
  BY <1>2 DEF TxCallOverrun
<1>3. CASE TxCatch
  BY <1>3 DEF TxCatch
<1>4. CASE ~(TxCallError \/ TxCallOverrun \/ TxCatch)
  BY <1>4 DEF Tx, TxNext, TxLoop, TxCheckClosed, TxCallEmpty, TxCallAudio, TxEncode,
       TxEncodeFails, TxThrow, TxSend, TxFlush, TxSendTail, TxSendBreak, TxSendFails, TxExit
<1> QED
  BY <1>1, <1>2, <1>3, <1>4

\* What a step of the tx worker leaves alone.
LEMMA TxUnchanged ==
    ASSUME Tx
    PROVE  /\ UNCHANGED <<rxPc, rxErrorno, rxFinish, rxFinished, rxFrame, rxLate>>
           /\ UNCHANGED <<closed, closeReplied, txFinish, monPc, monFinish, errorno>>
           /\ UNCHANGED <<started, userPc>>
           /\ txPc \notin Resting /\ txPc' # "idle"
<1>1. UNCHANGED <<rxPc, rxErrorno, rxFinish, rxFinished, rxFrame, rxLate,
                  monPc, monFinish, errorno, started, userPc>>
  BY DEF Tx, rxVars, monVars, userVars
<1>2. /\ UNCHANGED <<closed, closeReplied, txFinish>>
      /\ txPc \notin Resting /\ txPc' # "idle"
  BY DEF Resting, Tx, TxNext, TxGoto, TxUnshared, connVars, TxLoop, TxCheckClosed, TxCallError,
       TxCallOverrun, TxCallEmpty, TxCallAudio, TxEncode, TxEncodeFails, TxThrow, TxSend,
       TxFlush, TxSendTail, TxSendBreak, TxSendFails, TxCatch, TxExit
<1> QED
  BY <1>1, <1>2

\* The tx worker does not disturb what the others know.
LEMMA TxKeepsRest ==
    ASSUME IInv, Tx
    PROVE  RxInv' /\ MonInv' /\ StartInv'
<1> USE TxUnchanged DEF IInv
<1>1. RxInv'
  BY DEF RxInv, ClosedIsHonest
<1>2. StartInv'
  BY DEF StartInv, Resting
<1>3. Failed => Failed'
  BY TxFailureStays DEF Failed
<1>4. ReportedErrorIsGenuine'
  <2>1. SUFFICES ASSUME errorno # 0
                 PROVE  \/ errorno \in {txErrorno', rxErrorno}
                        \/ /\ errorno \in TxUserErrors
                           /\ \E e \in SendFailures : txErrorno' = TxCatchErrorno(e)
    BY DEF ReportedErrorIsGenuine
  <2>2. CASE errorno = txErrorno
    BY <2>1, <2>2, TxErrorChange
  <2>3. CASE errorno = rxErrorno
    BY <2>3
  <2>4. CASE errorno \in TxUserErrors /\ \E e \in SendFailures : txErrorno = TxCatchErrorno(e)
    BY <2>4, TxErrorChange, CodesNonZero
  <2> QED
    BY <2>1, <2>2, <2>3, <2>4 DEF MonInv, ReportedErrorIsGenuine
<1>5. MonInv'
  BY <1>3, <1>4 DEF MonInv, ClosedByUser
<1> QED
  BY <1>1, <1>2, <1>5

-----------------------------------------------------------------------------
(* Steps of the rx worker.                                                 *)

\* The rx worker keeps what it knows of the connection and of its errors.
LEMMA RxKeepsRxInv ==
    ASSUME TypeOK, RxInv, Rx
    PROVE  RxInv'
<1> USE DEF TypeOK, RxInv, RxGoto, connVars, ClosedIsHonest
<1>1. CASE RxLoop
  BY <1>1 DEF RxLoop
<1>2. CASE RxCheckClosed
  BY <1>2 DEF RxCheckClosed
<1>3. CASE RxReceive
  BY <1>3 DEF RxReceive, Throws, Answered, OpfType, FlagsZero, HangUp, EmptyFragment, Frame
<1>4. CASE RxReceiveFails
  BY <1>4 DEF RxReceiveFails, RxThrow
<1>5. CASE RxPong
  BY <1>5 DEF RxPong
<1>6. CASE RxCloseReply
  BY <1>6 DEF RxCloseReply, OpfType
<1>7. CASE RxReplyFails
  BY <1>7 DEF RxReplyFails, RxThrow
<1>8. CASE RxMarkClosed
  BY <1>8 DEF RxMarkClosed
<1>9. CASE RxCloseStatus
  <2>1. rxFrame \in Frames /\ rxFrame.op = "CLOSE" /\ closeReplied
    BY <1>9 DEF RxCloseStatus
  <2>2. CloseErrorno(rxFrame) = 0 => ClosesWithoutError(rxFrame)
    <3>1. CASE rxFrame.n = 0
      BY <3>1 DEF CloseErrorno
    <3>2. CASE rxFrame.n # 0
      <4>1. rxFrame.status \in Nat /\ rxFrame.status < 65536
        BY <2>1, <3>2, FrameFields, Constants DEF ConstantAssumptions
      <4>2. rxFrame = Frame("CLOSE", 1, rxFrame.status)
        BY <2>1, <3>2 DEF Frames, Frame, FlagsZero, HangUp, EmptyFragment, Ops
      <4>3. CloseErrorno(rxFrame) = 0 => rxFrame.status \in {0, NormalClose}
        BY <3>2, <4>1 DEF CloseErrorno, ShortStatus, NormalClose
      <4> QED
        BY <4>2, <4>3 DEF ClosesWithoutError, NormalCloseFrame, ZeroCloseFrame
    <3> QED
      BY <3>1, <3>2
  <2> QED
    BY <1>9, <2>1, <2>2 DEF RxCloseStatus
<1>10. CASE RxCallback
  BY <1>10, CodesNonZero DEF RxCallback
<1>11. CASE RxCatch
  BY <1>11, CodesNonZero DEF RxCatch
<1>12. CASE RxExit
  BY <1>12 DEF RxExit
<1> QED
  BY <1>1, <1>2, <1>3, <1>4, <1>5, <1>6, <1>7, <1>8, <1>9, <1>10, <1>11, <1>12
     DEF Rx, RxNext

\* What a step of the rx worker leaves alone; its error, once set, stays.
LEMMA RxUnchanged ==
    ASSUME TypeOK, RxInv, Rx
    PROVE  /\ UNCHANGED <<encVars, txVars, monVars, errorno, userPc>>
           /\ UNCHANGED <<audioSent, breaksSent, rxFinish, started>>
           /\ rxErrorno # 0 => rxErrorno' = rxErrorno
           /\ rxPc \notin Resting /\ rxPc' # "idle"
<1>1. UNCHANGED <<encVars, txVars, monVars, errorno, started, userPc>>
  BY DEF Rx, userVars
<1>2. /\ UNCHANGED <<audioSent, breaksSent, rxFinish>>
      /\ rxPc \notin Resting /\ rxPc' # "idle"
  BY DEF Resting, Rx, RxNext, RxGoto, connVars, RxLoop, RxCheckClosed, RxReceive, RxReceiveFails,
       RxThrow, RxPong, RxCloseReply, RxReplyFails, RxMarkClosed, RxCloseStatus, RxCallback,
       RxCatch, RxExit
<1>3. rxErrorno # 0 => rxErrorno' = rxErrorno
  BY DEF RxInv, Rx, RxNext, RxGoto, RxLoop, RxCheckClosed, RxReceive, RxReceiveFails,
       RxThrow, RxPong, RxCloseReply, RxReplyFails, RxMarkClosed, RxCloseStatus, RxCallback,
       RxCatch, RxExit
<1> QED
  BY <1>1, <1>2, <1>3

\* The rx worker does not disturb what the others know.
LEMMA RxKeepsRest ==
    ASSUME IInv, Rx
    PROVE  TxInv' /\ MonInv' /\ StartInv'
<1> USE RxUnchanged DEF IInv, txVars, txLocals, encVars, monVars
<1>1. TxInv'
  BY DEF TxInv, HeaderUnits
<1>2. StartInv'
  BY DEF StartInv, Resting
<1>3. Failed => Failed'
  BY DEF Failed
<1>4. ReportedErrorIsGenuine'
  BY DEF MonInv, ReportedErrorIsGenuine
<1>5. MonInv'
  BY <1>3, <1>4 DEF MonInv, ClosedByUser
<1> QED
  BY <1>1, <1>2, <1>5

-----------------------------------------------------------------------------
(* Steps of the monitor.                                                   *)

\* The monitor hands an error over before it stops the workers.
LEMMA MonKeepsIInv ==
    ASSUME IInv, MonNext
    PROVE  TxInv' /\ RxInv' /\ MonInv' /\ StartInv'
<1> USE DEF IInv, TypeOK, MonGoto, MonUnshared, connVars, encVars, txVars, txLocals,
            rxVars, userVars
<1>1. TxInv' /\ RxInv' /\ StartInv'
  <2>1. /\ UNCHANGED <<connVars, encVars, txPc, txErrorno, txFinished, txLocals, txExc,
                      audioGiven, audioRests, txLate>>
        /\ UNCHANGED <<rxPc, rxErrorno, rxFinished, rxFrame, rxExc, rxLate, userPc, started>>
        /\ txFinish => txFinish'
        /\ rxFinish => rxFinish'
        /\ monPc \notin Resting /\ monPc' # "idle"
    BY DEF Resting, MonNext, MonLoop, MonPoll, MonCopy, MonFinishTx, MonFinishRx
  <2>2. TxInv'
    BY <2>1, UnitTypes DEF TxInv, HeaderUnits
  <2>3. RxInv'
    BY <2>1 DEF RxInv, ClosedIsHonest
  <2>4. StartInv'
    BY <2>1 DEF StartInv, Resting
  <2> QED
    BY <2>2, <2>3, <2>4
<1>2. MonInv'
  <2> USE DEF MonInv, Failed, ClosedByUser, ReportedErrorIsGenuine
  <2>1. CASE MonLoop
    BY <2>1 DEF MonLoop
  <2>2. CASE MonPoll
    BY <2>2 DEF MonPoll
  <2>3. CASE MonCopy
    BY <2>3 DEF MonCopy
  <2>4. CASE MonFinishTx
    BY <2>4 DEF MonFinishTx
  <2>5. CASE MonFinishRx
    BY <2>5 DEF MonFinishRx
  <2> QED
    BY <2>1, <2>2, <2>3, <2>4, <2>5 DEF MonNext
<1> QED
  BY <1>1, <1>2

-----------------------------------------------------------------------------
(* Steps of the application.                                               *)

\* What a step of the application may do to the state of the threads.
LEMMA UserUnchanged ==
    ASSUME InCall \/ AtWill
    PROVE  /\ UNCHANGED <<connVars, encVars, txErrorno, txFinished, txLocals, txExc,
                         audioGiven, audioRests, txLate>>
           /\ UNCHANGED <<rxErrorno, rxFinished, rxFrame, rxExc, rxLate, errorno>>
           /\ monPc' = monPc \/ (userPc = "opened" /\ monPc' = "loop")
           /\ txPc' = txPc \/ (userPc = "startTx" /\ txPc' = "loop")
           /\ rxPc' = rxPc \/ (userPc = "startRx" /\ rxPc' = "loop")
           /\ (txFinish => txFinish') /\ (rxFinish => rxFinish')
           /\ txFinish' => txFinish \/ ClosedByUser'
           /\ rxFinish' => rxFinish \/ ClosedByUser'
           /\ monFinish' => monFinish \/ ClosedByUser'
           /\ ClosedByUser => ClosedByUser'
<1> USE DEF InCall, AtWill, StartMonitor, StartTx, StartRx, SetStarted, StartFails,
            ObserveInactive, ReadError, BeginClose, CloseFinishRx, CloseFinishMon,
            JoinAndFree, UserGoto, connVars, encVars, txVars, txLocals, rxVars, monVars
<1>1. UNCHANGED <<connVars, encVars, txErrorno, txFinished, txLocals, txExc,
                  audioGiven, audioRests, txLate>>
  OBVIOUS
<1>2. UNCHANGED <<rxErrorno, rxFinished, rxFrame, rxExc, rxLate, errorno>>
  OBVIOUS
<1>3. /\ monPc' = monPc \/ (userPc = "opened" /\ monPc' = "loop")
      /\ txPc' = txPc \/ (userPc = "startTx" /\ txPc' = "loop")
      /\ rxPc' = rxPc \/ (userPc = "startRx" /\ rxPc' = "loop")
  OBVIOUS
<1>4. /\ (txFinish => txFinish') /\ (rxFinish => rxFinish')
      /\ txFinish' => txFinish \/ ClosedByUser'
      /\ rxFinish' => rxFinish \/ ClosedByUser'
      /\ monFinish' => monFinish \/ ClosedByUser'
  BY DEF ClosedByUser, Closing
<1>5. ClosedByUser => ClosedByUser'
  BY DEF ClosedByUser, Closing, Calling
<1> QED
  BY <1>1, <1>2, <1>3, <1>4, <1>5

\* mimi_start launches the threads in their order, mimi_close joins them.
LEMMA UserKeepsStartInv ==
    ASSUME TypeOK, StartInv, InCall \/ AtWill
    PROVE  StartInv'
<1> USE DEF StartInv, Starting, Closing, Calling, UserGoto, txVars, rxVars, monVars
<1>1. CASE StartMonitor
  BY <1>1 DEF StartMonitor
<1>2. CASE StartTx
  BY <1>2 DEF StartTx
<1>3. CASE StartRx
  BY <1>3 DEF StartRx
<1>4. CASE SetStarted
  BY <1>4 DEF SetStarted
<1>5. CASE StartFails
  BY <1>5 DEF StartFails
<1>6. CASE ObserveInactive
  BY <1>6 DEF ObserveInactive
<1>7. CASE ReadError
  BY <1>7 DEF ReadError
<1>8. CASE BeginClose
  BY <1>8 DEF BeginClose
<1>9. CASE CloseFinishRx
  BY <1>9 DEF CloseFinishRx
<1>10. CASE CloseFinishMon
  BY <1>10 DEF CloseFinishMon
<1>11. CASE JoinAndFree
  BY <1>11 DEF JoinAndFree, LiveThreads, Thread, Resting
<1> QED
  BY <1>1, <1>2, <1>3, <1>4, <1>5, <1>6, <1>7, <1>8, <1>9, <1>10, <1>11 DEF InCall, AtWill

\* The application does not disturb what the threads know.
LEMMA UserKeepsIInv ==
    ASSUME IInv, InCall \/ AtWill
    PROVE  TxInv' /\ RxInv' /\ MonInv' /\ StartInv'
<1>1. TxInv'
  BY UserUnchanged, UnitTypes
     DEF IInv, TypeOK, TxInv, StartInv, HeaderUnits, connVars, encVars, txLocals
<1>2. RxInv'
  BY UserUnchanged DEF IInv, TypeOK, RxInv, StartInv, ClosedIsHonest, connVars
<1>3. MonInv'
  <2>1. Failed' = Failed /\ ReportedErrorIsGenuine' = ReportedErrorIsGenuine
    BY UserUnchanged DEF Failed, ReportedErrorIsGenuine
  <2> QED
    BY UserUnchanged, <2>1 DEF IInv, TypeOK, MonInv, StartInv
<1>4. StartInv'
  BY UserKeepsStartInv DEF IInv
<1> QED
  BY <1>1, <1>2, <1>3, <1>4

\* A step that changes nothing keeps the invariant.
LEMMA StutterKeepsIInv ==
    ASSUME IInv, UNCHANGED vars
    PROVE  TxInv' /\ RxInv' /\ MonInv' /\ StartInv'
<1> USE DEF IInv, vars, connVars, encVars, txVars, txLocals, rxVars, monVars, userVars
<1>1. TxInv'
  BY DEF TxInv, HeaderUnits
<1>2. RxInv'
  BY DEF RxInv, ClosedIsHonest
<1>3. MonInv'
  BY DEF MonInv, Failed, ClosedByUser, ReportedErrorIsGenuine
<1>4. StartInv'
  BY DEF StartInv
<1> QED
  BY <1>1, <1>2, <1>3, <1>4

-----------------------------------------------------------------------------
(* The theorems.                                                           *)

\* What the threads know at each of their steps holds in every reachable state.
THEOREM Inductive == Spec => []IInv
<1>1. IInv /\ [Next]_vars => IInv'
  <2> SUFFICES ASSUME IInv, [Next]_vars PROVE IInv'
    OBVIOUS
  <2>1. TypeOK'
    BY TxTypeOK, RxTypeOK, MonTypeOK, UserTypeOK, StutterTypeOK DEF IInv, Next, Freed
  <2>2. CASE Tx
    BY <2>1, <2>2, TxKeepsTxInv, TxKeepsRest DEF IInv
  <2>3. CASE Rx
    BY <2>1, <2>3, RxKeepsRxInv, RxKeepsRest DEF IInv
  <2>4. CASE MonNext
    BY <2>1, <2>4, MonKeepsIInv DEF IInv
  <2>5. CASE InCall \/ AtWill
    BY <2>1, <2>5, UserKeepsIInv DEF IInv
  <2>6. CASE UNCHANGED vars
    BY <2>1, <2>6, StutterKeepsIInv DEF IInv
  <2> QED
    BY <2>2, <2>3, <2>4, <2>5, <2>6 DEF Next, Freed
<1> QED
  BY InitIInv, <1>1, PTL DEF Spec

\* While the codec works, all audio but the rests it is never given is on the
\* wire before the recog-break, for any number of buffers and of channels and
\* whatever the encoder kept back of each.
THEOREM AudioIsComplete == Spec => []AudioBeforeBreak
<1>1. IInv => AudioBeforeBreak
  BY DEF IInv, TypeOK, TxInv, AudioBeforeBreak, HeaderUnits
<1> QED
  BY Inductive, <1>1, PTL

\* mimi_error only tells errors that a worker has had.
THEOREM ReportsAreGenuine == Spec => []ReportedErrorIsGenuine
<1>1. IInv => ReportedErrorIsGenuine
  BY DEF IInv, MonInv
<1> QED
  BY Inductive, <1>1, PTL

\* A session that ends by itself and without an error was closed by the service,
\* normally or with status 0.
THEOREM NoSilentFailure == Spec => []CleanEndIsNormalClose
<1>1. IInv => CleanEndIsNormalClose
  <2> SUFFICES ASSUME IInv, ~ClosedByUser, ~IsActive, txErrorno = 0, rxErrorno = 0
               PROVE  closeReplied /\ ClosesWithoutError(rxFrame)
    BY DEF CleanEndIsNormalClose
  <2>1. ~rxFinish
    BY DEF IInv, MonInv, Failed
  <2>2. rxPc = "done"
    BY DEF IsActive, IInv, RxInv
  <2> QED
    BY <2>1, <2>2 DEF IInv, RxInv
<1> QED
  BY Inductive, <1>1, PTL

\* finish() is heeded before the second callback that follows it.
THEOREM LateCallsAreBounded == Spec => []LateCallsBounded
<1>1. IInv => LateCallsBounded
  BY DEF IInv, TxInv, RxInv, LateCallsBounded
<1> QED
  BY Inductive, <1>1, PTL

\* closed_ tells the truth, up to an empty fragment that looks like a hang-up.
THEOREM ClosedTellsTruth == Spec => []ClosedIsHonest
<1>1. IInv => ClosedIsHonest
  BY DEF IInv, RxInv, ClosedIsHonest
<1> QED
  BY Inductive, <1>1, PTL

\* The monitor leaves no session without having handed over an error and
\* stopped both workers.
THEOREM MonitorKeepsWatch == Spec => []MonitorNeverAbandons
<1>1. IInv => MonitorNeverAbandons
  BY DEF IInv, MonInv, MonitorNeverAbandons
<1> QED
  BY Inductive, <1>1, PTL

\* What mimi_error has once told, it tells until mimi_close.
THEOREM ErrorsStick == Spec => ErrorSticky
<1>1. IInv /\ [Next]_vars => (errorno # 0 => errorno' = errorno)
  <2> SUFFICES ASSUME IInv, [Next]_vars, errorno # 0
               PROVE  errorno' = errorno
    OBVIOUS
  <2>1. CASE Tx
    BY <2>1, TxUnchanged
  <2>2. CASE Rx
    BY <2>2, RxUnchanged DEF IInv
  <2>3. CASE MonNext
    BY <2>3 DEF IInv, MonInv, MonNext, MonGoto, MonLoop, MonPoll, MonCopy, MonFinishTx, MonFinishRx
  <2>4. CASE InCall \/ AtWill
    BY <2>4, UserUnchanged
  <2>5. CASE UNCHANGED vars
    BY <2>5 DEF vars
  <2> QED
    BY <2>1, <2>2, <2>3, <2>4, <2>5 DEF Next, Freed
<1>2. IInv /\ [Next]_vars => [errorno # 0 => errorno' = errorno]_vars
  BY <1>1
<1> QED
  BY Inductive, <1>2, PTL DEF Spec, ErrorSticky

\* The recog-break ends the traffic of the tx worker.
THEOREM BreakIsLast == Spec => NothingAfterBreak
<1> DEFINE Quiet == breaksSent > 0 =>
                       /\ breaksSent' = breaksSent
                       /\ audioSent' = audioSent
                       /\ audioGiven' = audioGiven
<1>1. IInv /\ [Next]_vars => Quiet
  <2> SUFFICES ASSUME IInv, [Next]_vars, breaksSent > 0
               PROVE  UNCHANGED <<breaksSent, audioSent, audioGiven>>
    OBVIOUS
  <2>1. CASE Tx
    <3>1. txPc \in {"exit", "done"}
      BY DEF IInv, TxInv
    <3> QED
      BY <2>1, <3>1 DEF Tx, TxNext, TxGoto, TxUnshared, connVars, TxLoop, TxCheckClosed,
           TxCallError, TxCallOverrun, TxCallEmpty, TxCallAudio, TxEncode, TxEncodeFails,
           TxThrow, TxSend, TxFlush, TxSendTail, TxSendBreak, TxSendFails, TxCatch, TxExit
  <2>2. CASE Rx
    BY <2>2, RxUnchanged DEF IInv, txVars
  <2>3. CASE MonNext
    BY <2>3 DEF MonNext, MonUnshared, connVars, txVars, MonLoop, MonPoll, MonCopy,
         MonFinishTx, MonFinishRx
  <2>4. CASE InCall \/ AtWill
    BY <2>4, UserUnchanged DEF connVars
  <2>5. CASE UNCHANGED vars
    BY <2>5 DEF vars, connVars, txVars
  <2> QED
    BY <2>1, <2>2, <2>3, <2>4, <2>5 DEF Next, Freed
<1>2. IInv /\ [Next]_vars => [Quiet]_vars
  BY <1>1
<1> QED
  BY Inductive, <1>2, PTL DEF Spec, NothingAfterBreak

-----------------------------------------------------------------------------
(* Convergence: what the threads' being told to finish leaves to be done.  *)

\* Where a step of the tx worker goes.
LEMMA TxMoves ==
    ASSUME Tx
    PROVE  \/ txPc = "loop" /\ txPc' = (IF txFinish THEN "exit" ELSE "check")
           \/ txPc = "check" /\ txPc' = (IF closed THEN "exit" ELSE "call")
           \/ txPc = "call" /\ txPc' \in {"errorBreak", "exit", "flush", "loop", "encode"}
           \/ txPc = "encode" /\ txPc' \in {"send", "flush", "loop", "catch"}
           \/ txPc = "send" /\ txPc' \in {"flush", "loop", "catch"}
           \/ txPc = "flush" /\ txPc' \in {"sendTail", "break"}
           \/ txPc = "sendTail" /\ txPc' \in {"break", "catch"}
           \/ txPc \in {"break", "errorBreak"} /\ txPc' \in {"exit", "catch"}
           \/ txPc = "catch" /\ txPc' = "exit"
           \/ txPc = "exit" /\ txPc' = "done"
<1> USE DEF TxGoto
<1>1. CASE TxLoop \/ TxCheckClosed
  BY <1>1 DEF TxLoop, TxCheckClosed
<1>2. CASE TxCallError \/ TxCallOverrun \/ TxCallEmpty \/ TxCallAudio
  BY <1>2 DEF TxCallError, TxCallOverrun, TxCallEmpty, TxCallAudio
<1>3. CASE TxEncode \/ TxEncodeFails
  BY <1>3 DEF TxEncode, TxEncodeFails, TxThrow
<1>4. CASE TxSend \/ TxFlush \/ TxSendTail
  BY <1>4 DEF TxSend, TxFlush, TxSendTail
<1>5. CASE TxSendBreak \/ TxSendFails
  BY <1>5 DEF TxSendBreak, TxSendFails, TxThrow
<1>6. CASE TxCatch \/ TxExit
  BY <1>6 DEF TxCatch, TxExit
<1> QED
  BY <1>1, <1>2, <1>3, <1>4, <1>5, <1>6 DEF Tx, TxNext

\* Where a step of the rx worker goes.
LEMMA RxMoves ==
    ASSUME Rx
    PROVE  \/ rxPc = "loop" /\ rxPc' = (IF rxFinish THEN "exit" ELSE "check")
           \/ rxPc = "check" /\ rxPc' \in {"exit", "receive"}
           \/ rxPc = "receive" /\ rxPc' \in {"catch", "reply", "callback"}
           \/ rxPc = "reply" /\ rxPc' \in {"loop", "markClosed", "catch"}
           \/ rxPc = "markClosed" /\ rxPc' = "status"
           \/ rxPc = "callback" /\ rxPc' \in {"exit", "loop"}
           \/ rxPc \in {"status", "catch"} /\ rxPc' = "exit"
           \/ rxPc = "exit" /\ rxPc' = "done"
<1> USE DEF RxGoto
<1>1. CASE RxLoop \/ RxCheckClosed
  BY <1>1 DEF RxLoop, RxCheckClosed
<1>2. CASE RxReceive \/ RxReceiveFails
  BY <1>2 DEF RxReceive, RxReceiveFails, RxThrow
<1>3. CASE RxPong \/ RxCloseReply \/ RxReplyFails
  BY <1>3 DEF RxPong, RxCloseReply, RxReplyFails, RxThrow
<1>4. CASE RxMarkClosed \/ RxCloseStatus \/ RxCallback
  BY <1>4 DEF RxMarkClosed, RxCloseStatus, RxCallback
<1>5. CASE RxCatch \/ RxExit
  BY <1>5 DEF RxCatch, RxExit
<1> QED
  BY <1>1, <1>2, <1>3, <1>4, <1>5 DEF Rx, RxNext

\* Where a step of the monitor goes.
LEMMA MonMoves ==
    ASSUME MonNext
    PROVE  \/ monPc = "loop" /\ monPc' = (IF monFinish THEN "done" ELSE "poll")
           \/ monPc = "poll" /\ monPc' \in {"copy", "loop"}
           \/ monPc = "copy" /\ monPc' = "finishTx"
           \/ monPc = "finishTx" /\ monPc' = "finishRx"
           \/ monPc = "finishRx" /\ monPc' = "done"
BY DEF MonNext, MonGoto, MonLoop, MonPoll, MonCopy, MonFinishTx, MonFinishRx

\* Each step of the tx worker that has been told to finish, or whose
\* connection is closed, is one of the last.
LEMMA TxNearer ==
    ASSUME Tx
    PROVE  /\ txFinish => TxStepsFinishing' < TxStepsFinishing
           /\ closed => TxStepsClosed' < TxStepsClosed
<1>1. CASE txPc \in {"loop", "check", "call"}
  BY <1>1, TxMoves DEF TxStepsFinishing, TxStepsClosed, TxSteps
<1>2. CASE txPc \in {"encode", "send", "flush", "sendTail"}
  BY <1>2, TxMoves DEF TxStepsFinishing, TxStepsClosed, TxSteps
<1>3. CASE txPc \in {"break", "errorBreak", "catch", "exit"}
  BY <1>3, TxMoves DEF TxStepsFinishing, TxStepsClosed, TxSteps
<1> QED
  BY <1>1, <1>2, <1>3, TxMoves

\* ... and so is each of the rx worker's.
LEMMA RxNearer ==
    ASSUME Rx, rxFinish
    PROVE  RxStepsFinishing' < RxStepsFinishing
<1>1. CASE rxPc \in {"loop", "check", "receive"}
  BY <1>1, RxMoves DEF RxStepsFinishing
<1>2. CASE rxPc \notin {"loop", "check", "receive"}
  BY <1>2, RxMoves DEF RxStepsFinishing
<1> QED
  BY <1>1, <1>2

\* ... and the monitor's.
LEMMA MonNearer ==
    ASSUME MonNext, monFinish
    PROVE  MonStepsFinishing' < MonStepsFinishing
BY MonMoves DEF MonStepsFinishing

\* Each thread has a number of steps left, and none only when it does not run.
LEMMA StepsLeft ==
    ASSUME TypeOK
    PROVE  /\ TxStepsFinishing \in 0..9 /\ RxStepsFinishing \in 0..6
           /\ MonStepsFinishing \in 0..4
           /\ TxStepsFinishing = 0 => txPc \in Resting
           /\ RxStepsFinishing = 0 => rxPc \in Resting
           /\ MonStepsFinishing = 0 => monPc \in Resting
<1>1. TxStepsFinishing \in 0..9 /\ (TxStepsFinishing = 0 => txPc \in Resting)
  <2>1. txPc \in TxPcs
    BY DEF TypeOK
  <2> QED
    BY <2>1 DEF TxPcs, Resting, TxStepsFinishing, TxSteps
<1>2. RxStepsFinishing \in 0..6 /\ (RxStepsFinishing = 0 => rxPc \in Resting)
  <2>1. rxPc \in RxPcs
    BY DEF TypeOK
  <2> QED
    BY <2>1 DEF RxPcs, Resting, RxStepsFinishing
<1>3. MonStepsFinishing \in 0..4 /\ (MonStepsFinishing = 0 => monPc \in Resting)
  <2>1. monPc \in MonPcs
    BY DEF TypeOK
  <2> QED
    BY <2>1 DEF MonPcs, Resting, MonStepsFinishing
<1> QED
  BY <1>1, <1>2, <1>3

\* A thread's place changes by its own steps only, once it is started.
LEMMA OthersPlaces ==
    ASSUME IInv, [Next]_vars
    PROVE  /\ ~Tx => txPc \in {"idle", txPc'}
           /\ ~Rx => rxPc \in {"idle", rxPc'}
           /\ ~MonNext => monPc \in {"idle", monPc'}
<1>1. CASE Tx
  BY <1>1, TxUnchanged
<1>2. CASE Rx
  BY <1>2, RxUnchanged DEF IInv, txVars, monVars
<1>3. CASE MonNext
  BY <1>3 DEF MonNext, MonUnshared, txVars, rxVars, MonLoop, MonPoll, MonCopy,
       MonFinishTx, MonFinishRx
<1>4. CASE InCall \/ AtWill
  BY <1>4, UserUnchanged DEF IInv, StartInv
<1>5. CASE UNCHANGED vars
  BY <1>5 DEF vars, txVars, rxVars, monVars
<1> QED
  BY <1>1, <1>2, <1>3, <1>4, <1>5 DEF Next, Freed

\* No step takes a finish() or closed_ back.
LEMMA ToldStep ==
    ASSUME IInv, [Next]_vars
    PROVE  /\ txFinish => txFinish'
           /\ rxFinish => rxFinish'
           /\ monFinish => monFinish'
           /\ closed => closed'
<1>1. CASE Tx
  BY <1>1, TxUnchanged
<1>2. CASE Rx
  <2>1. UNCHANGED <<txFinish, rxFinish, monFinish>>
    BY <1>2, RxUnchanged DEF IInv, txVars, monVars
  <2>2. closed => closed'
    BY <1>2 DEF Rx, RxNext, RxLoop, RxCheckClosed, RxReceive, RxReceiveFails, RxThrow, RxPong,
         RxCloseReply, RxReplyFails, RxMarkClosed, RxCloseStatus, RxCallback, RxCatch, RxExit,
         connVars
  <2> QED
    BY <2>1, <2>2
<1>3. CASE MonNext
  BY <1>3 DEF MonNext, MonUnshared, connVars, txVars, rxVars, MonLoop, MonPoll, MonCopy,
       MonFinishTx, MonFinishRx
<1>4. CASE InCall \/ AtWill
  <2>1. monFinish => monFinish'
    BY <1>4 DEF InCall, AtWill, StartMonitor, StartTx, StartRx, SetStarted, StartFails,
         ObserveInactive, ReadError, BeginClose, CloseFinishRx, CloseFinishMon, JoinAndFree,
         monVars
  <2> QED
    BY <1>4, <2>1, UserUnchanged DEF connVars
<1>5. CASE UNCHANGED vars
  BY <1>5 DEF vars, connVars, txVars, rxVars, monVars
<1> QED
  BY <1>1, <1>2, <1>3, <1>4, <1>5 DEF Next, Freed

\* finish() and closed_ are final, whoever calls or sets them.
THEOREM ToldForGood == Spec => ToldStaysTold
<1> DEFINE Told ==
        /\ txFinish => txFinish'
        /\ rxFinish => rxFinish'
        /\ monFinish => monFinish'
        /\ closed => closed'
<1>1. IInv /\ [Next]_vars => [Told]_vars
  BY ToldStep
<1> QED
  BY Inductive, <1>1, PTL DEF Spec, ToldStaysTold

\* A thread that has been told to finish needs at most nine (tx), six (rx) or
\* four (monitor) steps more, and no step of another thread adds to them.
THEOREM ThreadsWindDown == Spec => WindsDown
<1> DEFINE Nearer ==
        /\ txFinish /\ txPc \notin {"idle", txPc'} => TxStepsFinishing' < TxStepsFinishing
        /\ closed /\ txPc \notin {"idle", txPc'} => TxStepsClosed' < TxStepsClosed
        /\ rxFinish /\ rxPc \notin {"idle", rxPc'} => RxStepsFinishing' < RxStepsFinishing
        /\ monFinish /\ monPc \notin {"idle", monPc'} => MonStepsFinishing' < MonStepsFinishing
<1>1. IInv /\ [Next]_vars => Nearer
  BY OthersPlaces, TxNearer, RxNearer, MonNearer
<1>2. IInv /\ [Next]_vars => [Nearer]_vars
  BY <1>1
<1> QED
  BY Inductive, <1>2, PTL DEF Spec, WindsDown

\* mimi_close has told every thread before it waits for them.
JoinInv ==
    /\ userPc \in {"finishRx", "finishMon", "join"} => txFinish
    /\ userPc \in {"finishMon", "join"} => rxFinish
    /\ userPc = "join" => monFinish

\* Each step keeps what mimi_close has told the threads.
LEMMA JoinStep ==
    ASSUME IInv, JoinInv, [Next]_vars
    PROVE  JoinInv'
<1>1. CASE InCall \/ AtWill
  <2> USE DEF JoinInv, UserGoto, txVars, rxVars, monVars
  <2>1. CASE BeginClose \/ CloseFinishRx \/ CloseFinishMon \/ JoinAndFree
    BY <2>1 DEF BeginClose, CloseFinishRx, CloseFinishMon, JoinAndFree, Calling
  <2>2. CASE StartMonitor \/ StartTx \/ StartRx \/ SetStarted
    BY <2>2 DEF StartMonitor, StartTx, StartRx, SetStarted
  <2>3. CASE StartFails \/ ObserveInactive \/ ReadError
    BY <2>3 DEF StartFails, ObserveInactive, ReadError
  <2> QED
    BY <1>1, <2>1, <2>2, <2>3 DEF InCall, AtWill
<1>2. CASE ~(InCall \/ AtWill)
  <2>1. userPc' = userPc
    BY <1>2, TxUnchanged, RxUnchanged DEF Next, Freed, vars, userVars, IInv, MonNext, MonLoop,
         MonPoll, MonCopy, MonFinishTx, MonFinishRx, MonUnshared
  <2> QED
    BY <2>1, ToldStep DEF JoinInv
<1> QED
  BY <1>1, <1>2

\* A sum falls when one of its terms does.
LEMMA OneTermFalls ==
    ASSUME NEW m \in Int, NEW n \in Int, NEW a \in Int, NEW b \in Int, n < m
    PROVE  n + a + b < m + a + b /\ a + n + b < a + m + b /\ a + b + n < a + b + m
OBVIOUS

\* While mimi_close waits, the steps that are taken are the threads' own, and
\* each is one of the steps that are left.
LEMMA JoinNearer ==
    ASSUME IInv, JoinInv, [Next]_vars, userPc = "join", userPc' = "join", vars' # vars
    PROVE  StepsToJoin' < StepsToJoin
<1>1. txFinish /\ rxFinish /\ monFinish
  BY DEF JoinInv
<1>2. TxStepsFinishing \in Int /\ RxStepsFinishing \in Int /\ MonStepsFinishing \in Int
  BY StepsLeft DEF IInv
<1>3. TxStepsFinishing' \in Int /\ RxStepsFinishing' \in Int /\ MonStepsFinishing' \in Int
  <2>1. TxStepsFinishing' \in Int
    BY DEF TxStepsFinishing, TxSteps
  <2>2. RxStepsFinishing' \in Int
    BY DEF RxStepsFinishing
  <2>3. MonStepsFinishing' \in Int
    BY DEF MonStepsFinishing
  <2> QED
    BY <2>1, <2>2, <2>3
<1>4. ~InCall /\ ~AtWill
  BY DEF InCall, AtWill, UserGoto, StartMonitor, StartTx, StartRx, SetStarted, StartFails,
       ObserveInactive, ReadError, BeginClose, CloseFinishRx, CloseFinishMon, JoinAndFree, Calling
<1>5. CASE Tx
  <2>1. UNCHANGED <<rxPc, monPc>>
    BY <1>5, TxUnchanged
  <2>2. RxStepsFinishing' = RxStepsFinishing /\ MonStepsFinishing' = MonStepsFinishing
    BY <2>1 DEF RxStepsFinishing, MonStepsFinishing
  <2>3. TxStepsFinishing' < TxStepsFinishing
    BY <1>1, <1>5, <2>1, TxNearer
  <2> QED
    BY <1>2, <1>3, <2>2, <2>3, OneTermFalls DEF StepsToJoin
<1>6. CASE Rx
  <2>1. UNCHANGED <<txPc, monPc>>
    BY <1>6, RxUnchanged DEF IInv, txVars, monVars
  <2>2. TxStepsFinishing' = TxStepsFinishing /\ MonStepsFinishing' = MonStepsFinishing
    BY <2>1 DEF TxStepsFinishing, TxSteps, MonStepsFinishing
  <2>3. RxStepsFinishing' < RxStepsFinishing
    BY <1>1, <1>6, <2>1, RxNearer
  <2> QED
    BY <1>2, <1>3, <2>2, <2>3, OneTermFalls DEF StepsToJoin
<1>7. CASE MonNext
  <2>1. UNCHANGED <<txPc, rxPc>>
    BY <1>7 DEF MonNext, MonUnshared, txVars, rxVars, MonLoop, MonPoll, MonCopy,
         MonFinishTx, MonFinishRx
  <2>2. TxStepsFinishing' = TxStepsFinishing /\ RxStepsFinishing' = RxStepsFinishing
    BY <2>1 DEF TxStepsFinishing, TxSteps, RxStepsFinishing
  <2>3. MonStepsFinishing' < MonStepsFinishing
    BY <1>1, <1>7, <2>1, MonNearer
  <2> QED
    BY <1>2, <1>3, <2>2, <2>3, OneTermFalls DEF StepsToJoin
<1> QED
  BY <1>4, <1>5, <1>6, <1>7 DEF Next, Freed

\* mimi_close cannot wait for ever while its threads move: they have at most
\* nineteen steps left, each step taken is one of them, and after the last one
\* joinAll has nobody to wait for.
THEOREM CloseConverges == Spec => JoinConverges
<1> DEFINE Waiting ==
        userPc = "join" =>
            /\ txFinish /\ rxFinish /\ monFinish
            /\ StepsToJoin \in 0..19
            /\ StepsToJoin = 0 => LiveThreads = {}
           Nearer == userPc = "join" /\ userPc' = "join" => StepsToJoin' < StepsToJoin
<1>1. Init => JoinInv
  BY DEF Init, JoinInv
<1>2. IInv /\ JoinInv /\ [Next]_vars => JoinInv'
  BY JoinStep
<1>3. IInv /\ JoinInv => Waiting
  <2> SUFFICES ASSUME IInv, JoinInv, userPc = "join" PROVE Waiting
    OBVIOUS
  <2>1. txFinish /\ rxFinish /\ monFinish
    BY DEF JoinInv
  <2>2. StepsToJoin \in 0..19
    BY StepsLeft DEF IInv, StepsToJoin
  <2>3. StepsToJoin = 0 => {txPc, rxPc, monPc} \subseteq Resting
    BY StepsLeft DEF IInv, StepsToJoin
  <2> QED
    BY <2>1, <2>2, <2>3 DEF LiveThreads, Thread
<1>4. IInv /\ JoinInv /\ [Next]_vars => [Nearer]_vars
  BY JoinNearer
<1> QED
  BY Inductive, <1>1, <1>2, <1>3, <1>4, PTL DEF Spec, JoinConverges

=============================================================================
