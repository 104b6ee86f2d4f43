------------------------------ MODULE TxWorker ------------------------------
(***************************************************************************)
(* worker::mimiioTxWorker: the thread that asks txfunc for audio, encodes  *)
(* it, and sends it and the recog-break.  Each step makes at most one      *)
(* access to memory or to the socket that another thread can see.          *)
(***************************************************************************)
EXTENDS Connection, Encoder

CONSTANTS
    TxUserErrors, \* errors txfunc may report
    Lens,         \* buffer lengths txfunc may return
    MaxChunks     \* bound: units of audio txfunc returns

MaxSendBuffer == 262144

ASSUME TxAssumption ==
    /\ TxUserErrors \subseteq Int \ {0}
    /\ Lens \subseteq Nat
    /\ MaxChunks \in Nat

VARIABLES
    txPc,
    txErrorno, txFinish, txFinished,   \* errorno_, finish_, finished_
    txBreak, txLen, txData,            \* recog_break, len, units in encodedData
    txExc,                             \* the exception in flight
    audioGiven, audioRests,            \* history: units txfunc gave, rests among them
    txLate                             \* history: txfunc calls begun after finish()

txLocals == <<txBreak, txLen, txData>>
txVars == <<txPc, txErrorno, txFinish, txFinished, txLocals, txExc,
            audioGiven, audioRests, txLate>>

TxPcs == {"idle", "loop", "check", "call", "errorBreak", "encode", "send",
          "flush", "sendTail", "break", "catch", "exit", "done"}

TxInit ==
    /\ txPc = "idle"
    /\ txErrorno = 0
    /\ txFinish = FALSE
    /\ txFinished = FALSE
    /\ txBreak = FALSE
    /\ txLen = 0
    /\ txData = 0
    /\ txExc = "none"
    /\ audioGiven = 0
    /\ audioRests = 0
    /\ txLate = 0

TxGoto(from, to) == txPc = from /\ txPc' = to

\* Steps that touch neither the connection nor the encoder.
TxUnshared == UNCHANGED <<connVars, encVars, txFinish>>

-----------------------------------------------------------------------------
\* while(!finish_); the locals of the last iteration are gone.
TxLoop ==
    /\ TxGoto("loop", IF txFinish THEN "exit" ELSE "check")
    /\ txBreak' = FALSE
    /\ txLen' = 0
    /\ txData' = 0
    /\ TxUnshared
    /\ UNCHANGED <<txErrorno, txFinished, txExc, audioGiven, audioRests, txLate>>

\* if(impl_->closed()) break; otherwise func_ is called.
TxCheckClosed ==
    /\ TxGoto("check", IF closed THEN "exit" ELSE "call")
    /\ txLate' = IF ~closed /\ txFinish THEN txLate + 1 ELSE txLate
    /\ TxUnshared
    /\ UNCHANGED <<txErrorno, txFinished, txLocals, txExc, audioGiven, audioRests>>

\* txfunc returned with an error of the user's: errorno_ is set first, the
\* break is sent afterwards.
TxCallError ==
    /\ TxGoto("call", "errorBreak")
    /\ \E e \in TxUserErrors : txErrorno' = e
    /\ TxUnshared
    /\ UNCHANGED <<txFinished, txLocals, txExc, audioGiven, audioRests, txLate>>

\* txfunc claims more than the buffer holds.
TxCallOverrun ==
    /\ TxGoto("call", "exit")
    /\ \E len \in Lens : len > MaxSendBuffer
    /\ txErrorno' = 903
    /\ TxUnshared
    /\ UNCHANGED <<txFinished, txLocals, txExc, audioGiven, audioRests, txLate>>

\* txfunc had no audio: flush and break, or pause and ask again.
TxCallEmpty ==
    /\ 0 \in Lens
    /\ \E brk \in BOOLEAN :
        /\ TxGoto("call", IF brk THEN "flush" ELSE "loop")
        /\ txBreak' = brk
    /\ TxUnshared
    /\ UNCHANGED <<txErrorno, txFinished, txLen, txData, txExc, audioGiven, audioRests, txLate>>

TxCallAudio ==
    /\ TxGoto("call", "encode")
    /\ txLen' \in {len \in Lens : len > 0 /\ len <= MaxSendBuffer}
    /\ txBreak' \in BOOLEAN
    /\ audioGiven' = audioGiven + FrameUnits(txLen') + RestUnits(txLen')
    /\ audioGiven' <= MaxChunks
    /\ audioRests' = audioRests + RestUnits(txLen')
    /\ TxUnshared
    /\ UNCHANGED <<txErrorno, txFinished, txData, txExc, txLate>>

-----------------------------------------------------------------------------
\* An exception on the way leaves the try block.
TxThrow(from, e) ==
    /\ TxGoto(from, "catch")
    /\ txExc' = e
    /\ TxUnshared
    /\ UNCHANGED <<txErrorno, txFinished, txLocals, audioGiven, audioRests, txLate>>

TxEncodeFails ==
    /\ ~Accepts(txLen)
    /\ TxThrow("encode", "Encoder")

\* Encode(slice); GetEncodedData; nothing came out and no break: next buffer.
TxEncode ==
    /\ Accepts(txLen)
    /\ EncodeAndGet(txLen, txData')
    /\ TxGoto("encode", IF txData' # 0 THEN "send"
                        ELSE IF txBreak THEN "flush" ELSE "loop")
    /\ UNCHANGED <<connVars, txFinish, txErrorno, txFinished, txBreak, txLen,
                   txExc, audioGiven, audioRests, txLate>>

\* Seeded fault: the break is sent without flushing the encoder first.
TxSendSkipsFlush ==
    /\ TxGoto("send", IF txBreak THEN "break" ELSE "loop")
    /\ audioSent' = audioSent + txData
    /\ txData' = 0
    /\ UNCHANGED <<closed, closeReplied, breaksSent, encVars, txFinish,
                   txErrorno, txFinished, txBreak, txLen, txExc, audioGiven, audioRests, txLate>>

\* send_frame of what the encoder gave.
TxSend ==
    /\ TxGoto("send", IF txBreak THEN "flush" ELSE "loop")
    /\ audioSent' = audioSent + txData
    /\ txData' = 0
    /\ UNCHANGED <<closed, closeReplied, breaksSent, encVars, txFinish,
                   txErrorno, txFinished, txBreak, txLen, txExc, audioGiven, audioRests, txLate>>

\* Flush; GetEncodedData.
TxFlush ==
    /\ FlushAndGet(txData')
    /\ TxGoto("flush", IF txData' # 0 THEN "sendTail" ELSE "break")
    /\ UNCHANGED <<connVars, txFinish, txErrorno, txFinished, txBreak, txLen,
                   txExc, audioGiven, audioRests, txLate>>

\* send_frame of what the flush gave.
TxSendTail ==
    /\ TxGoto("sendTail", "break")
    /\ audioSent' = audioSent + txData
    /\ txData' = 0
    /\ UNCHANGED <<closed, closeReplied, breaksSent, encVars, txFinish,
                   txErrorno, txFinished, txBreak, txLen, txExc, audioGiven, audioRests, txLate>>

\* Seeded fault: the worker goes on after the recog-break.
TxSendBreakContinues ==
    /\ txPc \in {"break", "errorBreak"}
    /\ txPc' = "loop"
    /\ breaksSent' = breaksSent + 1
    /\ UNCHANGED <<closed, closeReplied, audioSent, encVars, txFinish,
                   txErrorno, txFinished, txLocals, txExc, audioGiven, audioRests, txLate>>

\* send_break, in normal operation and after an error of txfunc's.
TxSendBreak ==
    /\ txPc \in {"break", "errorBreak"}
    /\ txPc' = "exit"
    /\ breaksSent' = breaksSent + 1
    /\ UNCHANGED <<closed, closeReplied, audioSent, encVars, txFinish,
                   txErrorno, txFinished, txLocals, txExc, audioGiven, audioRests, txLate>>

TxSendFails ==
    \E from \in {"send", "sendTail", "break", "errorBreak"}, e \in SendFailures :
        TxThrow(from, e)

\* The catch blocks of run(), in their order.
TxCatchErrorno(e) ==
    CASE e = "WebSocket" -> 800 + WsCode
      [] e = "Timeout"   -> 830
      [] e = "Net"       -> 790
      [] OTHER           -> 799

TxCatch ==
    /\ TxGoto("catch", "exit")
    /\ txErrorno' = TxCatchErrorno(txExc)
    /\ txExc' = "none"
    /\ TxUnshared
    /\ UNCHANGED <<txFinished, txLocals, audioGiven, audioRests, txLate>>

\* finished_ = true, the last thing run() does.
TxExit ==
    /\ TxGoto("exit", "done")
    /\ txFinished' = TRUE
    /\ TxUnshared
    /\ UNCHANGED <<txErrorno, txLocals, txExc, audioGiven, audioRests, txLate>>

TxNext ==
    \/ TxLoop \/ TxCheckClosed
    \/ TxCallError \/ TxCallOverrun \/ TxCallEmpty \/ TxCallAudio
    \/ TxEncode \/ TxEncodeFails
    \/ TxSend \/ TxFlush \/ TxSendTail \/ TxSendBreak \/ TxSendFails
    \/ TxCatch \/ TxExit

=============================================================================
