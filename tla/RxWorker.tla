------------------------------ MODULE RxWorker ------------------------------
(***************************************************************************)
(* worker::mimiioRxWorker: the thread that blocks in receive_frame, answers *)
(* pings and the close frame, and hands data frames to rxfunc.             *)
(* receive_frame is split where another thread can look in between: the    *)
(* frame is taken, the reply goes out, closed_ is set, and only then does  *)
(* the worker store its errorno_.                                          *)
(***************************************************************************)
EXTENDS Connection

CONSTANT RxUserErrors    \* what rxfunc may report

ASSUME RxAssumption == RxUserErrors \subseteq Int \ {0}

VARIABLES
    rxPc,
    rxErrorno, rxFinish, rxFinished,   \* errorno_, finish_, finished_
    rxFrame,                           \* what receive_frame took last
    rxExc,                             \* the exception in flight
    rxLate                             \* history: rxfunc calls begun after finish()

rxVars == <<rxPc, rxErrorno, rxFinish, rxFinished, rxFrame, rxExc, rxLate>>

RxPcs == {"idle", "loop", "check", "receive", "reply", "markClosed", "status",
          "callback", "catch", "exit", "done"}

NoFrame == Frame("NONE", 1, 0)

RxInit ==
    /\ rxPc = "idle"
    /\ rxErrorno = 0
    /\ rxFinish = FALSE
    /\ rxFinished = FALSE
    /\ rxFrame = NoFrame
    /\ rxExc = "none"
    /\ rxLate = 0

RxGoto(from, to) == rxPc = from /\ rxPc' = to

-----------------------------------------------------------------------------
\* Seeded fault: the loop does not look at finish_.
RxLoopForever ==
    /\ RxGoto("loop", "check")
    /\ rxFrame' = NoFrame
    /\ UNCHANGED <<connVars, rxErrorno, rxFinish, rxFinished, rxExc, rxLate>>

\* while(!finish_); the buffer of the last iteration is gone.
RxLoop ==
    /\ RxGoto("loop", IF rxFinish THEN "exit" ELSE "check")
    /\ rxFrame' = NoFrame
    /\ UNCHANGED <<connVars, rxErrorno, rxFinish, rxFinished, rxExc, rxLate>>

\* if(impl_->closed()) break;
RxCheckClosed ==
    /\ RxGoto("check", IF closed THEN "exit" ELSE "receive")
    /\ UNCHANGED <<connVars, rxErrorno, rxFinish, rxFinished, rxFrame, rxExc, rxLate>>

\* Seeded fault: closed_ is set when the close frame comes in, before the
\* reply that may fail.
RxReceiveMarksEarly ==
    \E f \in Frames :
        /\ rxFrame' = f
        /\ RxGoto("receive", IF Throws(f) THEN "catch"
                             ELSE IF Answered(f) THEN "reply" ELSE "callback")
        /\ rxExc' = IF Throws(f) THEN ThrownBy(f) ELSE "none"
        /\ closed' = (closed \/ f \in FlagsZero \/ f.op = "CLOSE")
        /\ rxLate' = IF rxFinish /\ ~Throws(f) /\ ~Answered(f)
                     THEN rxLate + 1 ELSE rxLate
        /\ UNCHANGED <<closeReplied, audioSent, breaksSent,
                       rxErrorno, rxFinish, rxFinished>>

\* receiveFrame returned f.  What looks like a hang-up sets closed_ and throws,
\* an empty frame of no known type throws, pings and closes are answered, and
\* whatever is left is for rxfunc.
RxReceive ==
    \E f \in Frames :
        /\ rxFrame' = f
        /\ RxGoto("receive", IF Throws(f) THEN "catch"
                             ELSE IF Answered(f) THEN "reply" ELSE "callback")
        /\ rxExc' = IF Throws(f) THEN ThrownBy(f) ELSE "none"
        /\ closed' = (closed \/ f \in FlagsZero)
        /\ rxLate' = IF rxFinish /\ ~Throws(f) /\ ~Answered(f)
                     THEN rxLate + 1 ELSE rxLate
        /\ UNCHANGED <<closeReplied, audioSent, breaksSent,
                       rxErrorno, rxFinish, rxFinished>>

RxThrow(from, e) ==
    /\ RxGoto(from, "catch")
    /\ rxExc' = e
    /\ UNCHANGED <<connVars, rxErrorno, rxFinish, rxFinished, rxFrame, rxLate>>

\* receiveFrame threw; "Timeout" is the receive timeout of the socket.
RxReceiveFails == \E e \in ReceiveFailures : RxThrow("receive", e)

\* The pong is out: continue.
RxPong ==
    /\ OpfType(rxFrame) = "PING_FRAME"
    /\ RxGoto("reply", "loop")
    /\ UNCHANGED <<connVars, rxErrorno, rxFinish, rxFinished, rxFrame, rxExc, rxLate>>

\* The close frame is answered.
RxCloseReply ==
    /\ OpfType(rxFrame) = "CLOSE_FRAME"
    /\ RxGoto("reply", "markClosed")
    /\ closeReplied' = TRUE
    /\ UNCHANGED <<closed, audioSent, breaksSent,
                   rxErrorno, rxFinish, rxFinished, rxFrame, rxExc, rxLate>>

RxReplyFails == \E e \in SendFailures : RxThrow("reply", e)

\* Seeded fault: receive_frame does not note that the service closed.
RxForgetsClosed ==
    /\ RxGoto("markClosed", "status")
    /\ closed' = closed
    /\ UNCHANGED <<closeReplied, audioSent, breaksSent,
                   rxErrorno, rxFinish, rxFinished, rxFrame, rxExc, rxLate>>

\* closed_ = true, receive_frame's last store.
RxMarkClosed ==
    /\ RxGoto("markClosed", "status")
    /\ closed' = TRUE
    /\ UNCHANGED <<closeReplied, audioSent, breaksSent,
                   rxErrorno, rxFinish, rxFinished, rxFrame, rxExc, rxLate>>

\* What a close frame makes of errorno_: a normal close leaves it zero, and so
\* does a status of 0, which is passed on like any other.
CloseErrorno(f) ==
    IF f.n = 0 THEN 904 ELSE IF ShortStatus(f) = NormalClose THEN 0 ELSE ShortStatus(f)

RxCloseStatus ==
    /\ RxGoto("status", "exit")
    /\ rxErrorno' = CloseErrorno(rxFrame)
    /\ UNCHANGED <<connVars, rxFinish, rxFinished, rxFrame, rxExc, rxLate>>

-----------------------------------------------------------------------------
\* Seeded fault: an error of rxfunc's does not end the loop.
RxCallbackGoesOn ==
    /\ \E e \in RxUserErrors \union {0} :
        /\ RxGoto("callback", "loop")
        /\ rxErrorno' = IF e # 0 THEN e ELSE rxErrorno
    /\ UNCHANGED <<connVars, rxFinish, rxFinished, rxFrame, rxExc, rxLate>>

\* rxfunc returned.
RxCallback ==
    /\ \E e \in RxUserErrors \union {0} :
        /\ RxGoto("callback", IF e # 0 THEN "exit" ELSE "loop")
        /\ rxErrorno' = IF e # 0 THEN e ELSE rxErrorno
    /\ UNCHANGED <<connVars, rxFinish, rxFinished, rxFrame, rxExc, rxLate>>

\* The catch blocks of run(), in their order.
RxCatchErrorno(e) ==
    CASE e = "WebSocket"    -> 800 + WsCode
      [] e = "Timeout"      -> 830
      [] e = "Net"          -> 790
      [] e = "UnknownFrame" -> 890
      [] e = "Disconnected" -> 791
      [] OTHER              -> 799

RxCatch ==
    /\ RxGoto("catch", "exit")
    /\ rxErrorno' = RxCatchErrorno(rxExc)
    /\ rxExc' = "none"
    /\ UNCHANGED <<connVars, rxFinish, rxFinished, rxFrame, rxLate>>

\* finished_ = true, the last thing run() does.
RxExit ==
    /\ RxGoto("exit", "done")
    /\ rxFinished' = TRUE
    /\ UNCHANGED <<connVars, rxErrorno, rxFinish, rxFrame, rxExc, rxLate>>

RxNext ==
    \/ RxLoop \/ RxCheckClosed
    \/ RxReceive \/ RxReceiveFails
    \/ RxPong \/ RxCloseReply \/ RxReplyFails \/ RxMarkClosed \/ RxCloseStatus
    \/ RxCallback \/ RxCatch \/ RxExit

=============================================================================
