----------------------------- MODULE SyncSession -----------------------------
(***************************************************************************)
(* mimiioController and mimiioSynchronousAPIController: a connection that  *)
(* was opened without callbacks.  One thread of the application sends,     *)
(* breaks and receives; nothing runs in the background.  Each call is one  *)
(* step, with everything receive_frame does inside it.                     *)
(*                                                                         *)
(* errorno belongs to the controller and closed to the connection: no      *)
(* monitor keeps the two in step as it does for callbacks.                 *)
(***************************************************************************)
EXTENDS Connection

CONSTANT MaxSends     \* bound: units of audio, and breaks

ASSUME SyncAssumption == MaxSends \in Nat

VARIABLES
    errorno, started,   \* mimiioController::errorno_, started_
    lastCall,           \* history: the last call of the application
    lastResult,         \* history: its result, a number of bytes as in Frame
    lastFrame,          \* history: the frame it sent or took, if it did
    closedBy            \* history: the frame that closed the connection

syncVars == <<connVars, errorno, started, lastCall, lastResult, lastFrame, closedBy>>

Calls == {"none", "start", "send", "break", "receive"}

NoFrame == Frame("NONE", 1, 0)

Init ==
    /\ ConnInit
    /\ errorno = 0
    /\ started = FALSE
    /\ lastCall = "none"
    /\ lastResult = 0
    /\ lastFrame = NoFrame
    /\ closedBy = NoFrame

IsActive == ~closed

StreamState == IF ~started THEN "WAIT" ELSE IF closed THEN "CLOSED" ELSE "BOTH"

\* What the application gets back from a call.
Returns(call, result, frame) ==
    /\ lastCall' = call
    /\ lastResult' = result
    /\ lastFrame' = frame

\* Seeded fault: the code of a WebSocket exception is not moved to the 800s.
CatchRawCode(e) ==
    CASE e = "WebSocket"    -> WsCode
      [] e = "Timeout"      -> 830
      [] e = "Net"          -> 790
      [] e = "UnknownFrame" -> 890
      [] e = "Disconnected" -> 791
      [] OTHER              -> 799

\* The catch blocks of send(), send_break() and receive(), in their order.
CatchErrorno(e) ==
    CASE e = "WebSocket"    -> 800 + WsCode
      [] e = "Timeout"      -> 830
      [] e = "Net"          -> 790
      [] e = "UnknownFrame" -> 890
      [] e = "Disconnected" -> 791
      [] OTHER              -> 799

\* Seeded fault: a handler that only writes to the log.
FailsSilently(call, e, frame) ==
    /\ Returns(call, 0, frame)
    /\ UNCHANGED <<errorno, started>>

\* A call that ends in a catch block returns 0.
Fails(call, e, frame) ==
    /\ errorno' = CatchErrorno(e)
    /\ Returns(call, 0, frame)
    /\ UNCHANGED started

-----------------------------------------------------------------------------
\* start() has nothing to start.
Start ==
    /\ started' = TRUE
    /\ Returns("start", 0, NoFrame)
    /\ UNCHANGED <<connVars, errorno, closedBy>>

\* A call on a connection that is closed returns 0 and leaves errorno_ alone.
CallWhenClosed(call) ==
    /\ closed
    /\ Returns(call, 0, NoFrame)
    /\ UNCHANGED <<connVars, errorno, started, closedBy>>

\* Seeded fault: send() does not look at closed().
SendWhenClosed ==
    /\ \E n \in {0, 1} :
        /\ audioSent' = audioSent + n
        /\ Returns("send", n, Frame("BINARY", n, 0))
    /\ audioSent' <= MaxSends
    /\ UNCHANGED <<closed, closeReplied, breaksSent, errorno, started, closedBy>>

\* The result is the number of bytes sent, 0 for an empty buffer.
Send ==
    /\ ~closed
    /\ \E n \in {0, 1} :
        /\ audioSent' = audioSent + n
        /\ Returns("send", n, Frame("BINARY", n, 0))
    /\ audioSent' <= MaxSends
    /\ UNCHANGED <<closed, closeReplied, breaksSent, errorno, started, closedBy>>

SendFails ==
    /\ ~closed
    /\ \E e \in SendFailures : Fails("send", e, NoFrame)
    /\ UNCHANGED <<connVars, closedBy>>

SendBreak ==
    /\ ~closed
    /\ breaksSent < MaxSends
    /\ breaksSent' = breaksSent + 1
    /\ Returns("break", 0, NoFrame)
    /\ UNCHANGED <<closed, closeReplied, audioSent, errorno, started, closedBy>>

SendBreakFails ==
    /\ ~closed
    /\ \E e \in SendFailures : Fails("break", e, NoFrame)
    /\ UNCHANGED <<connVars, closedBy>>

-----------------------------------------------------------------------------
\* set_blocking comes before the check of closed(), so that it may fail on a
\* connection that is closed; receiveFrame may only fail on one that is not.
ReceiveFails ==
    /\ \/ Fails("receive", "Net", NoFrame)
       \/ ~closed /\ \E e \in ReceiveFailures : Fails("receive", e, NoFrame)
    /\ UNCHANGED <<connVars, closedBy>>

\* receive(buffer, false) with nothing to read: receiveFrame returns a negative
\* number and flags 0, which has no type and is passed on.
ReceiveAgain ==
    /\ ~closed
    /\ Returns("receive", -1, NoFrame)
    /\ UNCHANGED <<connVars, errorno, started, closedBy>>

\* receive_frame throws; what looks like a hang-up sets closed_ before it does.
ReceiveNothing ==
    /\ ~closed
    /\ \E f \in Frames :
        /\ Throws(f)
        /\ closed' = (f \in FlagsZero)
        /\ closedBy' = IF f \in FlagsZero THEN f ELSE closedBy
        /\ Fails("receive", ThrownBy(f), f)
    /\ UNCHANGED <<closeReplied, audioSent, breaksSent>>

\* Text, binary, and whatever receive_frame gives no type.
ReceiveData ==
    /\ ~closed
    /\ \E f \in Frames :
        /\ ~Throws(f) /\ ~Answered(f)
        /\ Returns("receive", 1, f)
    /\ UNCHANGED <<connVars, errorno, started, closedBy>>

ReceivePing ==
    /\ ~closed
    /\ \E f \in Frames :
        /\ OpfType(f) = "PING_FRAME"
        /\ Returns("receive", 0, f)
    /\ UNCHANGED <<connVars, errorno, started, closedBy>>

\* Seeded fault: the status is only passed on when it is an error, as the rx
\* worker does it.
CloseStatusOrZero(f) ==
    IF f.n = 0 THEN 904 ELSE IF ShortStatus(f) = NormalClose THEN 0 ELSE ShortStatus(f)

\* What a close frame makes of errorno_; 1000 is passed on like any other, and
\* so is 0, which takes an error back that was there.
CloseStatus(f) == IF f.n = 0 THEN 904 ELSE ShortStatus(f)

ReceiveClose ==
    /\ ~closed
    /\ \E f \in Frames :
        /\ OpfType(f) = "CLOSE_FRAME"
        /\ errorno' = CloseStatus(f)
        /\ closedBy' = f
        /\ Returns("receive", 0, f)
    /\ closed' = TRUE
    /\ closeReplied' = TRUE
    /\ UNCHANGED <<audioSent, breaksSent, started>>

\* The reply to a ping or to a close frame fails: closed_ stays as it is, and
\* the status of the close frame is lost.
ReceiveReplyFails ==
    /\ ~closed
    /\ \E f \in Frames, e \in SendFailures : Answered(f) /\ Fails("receive", e, f)
    /\ UNCHANGED <<connVars, closedBy>>

Receive ==
    \/ ReceiveFails \/ ReceiveAgain \/ ReceiveNothing \/ ReceiveData
    \/ ReceivePing \/ ReceiveClose \/ ReceiveReplyFails

Next ==
    \/ Start
    \/ \E call \in {"send", "break", "receive"} : CallWhenClosed(call)
    \/ Send \/ SendFails \/ SendBreak \/ SendBreakFails
    \/ Receive

Spec == Init /\ [][Next]_syncVars

-----------------------------------------------------------------------------
(* Correctness.                                                            *)

ErrorCodes ==
    {0, 790, 791, 799, 830, 890, 904, 800 + WsCode}
        \union {ShortStatus(Frame("CLOSE", 1, s)) : s \in CloseStatuses}

\* errorno only holds codes of the table in errorcodes.md, or a close status as
\* it was read.
SyncTypeOK ==
    /\ closed \in BOOLEAN /\ closeReplied \in BOOLEAN /\ started \in BOOLEAN
    /\ audioSent \in Nat /\ breaksSent \in Nat
    /\ errorno \in ErrorCodes
    /\ lastCall \in Calls /\ lastResult \in {-1, 0, 1}
    /\ lastFrame \in Frames \union {NoFrame}
    /\ closedBy \in Frames \union {NoFrame}

\* A connection never closes without mimi_error saying so, whatever calls are
\* made afterwards: errorno_ may change, but not back to zero.  The one way to a
\* closed connection without an error is the illegal close status 0, which is
\* stored as it is (mimiioController.cpp:108; errorcodes.md promises 904).
ClosedHasReason == closed => errorno # 0 \/ closedBy = ZeroCloseFrame

\* send() and receive() return 0 for "nothing done" as well as for a failure.
\* When either comes back with 0 there is an error to be read, unless what came
\* in was a ping, what was to be sent was empty, or the service has closed the
\* connection with status 0.
ZeroIsExplained ==
    lastCall \in {"send", "receive"} /\ lastResult = 0 =>
        \/ errorno # 0
        \/ OpfType(lastFrame) = "PING_FRAME"
        \/ lastCall = "send" /\ lastFrame = Frame("BINARY", 0, 0)
        \/ closedBy = ZeroCloseFrame

\* Once the close frame is answered nothing else goes out.
QuietAfterCloseReply ==
    [][closeReplied => UNCHANGED <<closeReplied, audioSent, breaksSent>>]_syncVars

\* The invariant behind them.
SyncInv ==
    /\ closeReplied => closed
    /\ ClosedHasReason
    /\ ZeroIsExplained

=============================================================================
