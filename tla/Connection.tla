---------------------------- MODULE Connection ----------------------------
(***************************************************************************)
(* mimiio::mimiioImpl: the WebSocket connection to the mimi(R) service.    *)
(*                                                                         *)
(* Several threads use one connection, so each access to it is a step of   *)
(* the thread that makes it: this module holds the connection's state and  *)
(* what its functions do with a frame, and the modules of the threads      *)
(* (TxWorker, RxWorker) say when they do it.                               *)
(*                                                                         *)
(* The service and Poco's WebSocket are outside the repository.  Any frame *)
(* may arrive at any receive, the peer may hang up at any receive, and any *)
(* call into the socket may throw.                                         *)
(***************************************************************************)
EXTENDS Integers

CONSTANTS
    CloseStatuses,    \* status codes the service closes with, as on the wire
    WsCode,           \* Poco::Net::WebSocketException::code()
    SendFailures,     \* what WebSocket::sendFrame may throw
    ReceiveFailures   \* what WebSocket::receiveFrame may throw

\* The exceptions the catch blocks of the library tell apart, as thrown by
\* Poco.  "IO" stands for every other exception.
NetworkFailures == {"WebSocket", "Timeout", "Net", "IO"}

NormalClose == 1000

ASSUME ConnectionAssumption ==
    /\ CloseStatuses \subseteq {s \in Nat : s < 65536}   \* any two bytes
    /\ WsCode \in Nat
    /\ SendFailures \subseteq NetworkFailures
    /\ ReceiveFailures \subseteq NetworkFailures

VARIABLES
    closed,        \* mimiioImpl::closed_
    closeReplied,  \* the reply to a close frame is on the wire
    audioSent,     \* units of encoded audio on the wire
    breaksSent     \* recog-break commands on the wire

connVars == <<closed, closeReplied, audioSent, breaksSent>>

ConnInit ==
    /\ closed = FALSE
    /\ closeReplied = FALSE
    /\ audioSent = 0
    /\ breaksSent = 0

(***************************************************************************)
(* Frames.  n is 0 for an empty payload and 1 for any other.  Op "OTHER"   *)
(* is any other flags value: a pong, a continuation, a frame without FIN.  *)
(* Op "NONE" is what receiveFrame returns when the peer has hung up: no    *)
(* payload, flags 0.  An empty continuation without FIN looks the same.    *)
(* The status of a close frame is as receive_frame reads it: of one with a *)
(* single byte the other one is whatever lies behind the buffer.           *)
(***************************************************************************)
Ops == {"TEXT", "BINARY", "PING", "CLOSE", "OTHER"}

Frame(op, n, status) == [op |-> op, n |-> n, status |-> status]

HangUp == Frame("NONE", 0, 0)
EmptyFragment == Frame("FRAGMENT", 0, 0)

\* What receive_frame takes for a connection that is gone.
FlagsZero == {HangUp, EmptyFragment}

\* The close frames whose status reads as 1000 and as 0.
NormalCloseFrame == Frame("CLOSE", 1, NormalClose)
ZeroCloseFrame == Frame("CLOSE", 1, 0)

Frames ==
    {Frame(op, n, 0) : op \in Ops \ {"CLOSE"}, n \in {0, 1}}
        \union {Frame("CLOSE", 1, s) : s \in CloseStatuses}
        \union FlagsZero \union {Frame("CLOSE", 0, 0)}

\* receive_frame sets opframe to a control type only for an empty ping and
\* for a close; a data frame must have a payload to get its type.
OpfType(f) ==
    CASE f.op = "CLOSE"              -> "CLOSE_FRAME"
      [] f.op = "PING" /\ f.n = 0    -> "PING_FRAME"
      [] f.op = "TEXT" /\ f.n # 0    -> "TEXT_FRAME"
      [] f.op = "BINARY" /\ f.n # 0  -> "BINARY_FRAME"
      [] OTHER                       -> "NA"

\* Seeded fault: a status above 32767 is taken for none.
DropHighStatus(f) == IF f.status < 32768 THEN f.status ELSE 0

\* The two bytes of the status are put into a short, which has a sign.
ShortStatus(f) == IF f.status < 32768 THEN f.status ELSE f.status - 65536

\* Without a payload and neither ping nor close, receive_frame throws.
Throws(f) == f.n = 0 /\ f.op \notin {"PING", "CLOSE"}

ThrownBy(f) == IF f \in FlagsZero THEN "Disconnected" ELSE "UnknownFrame"

\* Frames that receive_frame answers before it returns.
Answered(f) == OpfType(f) \in {"PING_FRAME", "CLOSE_FRAME"}

Exceptions == NetworkFailures \union {"Disconnected", "UnknownFrame", "Encoder"}

=============================================================================
