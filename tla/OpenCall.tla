------------------------------ MODULE OpenCall ------------------------------
(***************************************************************************)
(* mimi_open: encoder, connection and controller are built one after the   *)
(* other, each of which may throw, and the handlers at the end turn the    *)
(* exception into an error number.  The application may call it again when *)
(* it fails, and closes what it got.                                       *)
(*                                                                         *)
(* Which objects exist is counted, since a failure may leave some behind.  *)
(* Allocation itself does not fail.                                        *)
(***************************************************************************)
EXTENDS Integers, Sequences, FiniteSetsExt

CONSTANTS
    WsCode,      \* Poco::Net::WebSocketException::code()
    MaxOpens     \* bound: calls of mimi_open

ASSUME OpenAssumption ==
    /\ WsCode \in 1..11     \* the codes of Poco::Net::WebSocket
    /\ MaxOpens \in Nat

-----------------------------------------------------------------------------
(* The exceptions of Poco, the encoder and the standard library, and the   *)
(* class each is derived from.                                             *)

Parent ==
    [SSLContext            |-> "SSL",
     InvalidCertificate    |-> "SSL",
     CertificateValidation |-> "SSL",
     SSLUnexpectedlyClosed |-> "SSL",
     SSL                   |-> "Net",
     WebSocket             |-> "Net",
     HostNotFound          |-> "DNS",
     ConnectionRefused     |-> "Net",
     ConnectionReset       |-> "Net",
     NoMessage             |-> "Net",
     DNS                   |-> "Net",
     Net                   |-> "IO",
     FileNotFound          |-> "IO",
     IO                    |-> "std",
     Timeout               |-> "std",
     EncoderInit           |-> "std",
     std                   |-> "any",
     other                 |-> "any"]

Exceptions == DOMAIN Parent

\* e and the classes it is derived from.
Bases[e \in Exceptions \union {"any"}] ==
    IF e = "any" THEN {"any"} ELSE {e} \union Bases[Parent[e]]

\* catch(...), "any", takes whatever is thrown.
IsA(e, class) == class = "any" \/ class \in Bases[e]

\* Seeded fault: the handler of all SSL errors stands before the special ones.
GeneralHandlerFirst ==
    << <<"SSL", 605>>, <<"SSLContext", 601>>, <<"InvalidCertificate", 602>>,
       <<"CertificateValidation", 603>>, <<"SSLUnexpectedlyClosed", 604>>,
       <<"WebSocket", 800 + WsCode>>, <<"HostNotFound", 701>>,
       <<"ConnectionRefused", 704>>, <<"ConnectionReset", 705>>, <<"NoMessage", 705>>,
       <<"Net", 799>>, <<"Timeout", 703>>, <<"FileNotFound", 601>>,
       <<"EncoderInit", 501>>, <<"std", 101>>, <<"any", 101>> >>

\* The handlers of mimi_open, in their order.
Handlers ==
    << <<"SSLContext", 601>>, <<"InvalidCertificate", 602>>,
       <<"CertificateValidation", 603>>, <<"SSLUnexpectedlyClosed", 604>>, <<"SSL", 605>>,
       <<"WebSocket", 800 + WsCode>>, <<"HostNotFound", 701>>,
       <<"ConnectionRefused", 704>>, <<"ConnectionReset", 705>>, <<"NoMessage", 705>>,
       <<"Net", 799>>, <<"Timeout", 703>>, <<"FileNotFound", 601>>,
       <<"EncoderInit", 501>>, <<"std", 101>>, <<"any", 101>> >>

\* The first handler that fits.
Caught(e) ==
    Handlers[Min({i \in DOMAIN Handlers : IsA(e, Handlers[i][1])})][2]

-----------------------------------------------------------------------------
Kinds == {"encoder", "impl", "controller"}

\* What constructing an encoder or a connection may throw.
EncoderFailures == {"EncoderInit"}
ConnectFailures == Exceptions \ {"EncoderInit"}

VARIABLES
    openPc,      \* how far mimi_open is
    callbacks,   \* which of on_tx_func, on_rx_func were given
    exc,         \* the exception that ended the last call
    errorno,     \* what was stored through the last argument
    handle,      \* the kind of controller behind the handle, or "none"
    alive,       \* how many objects of each kind exist
    opens        \* calls of mimi_open so far

openVars == <<openPc, callbacks, exc, errorno, handle, alive, opens>>

OpenPcs == {"ready", "probe", "contentType", "connect", "encoder", "controller", "catch"}

Init ==
    /\ openPc = "ready"
    /\ callbacks = {}
    /\ exc = "none"
    /\ errorno = 0
    /\ handle = "none"
    /\ alive = [k \in Kinds |-> 0]
    /\ opens = 0

OpenGoto(from, to) == openPc = from /\ openPc' = to

Created(k) == alive' = [alive EXCEPT ![k] = @ + 1]
Deleted(ks) == alive' = [k \in Kinds |-> IF k \in ks THEN alive[k] - 1 ELSE alive[k]]

\* Nothing but the objects and the place changes.
Building == UNCHANGED <<callbacks, exc, errorno, handle, opens>>

Call ==
    /\ handle = "none"
    /\ opens < MaxOpens
    /\ OpenGoto("ready", "probe")
    /\ callbacks' \in SUBSET {"tx", "rx"}
    /\ opens' = opens + 1
    /\ exc' = "none"
    /\ UNCHANGED <<errorno, handle, alive>>

\* An encoder is made only to ask for its content type.
CreateProbe == OpenGoto("probe", "contentType") /\ Created("encoder") /\ Building

\* Seeded fault: the encoder that was asked for its content type is kept.
KeepProbe == OpenGoto("contentType", "connect") /\ UNCHANGED alive /\ Building

DeleteProbe == OpenGoto("contentType", "connect") /\ Deleted({"encoder"}) /\ Building

Connect == OpenGoto("connect", "encoder") /\ Created("impl") /\ Building

CreateEncoder == OpenGoto("encoder", "controller") /\ Created("encoder") /\ Building

Throw(from, e) ==
    /\ OpenGoto(from, "catch")
    /\ exc' = e
    /\ UNCHANGED <<callbacks, errorno, handle, alive, opens>>

ProbeFails == \E e \in EncoderFailures : Throw("probe", e)

\* The constructor of the connection cleans up after itself.
ConnectFails == \E e \in ConnectFailures : Throw("connect", e)

\* The connection has no owner yet: nobody deletes it.
EncoderFails == \E e \in EncoderFailures : Throw("encoder", e)

\* Seeded fault: errorno is only written in case of an error.
CreateSilently ==
    /\ OpenGoto("controller", "ready")
    /\ Created("controller")
    /\ handle' = IF callbacks = {"tx", "rx"} THEN "async" ELSE "sync"
    /\ UNCHANGED <<callbacks, exc, errorno, opens>>

\* The controller takes connection and encoder over.  Without both callbacks
\* it is the synchronous one.
CreateController ==
    /\ OpenGoto("controller", "ready")
    /\ Created("controller")
    /\ handle' = IF callbacks = {"tx", "rx"} THEN "async" ELSE "sync"
    /\ errorno' = 0
    /\ UNCHANGED <<callbacks, exc, opens>>

\* The asynchronous controller has a thread pool, which may fail to start its
\* threads: the base class has both parts by then and deletes them.
ControllerFails ==
    /\ callbacks = {"tx", "rx"}
    /\ OpenGoto("controller", "catch")
    /\ Deleted({"impl", "encoder"})
    /\ exc' = "std"
    /\ UNCHANGED <<callbacks, errorno, handle, opens>>

Catch ==
    /\ OpenGoto("catch", "ready")
    /\ errorno' = Caught(exc)
    /\ UNCHANGED <<callbacks, exc, handle, alive, opens>>

\* Seeded fault: the application is left with a handle it has closed.
CloseKeepsHandle ==
    /\ openPc = "ready" /\ handle # "none"
    /\ Deleted(Kinds)
    /\ UNCHANGED <<openPc, callbacks, exc, errorno, handle, opens>>

\* mimi_close deletes the controller and what it owns.
Close ==
    /\ openPc = "ready" /\ handle # "none"
    /\ handle' = "none"
    /\ Deleted(Kinds)
    /\ UNCHANGED <<openPc, callbacks, exc, errorno, opens>>

Next ==
    \/ Call \/ CreateProbe \/ DeleteProbe \/ Connect \/ CreateEncoder \/ CreateController
    \/ ProbeFails \/ ConnectFails \/ EncoderFails \/ ControllerFails \/ Catch \/ Close

Spec == Init /\ [][Next]_openVars

-----------------------------------------------------------------------------
(* Correctness.                                                            *)

\* No object is deleted that is not there, and errors are those of the table.
OpenTypeOK ==
    /\ openPc \in OpenPcs
    /\ callbacks \subseteq {"tx", "rx"}
    /\ exc \in Exceptions \union {"none"}
    /\ errorno \in {0} \union {Handlers[i][2] : i \in DOMAIN Handlers}
    /\ handle \in {"none", "async", "sync"}
    /\ alive \in [Kinds -> Nat]
    /\ opens \in Nat

\* mimi_open gives a handle and errorno 0, or none and an error, also when an
\* earlier call had failed and left its error in the same variable.
HandleOrError ==
    openPc = "ready" =>
        /\ handle # "none" => errorno = 0
        /\ exc # "none" => errorno # 0 /\ handle = "none"

\* Between two calls there is one encoder and one controller for an open
\* handle and none otherwise, whatever step the calls before failed at, and
\* the connection of an open handle exists.  It says nothing of connections
\* without a handle, because EncoderFails leaves them.
NothingLeftBehind ==
    openPc = "ready" =>
        IF handle = "none" THEN alive["encoder"] = 0 /\ alive["controller"] = 0
        ELSE alive["encoder"] = 1 /\ alive["controller"] = 1 /\ alive["impl"] > 0

\* An exception is in flight until it is caught, and an error number is left
\* only where there is no handle.
ErrorInv ==
    /\ openPc \notin {"ready", "catch"} => exc = "none"
    /\ openPc = "catch" => exc # "none"
    /\ HandleOrError

\* How many objects there are at each place.
ObjectInv ==
    /\ alive \in [Kinds -> Nat]
    /\ openPc # "ready" => handle = "none"
    /\ alive["controller"] = IF handle = "none" THEN 0 ELSE 1
    /\ alive["encoder"] =
            IF handle # "none" \/ openPc \in {"contentType", "controller"} THEN 1 ELSE 0
    /\ handle # "none" \/ openPc \in {"encoder", "controller"} => alive["impl"] > 0

\* The classes that have a handler, and the nearest of them for e.
Handled == {Handlers[i][1] : i \in DOMAIN Handlers}

Nearest[e \in Exceptions \union {"any"}] ==
    IF e \in Handled THEN e ELSE Nearest[Parent[e]]

\* The code meant for an exception: that of the nearest class with a handler.
NearestCode(e) == Handlers[CHOOSE i \in DOMAIN Handlers : Handlers[i][1] = Nearest[e]][2]

\* No handler hides a later one for a class derived from its own: each
\* exception gets the code meant for it.
NoHandlerIsHidden ==
    openPc = "ready" /\ exc # "none" => errorno = NearestCode(exc)

-----------------------------------------------------------------------------
(* What the documentation says and the code does not do.                   *)

\* errorcodes.md: 901 when txfunc is not set.  (mimiio.h allows both callbacks
\* to be missing, for the synchronous API, but not one of them.)
MissingTxfuncIsReported ==
    openPc = "ready" /\ opens > 0 /\ callbacks = {"rx"} => errorno # 0

=============================================================================
