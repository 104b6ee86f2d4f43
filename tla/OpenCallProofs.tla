--------------------------- MODULE OpenCallProofs ---------------------------
(***************************************************************************)
(* Proofs about OpenCall, for any number of calls of mimi_open.            *)
(***************************************************************************)
EXTENDS OpenCall, TLAPS, WellFoundedInduction

\* Before the first call there is no object.
LEMMA OpenInit == Init => ObjectInv
BY DEF Init, ObjectInv, Kinds

\* Each step of mimi_open keeps count of what it made.
LEMMA OpenStep ==
    ASSUME ObjectInv, [Next]_openVars
    PROVE  ObjectInv'
<1> USE DEF ObjectInv, Kinds, OpenGoto, Created, Deleted, Building
<1>1. CASE Call
  BY <1>1 DEF Call
<1>2. CASE CreateProbe
  BY <1>2 DEF CreateProbe
<1>3. CASE DeleteProbe
  BY <1>3 DEF DeleteProbe
<1>4. CASE Connect
  BY <1>4 DEF Connect
<1>5. CASE CreateEncoder
  BY <1>5 DEF CreateEncoder
<1>6. CASE CreateController
  BY <1>6 DEF CreateController
<1>7. CASE ProbeFails \/ ConnectFails \/ EncoderFails
  BY <1>7 DEF ProbeFails, ConnectFails, EncoderFails, Throw
<1>8. CASE Catch
  BY <1>8 DEF Catch
<1>9. CASE Close
  BY <1>9 DEF Close
<1>10. CASE ControllerFails
  BY <1>10 DEF ControllerFails
<1>11. CASE UNCHANGED openVars
  BY <1>11 DEF openVars
<1> QED
  BY <1>1, <1>2, <1>3, <1>4, <1>5, <1>6, <1>7, <1>8, <1>9, <1>10, <1>11 DEF Next

\* However many calls of mimi_open fail, and wherever, no encoder and no
\* controller is left behind, and an open handle has all its parts.
THEOREM OpenLeavesNothing == Spec => []NothingLeftBehind
<1>1. ObjectInv /\ [Next]_openVars => ObjectInv'
  BY OpenStep
<1>2. ObjectInv => NothingLeftBehind
  BY DEF ObjectInv, NothingLeftBehind
<1> QED
  BY OpenInit, <1>1, <1>2, PTL DEF Spec

-----------------------------------------------------------------------------
(* Errors.                                                                 *)

\* A set of places has a first one.
LEMMA FirstExists ==
    ASSUME NEW S \in SUBSET Nat, S # {}
    PROVE  Min(S) \in S
<1> DEFINE R == {ss \in Nat \X Nat : ss[1] < ss[2]}
<1>1. IsWellFoundedOn(R, Nat)
  BY NatLessThanWellFounded DEF OpToRel
<1>2. PICK x \in S : \A y \in S : <<y, x>> \notin R
  <2> HIDE DEF R
  <2> QED
    BY <1>1, WFMin
<1>3. ASSUME NEW y \in S PROVE x <= y
  <2>1. <<y, x>> \notin R /\ <<y, x>> \in Nat \X Nat
    BY <1>2
  <2> QED
    BY <2>1
<1> QED
  BY <1>3 DEF Min

\* Each exception finds a handler, the last one at the latest, and none of
\* them takes zero for an error.
LEMMA CaughtIsError ==
    ASSUME NEW e
    PROVE  Caught(e) \in {Handlers[i][2] : i \in DOMAIN Handlers} /\ Caught(e) # 0
<1> DEFINE Fitting == {i \in DOMAIN Handlers : IsA(e, Handlers[i][1])}
<1>1. DOMAIN Handlers = 1..16 /\ Handlers[16][1] = "any"
  BY DEF Handlers
<1>2. \A i \in 1..16 : Handlers[i][2] # 0
  BY OpenAssumption DEF OpenAssumption, Handlers
<1>3. 16 \in Fitting /\ Fitting \in SUBSET Nat
  BY <1>1 DEF IsA
<1>4. Min(Fitting) \in Fitting
  <2> HIDE DEF Fitting
  <2> QED
    BY <1>3, FirstExists
<1> QED
  BY <1>1, <1>2, <1>4 DEF Caught

\* Each step of mimi_open keeps the types and says what became of the call.
LEMMA ErrorStep ==
    ASSUME OpenTypeOK, ErrorInv, ObjectInv, [Next]_openVars
    PROVE  OpenTypeOK' /\ ErrorInv'
<1> USE DEF OpenTypeOK, ErrorInv, HandleOrError, ObjectInv, Kinds, OpenPcs, OpenGoto, Created,
            Deleted, Building
<1>1. CASE Call
  BY <1>1 DEF Call
<1>2. CASE CreateProbe \/ Connect \/ CreateEncoder
  <2>1. UNCHANGED <<callbacks, exc, errorno, handle, opens>> /\ openPc' \in OpenPcs
    BY <1>2 DEF CreateProbe, Connect, CreateEncoder
  <2>2. alive' \in [Kinds -> Nat]
    BY <1>2 DEF CreateProbe, Connect, CreateEncoder
  <2>3. openPc' \notin {"ready", "catch"} /\ openPc \notin {"ready", "catch"}
    BY <1>2 DEF CreateProbe, Connect, CreateEncoder
  <2> QED
    BY <2>1, <2>2, <2>3
<1>3. CASE DeleteProbe
  BY <1>3 DEF DeleteProbe
<1>4. CASE CreateController
  BY <1>4 DEF CreateController
<1>5. CASE ProbeFails \/ ConnectFails \/ EncoderFails
  BY <1>5 DEF ProbeFails, ConnectFails, EncoderFails, Throw, EncoderFailures, ConnectFailures,
       Exceptions, Parent
<1>6. CASE Catch
  BY <1>6, CaughtIsError DEF Catch
<1>7. CASE Close
  BY <1>7 DEF Close
<1>8. CASE ControllerFails
  <2>1. alive' \in [Kinds -> Nat]
    BY <1>8 DEF ControllerFails
  <2>2. exc' = "std" /\ openPc' = "catch" /\ UNCHANGED <<callbacks, errorno, handle, opens>>
    BY <1>8 DEF ControllerFails
  <2>3. exc' \in Exceptions
    BY <2>2 DEF Exceptions, Parent
  <2> QED
    BY <2>1, <2>2, <2>3
<1>9. CASE UNCHANGED openVars
  BY <1>9 DEF openVars
<1> QED
  BY <1>1, <1>2, <1>3, <1>4, <1>5, <1>6, <1>7, <1>8, <1>9 DEF Next

\* The types, the exception in flight and the objects, after any calls.
LEMMA OpenInductive == Spec => [](OpenTypeOK /\ ErrorInv /\ ObjectInv)
<1>1. Init => OpenTypeOK /\ ErrorInv
  BY DEF Init, OpenTypeOK, OpenPcs, Kinds, ErrorInv, HandleOrError
<1>2. OpenTypeOK /\ ErrorInv /\ ObjectInv /\ [Next]_openVars
        => (OpenTypeOK /\ ErrorInv /\ ObjectInv)'
  BY OpenStep, ErrorStep
<1> QED
  BY OpenInit, <1>1, <1>2, PTL DEF Spec

\* Objects are never deleted twice, and an error is always one of the table.
THEOREM OpenTyped == Spec => []OpenTypeOK
BY OpenInductive, PTL

\* Whatever is thrown, and however often the application tries again with the
\* same variable, it gets a handle or an error.
THEOREM OpenGivesHandleOrError == Spec => []HandleOrError
<1>1. ErrorInv => HandleOrError
  BY DEF ErrorInv
<1> QED
  BY OpenInductive, <1>1, PTL


-----------------------------------------------------------------------------
(* Handlers.  The classes of the hierarchy that others are derived from,   *)
(* with all their bases.                                                   *)

Inner == {"SSL", "DNS", "Net", "IO", "std", "any"}

BasesOfInner(c) ==
    CASE c = "any" -> {"any"}
      [] c = "std" -> {"std", "any"}
      [] c = "IO"  -> {"IO", "std", "any"}
      [] c = "Net" -> {"Net", "IO", "std", "any"}
      [] c = "DNS" -> {"DNS", "Net", "IO", "std", "any"}
      [] c = "SSL" -> {"SSL", "Net", "IO", "std", "any"}

\* The hierarchy, one class at a time.
LEMMA Hierarchy ==
    /\ Exceptions = {"SSLContext", "InvalidCertificate", "CertificateValidation",
                     "SSLUnexpectedlyClosed", "SSL", "WebSocket", "HostNotFound",
                     "ConnectionRefused", "ConnectionReset", "NoMessage", "DNS", "Net",
                     "FileNotFound", "IO", "Timeout", "EncoderInit", "std", "other"}
    /\ Parent["SSLContext"] = "SSL" /\ Parent["InvalidCertificate"] = "SSL"
    /\ Parent["CertificateValidation"] = "SSL" /\ Parent["SSLUnexpectedlyClosed"] = "SSL"
    /\ Parent["SSL"] = "Net" /\ Parent["WebSocket"] = "Net"
    /\ Parent["HostNotFound"] = "DNS" /\ Parent["ConnectionRefused"] = "Net"
    /\ Parent["ConnectionReset"] = "Net" /\ Parent["NoMessage"] = "Net"
    /\ Parent["DNS"] = "Net" /\ Parent["Net"] = "IO"
    /\ Parent["FileNotFound"] = "IO" /\ Parent["IO"] = "std"
    /\ Parent["Timeout"] = "std" /\ Parent["EncoderInit"] = "std"
    /\ Parent["std"] = "any" /\ Parent["other"] = "any"
BY DEF Exceptions, Parent

\* Whatever a class is derived from, others are too.
LEMMA ParentIsInner == \A e \in Exceptions : Parent[e] \in Inner
BY Hierarchy DEF Inner

\* The recursion that defines Bases has a solution, so Bases is one.
LEMMA BasesUnfold ==
    \A e \in Exceptions \union {"any"} :
        Bases[e] = IF e = "any" THEN {"any"} ELSE {e} \union Bases[Parent[e]]
<1> DEFINE E == Exceptions \union {"any"}
           Solves(f) == f = [e \in E |-> IF e = "any" THEN {"any"}
                                         ELSE {e} \union f[Parent[e]]]
           f == [e \in E |-> IF e \in Inner THEN BasesOfInner(e)
                             ELSE {e} \union BasesOfInner(Parent[e])]
<1>1. Inner \subseteq E
  BY Hierarchy DEF Inner
<1>2. ASSUME NEW e \in E
      PROVE  f[e] = IF e = "any" THEN {"any"} ELSE {e} \union f[Parent[e]]
  <2>1. CASE e \in Inner
    <3>1. /\ BasesOfInner("any") = {"any"}
          /\ BasesOfInner("std") = {"std"} \union BasesOfInner("any")
          /\ BasesOfInner("IO") = {"IO"} \union BasesOfInner("std")
          /\ BasesOfInner("Net") = {"Net"} \union BasesOfInner("IO")
          /\ BasesOfInner("DNS") = {"DNS"} \union BasesOfInner("Net")
          /\ BasesOfInner("SSL") = {"SSL"} \union BasesOfInner("Net")
      BY DEF BasesOfInner
    <3>2. \A c \in Inner : f[c] = BasesOfInner(c)
      BY <1>1
    <3>3. BasesOfInner(e) = IF e = "any" THEN {"any"} ELSE {e} \union BasesOfInner(Parent[e])
      BY <2>1, <3>1, Hierarchy DEF Inner
    <3>4. e # "any" => Parent[e] \in Inner
      BY <2>1, Hierarchy DEF Inner
    <3> QED
      BY <2>1, <3>2, <3>3, <3>4
  <2>2. CASE e \notin Inner
    <3>1. e \in Exceptions /\ e # "any"
      BY <2>2 DEF Inner
    <3>2. Parent[e] \in Inner /\ Parent[e] \in E
      BY <3>1, <1>1, ParentIsInner
    <3> QED
      BY <2>2, <3>1, <3>2
  <2> QED
    BY <2>1, <2>2
<1>3. Solves(f)
  BY <1>2
<1>4. Solves(Bases)
  <2>1. Bases = CHOOSE g : Solves(g)
    BY DEF Bases
  <2> HIDE DEF f, Solves
  <2> QED
    BY <1>3, <2>1
<1> QED
  BY <1>4

\* The handlers of mimi_open by their place.
LEMMA HandlerClasses ==
    /\ DOMAIN Handlers = 1..16
    /\ Handlers[1][1] = "SSLContext" /\ Handlers[2][1] = "InvalidCertificate"
    /\ Handlers[3][1] = "CertificateValidation" /\ Handlers[4][1] = "SSLUnexpectedlyClosed"
    /\ Handlers[5][1] = "SSL" /\ Handlers[6][1] = "WebSocket"
    /\ Handlers[7][1] = "HostNotFound" /\ Handlers[8][1] = "ConnectionRefused"
    /\ Handlers[9][1] = "ConnectionReset" /\ Handlers[10][1] = "NoMessage"
    /\ Handlers[11][1] = "Net" /\ Handlers[12][1] = "Timeout"
    /\ Handlers[13][1] = "FileNotFound" /\ Handlers[14][1] = "EncoderInit"
    /\ Handlers[15][1] = "std" /\ Handlers[16][1] = "any"
BY DEF Handlers

\* An exception without a handler of its own is derived from a class with one.
LEMMA HandledClasses ==
    /\ Handled \subseteq Exceptions \union {"any"}
    /\ "any" \in Handled
    /\ \A e \in Exceptions \ Handled : Parent[e] \in Handled
<1>1. Handled = {"SSLContext", "InvalidCertificate", "CertificateValidation",
                 "SSLUnexpectedlyClosed", "SSL", "WebSocket", "HostNotFound",
                 "ConnectionRefused", "ConnectionReset", "NoMessage", "Net", "Timeout",
                 "FileNotFound", "EncoderInit", "std", "any"}
  <2>1. \A i \in 1..16 : \/ i = 1 \/ i = 2 \/ i = 3 \/ i = 4 \/ i = 5 \/ i = 6 \/ i = 7
                         \/ i = 8 \/ i = 9 \/ i = 10 \/ i = 11 \/ i = 12 \/ i = 13
                         \/ i = 14 \/ i = 15 \/ i = 16
    OBVIOUS
  <2> QED
    BY <2>1, HandlerClasses DEF Handled
<1>2. \A e \in Exceptions \ Handled : e \in {"DNS", "IO", "other"}
  BY <1>1, Hierarchy
<1> QED
  BY <1>1, <1>2, Hierarchy

\* The recursion that defines Nearest has a solution, so Nearest is one.
LEMMA NearestUnfold ==
    \A e \in Exceptions \union {"any"} :
        Nearest[e] = IF e \in Handled THEN e ELSE Nearest[Parent[e]]
<1> DEFINE E == Exceptions \union {"any"}
           Solves(f) == f = [e \in E |-> IF e \in Handled THEN e ELSE f[Parent[e]]]
           f == [e \in E |-> IF e \in Handled THEN e ELSE Parent[e]]
<1>1. Solves(f)
  BY HandledClasses
<1>2. Solves(Nearest)
  <2>1. Nearest = CHOOSE g : Solves(g)
    BY DEF Nearest
  <2> HIDE DEF f, Solves
  <2> QED
    BY <1>1, <2>1
<1> QED
  BY <1>2

\* No two handlers are for the same class.
LEMMA HandlersDiffer ==
    \A i, j \in DOMAIN Handlers : Handlers[i][1] = Handlers[j][1] => i = j
<1> SUFFICES ASSUME NEW i \in 1..16, NEW j \in 1..16, i < j
             PROVE  Handlers[i][1] # Handlers[j][1]
  BY HandlerClasses
<1>1. \/ j = 2 \/ j = 3 \/ j = 4 \/ j = 5 \/ j = 6 \/ j = 7 \/ j = 8 \/ j = 9 \/ j = 10
      \/ j = 11 \/ j = 12 \/ j = 13 \/ j = 14 \/ j = 15 \/ j = 16
  OBVIOUS
<1> QED
  BY <1>1, HandlerClasses

\* A handler stands behind all those for the classes derived from its own: of
\* two, the earlier one is not for a base of the later one's class.
LEMMA SpecialHandlersFirst ==
    ASSUME NEW j \in DOMAIN Handlers, NEW i \in 1..(j - 1)
    PROVE  ~IsA(Handlers[j][1], Handlers[i][1])
<1>1. \/ j = 2 \/ j = 3 \/ j = 4 \/ j = 5 \/ j = 6 \/ j = 7 \/ j = 8 \/ j = 9 \/ j = 10
      \/ j = 11 \/ j = 12 \/ j = 13 \/ j = 14 \/ j = 15 \/ j = 16
  BY HandlerClasses
<1>2. /\ Bases["any"] = {"any"}
      /\ Bases["std"] = {"std", "any"}
      /\ Bases["IO"] = {"IO", "std", "any"}
      /\ Bases["Net"] = {"Net", "IO", "std", "any"}
      /\ Bases["DNS"] = {"DNS", "Net", "IO", "std", "any"}
      /\ Bases["SSL"] = {"SSL", "Net", "IO", "std", "any"}
  BY BasesUnfold, Hierarchy
<1>3. Bases[Handlers[j][1]] \subseteq {Handlers[j][1]} \union Bases[Parent[Handlers[j][1]]]
  BY <1>1, BasesUnfold, Hierarchy, HandlerClasses
<1>4. Handlers[i][1] # Handlers[j][1] /\ Handlers[i][1] # "any"
  BY HandlersDiffer, HandlerClasses
<1> QED
  BY <1>1, <1>2, <1>3, <1>4, HandlerClasses, Hierarchy DEF IsA

\* A class with a handler gets that handler's code, and it is the code meant
\* for it.
LEMMA OwnHandler ==
    ASSUME NEW j \in DOMAIN Handlers
    PROVE  LET e == Handlers[j][1]
           IN  Caught(e) = Handlers[j][2] /\ NearestCode(e) = Handlers[j][2]
<1> DEFINE e == Handlers[j][1]
           Fitting == {i \in DOMAIN Handlers : IsA(e, Handlers[i][1])}
<1>1. e \in Handled /\ e \in Exceptions \union {"any"}
  BY HandledClasses DEF Handled
<1>2. j \in Fitting
  <2>1. e \in Bases[e]
    BY <1>1, BasesUnfold
  <2> QED
    BY <2>1 DEF IsA
<1>3. \A i \in Fitting : j <= i
  <2> SUFFICES ASSUME NEW i \in Fitting, i < j PROVE FALSE
    BY HandlerClasses
  <2>1. i \in 1..(j - 1)
    BY HandlerClasses
  <2> QED
    BY <2>1, SpecialHandlersFirst
<1>4. Min(Fitting) = j
  <2>1. Fitting \subseteq Nat
    BY HandlerClasses
  <2> HIDE DEF Fitting
  <2> QED
    BY <1>2, <1>3, <2>1 DEF Min
<1>5. Caught(e) = Handlers[j][2]
  BY <1>4 DEF Caught
<1>6. Nearest[e] = e
  BY <1>1, NearestUnfold
<1>7. (CHOOSE i \in DOMAIN Handlers : Handlers[i][1] = Nearest[e]) = j
  BY <1>6, HandlersDiffer
<1> QED
  BY <1>5, <1>7 DEF NearestCode

\* A class without a handler is caught as the class it is derived from.
LEMMA NoOwnHandler ==
    ASSUME NEW e \in Exceptions, e \notin Handled
    PROVE  Caught(e) = Caught(Parent[e]) /\ NearestCode(e) = NearestCode(Parent[e])
<1>1. e # "any"
  BY Hierarchy
<1>2. Bases[e] = {e} \union Bases[Parent[e]] /\ Nearest[e] = Nearest[Parent[e]]
  BY <1>1, BasesUnfold, NearestUnfold
<1>3. \A i \in DOMAIN Handlers :
          IsA(e, Handlers[i][1]) <=> IsA(Parent[e], Handlers[i][1])
  BY <1>2 DEF IsA, Handled
<1>4. {i \in DOMAIN Handlers : IsA(e, Handlers[i][1])}
          = {i \in DOMAIN Handlers : IsA(Parent[e], Handlers[i][1])}
  BY <1>3
<1> QED
  BY <1>2, <1>4 DEF Caught, NearestCode

\* Whatever is thrown, it is caught with the code meant for it.
LEMMA CaughtAsMeant ==
    ASSUME NEW e \in Exceptions
    PROVE  Caught(e) = NearestCode(e)
<1>1. ASSUME NEW c \in Handled PROVE Caught(c) = NearestCode(c)
  BY OwnHandler DEF Handled
<1>2. CASE e \in Handled
  BY <1>1, <1>2
<1>3. CASE e \notin Handled
  <2>1. Parent[e] \in Handled
    BY <1>3, HandledClasses
  <2> QED
    BY <1>1, <1>3, <2>1, NoOwnHandler
<1> QED
  BY <1>2, <1>3

\* No exception gets a code meant for another class, however many calls of
\* mimi_open went before, and whatever codes WebSocketException has.
THEOREM OpenHidesNoHandler == Spec => []NoHandlerIsHidden
<1>1. Init => NoHandlerIsHidden
  BY DEF Init, NoHandlerIsHidden
<1>2. OpenTypeOK /\ ErrorInv /\ NoHandlerIsHidden /\ [Next]_openVars => NoHandlerIsHidden'
  <2> SUFFICES ASSUME OpenTypeOK, ErrorInv, NoHandlerIsHidden, [Next]_openVars
               PROVE  NoHandlerIsHidden'
    OBVIOUS
  <2> USE DEF NoHandlerIsHidden, ErrorInv, OpenGoto
  <2>1. CASE Catch
    <3>1. exc \in Exceptions /\ errorno' = Caught(exc) /\ exc' = exc
      BY <2>1 DEF Catch, OpenTypeOK
    <3> QED
      BY <3>1, CaughtAsMeant
  <2>2. CASE CreateController
    BY <2>2 DEF CreateController
  <2>3. CASE Close \/ UNCHANGED openVars
    BY <2>3 DEF Close, openVars
  <2>4. CASE Call \/ CreateProbe \/ DeleteProbe \/ Connect \/ CreateEncoder
    BY <2>4 DEF Call, CreateProbe, DeleteProbe, Connect, CreateEncoder
  <2>5. CASE ProbeFails \/ ConnectFails \/ EncoderFails \/ ControllerFails
    BY <2>5 DEF ProbeFails, ConnectFails, EncoderFails, ControllerFails, Throw
  <2> QED
    BY <2>1, <2>2, <2>3, <2>4, <2>5 DEF Next
<1> QED
  BY <1>1, <1>2, OpenInductive, PTL DEF Spec

=============================================================================
