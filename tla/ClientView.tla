----------------------------- MODULE ClientView -----------------------------
(***************************************************************************)
(* One connection with callbacks as its application meets it: what the     *)
(* handle allows, when txfunc and rxfunc are called, what mimi_is_active   *)
(* and mimi_error return.  Everything else of the library is left out.     *)
(*                                                                         *)
(* AsyncSession implements this module; the example programs are built on  *)
(* it, so that what is shown of them holds with the threads behind it.     *)
(***************************************************************************)
EXTENDS Integers, TLAPS

VARIABLES
    handle,   \* the MIMI_IO the application's calls go to
    tx,       \* the tx worker, as txfunc sees it
    rx,       \* the rx worker, as rxfunc sees it
    err       \* mimi_error

clientVars == <<handle, tx, rx, err>>

\* "null": mimi_open has given no handle yet, "closing": mimi_close is waiting
\* for the threads.
Handles == {"null", "open", "started", "closing", "freed"}

\* "call": in txfunc, "leaving": txfunc will not be called any more.
TxStates == {"off", "busy", "call", "leaving", "done"}
RxStates == {"off", "on", "leaving", "done"}

ClientInit ==
    /\ handle \in {"null", "open"}
    /\ tx = "off"
    /\ rx = "off"
    /\ err = 0

Ended(worker) == worker \in {"leaving", "done"}

Active == ~(tx = "done" /\ rx = "done")

-----------------------------------------------------------------------------
(* Calls of the application.                                               *)

\* mimi_open gives a handle; a handle from before is gone or was closed.
Open ==
    /\ handle \in {"null", "freed"}
    /\ handle' = "open"
    /\ tx' = "off"
    /\ rx' = "off"
    /\ err' = 0

\* mimi_start starts the workers; when it fails, those that run go on running.
LaunchTx ==
    /\ handle = "open" /\ tx = "off"
    /\ tx' = "busy"
    /\ UNCHANGED <<handle, rx, err>>

LaunchRx ==
    /\ handle = "open" /\ tx # "off" /\ rx = "off"
    /\ rx' = "on"
    /\ UNCHANGED <<handle, tx, err>>

Started ==
    /\ handle = "open" /\ rx # "off"
    /\ handle' = "started"
    /\ UNCHANGED <<tx, rx, err>>

\* mimi_close: begins, and returns when the workers have ended.
Close ==
    /\ handle \in {"open", "started"}
    /\ handle' = "closing"
    /\ UNCHANGED <<tx, rx, err>>

Free ==
    /\ handle = "closing"
    /\ tx \in {"off", "done"} /\ rx \in {"off", "done"}
    /\ handle' = "freed"
    /\ UNCHANGED <<tx, rx, err>>

-----------------------------------------------------------------------------
(* The library's threads.                                                  *)

TxAsk ==
    /\ tx = "busy"
    /\ tx' = "call"
    /\ UNCHANGED <<handle, rx, err>>

\* txfunc returns; with a break or an error it has been called the last time.
TxReturn(last) ==
    /\ tx = "call"
    /\ tx' = IF last THEN "leaving" ELSE "busy"
    /\ UNCHANGED <<handle, rx, err>>

\* Anything else that ends the tx worker.
TxGiveUp ==
    /\ tx = "busy"
    /\ tx' = "leaving"
    /\ UNCHANGED <<handle, rx, err>>

TxEnd ==
    /\ tx = "leaving"
    /\ tx' = "done"
    /\ UNCHANGED <<handle, rx, err>>

\* The service closes, goes quiet or is gone, or the application closes.
RxGiveUp ==
    /\ rx = "on"
    /\ rx' = "leaving"
    /\ UNCHANGED <<handle, tx, err>>

RxEnd ==
    /\ rx = "leaving"
    /\ rx' = "done"
    /\ UNCHANGED <<handle, tx, err>>

\* An error of a worker gets to mimi_error, once.
Report ==
    /\ handle \notin {"null", "freed"}
    /\ Ended(tx) \/ Ended(rx)
    /\ err = 0
    /\ err' \in Int \ {0}
    /\ UNCHANGED <<handle, tx, rx>>

\* What the library's threads do outside of the callbacks.
Library == TxAsk \/ TxGiveUp \/ TxEnd \/ RxGiveUp \/ RxEnd

ClientNext ==
    \/ Open \/ LaunchTx \/ LaunchRx \/ Started \/ Close \/ Free
    \/ \E last \in BOOLEAN : TxReturn(last)
    \/ Library \/ Report

ClientSafety == ClientInit /\ [][ClientNext]_clientVars

-----------------------------------------------------------------------------
(* What must happen: a worker that leaves ends; the tx worker leaves when  *)
(* the rx worker has ended, whatever ended it; both leave when mimi_close  *)
(* is called or an error is known, and then mimi_close returns.            *)

Told == handle = "closing" \/ err # 0

TxMustLeave == (Told \/ rx = "done") /\ TxGiveUp
RxMustLeave == Told /\ RxGiveUp

\* A txfunc that keeps the worker busy may not keep it from leaving.
ClientFairness ==
    /\ WF_clientVars(TxEnd) /\ WF_clientVars(RxEnd) /\ WF_clientVars(Free)
    /\ SF_clientVars(TxMustLeave) /\ WF_clientVars(RxMustLeave)

ClientSpec == ClientSafety /\ ClientFairness

-----------------------------------------------------------------------------
(* What a user may rely on, and that it follows from the steps above.      *)

\* mimi_start starts tx before rx and both before it succeeds; before
\* mimi_open and after mimi_close no callback runs; mimi_error tells of nothing
\* but the end of a worker.
ClientConsistent ==
    /\ handle \in Handles /\ tx \in TxStates /\ rx \in RxStates
    /\ rx # "off" => tx # "off"
    /\ handle = "started" => rx # "off"
    /\ handle = "null" => tx = "off" /\ rx = "off" /\ err = 0
    /\ handle = "freed" => tx \in {"off", "done"} /\ rx \in {"off", "done"}
    /\ err # 0 => Ended(tx) \/ Ended(rx)

\* On one handle: after its last call txfunc is never called again, a worker
\* that ends ends for good, mimi_is_active never becomes true again and
\* mimi_error keeps the first error.
NothingIsTakenBack ==
    [][handle # "freed" =>
          /\ Ended(tx) => Ended(tx')
          /\ Ended(rx) => Ended(rx')
          /\ ~Active => ~Active'
          /\ err # 0 => err' = err]_clientVars

\* Each step keeps the handle, the workers and the error consistent.
LEMMA ClientStep ==
    ASSUME ClientConsistent, [ClientNext]_clientVars
    PROVE  ClientConsistent'
<1> USE DEF ClientConsistent, Ended, TxStates, RxStates, Handles
<1>1. CASE Open
  BY <1>1 DEF Open
<1>2. CASE LaunchTx \/ LaunchRx \/ Started
  BY <1>2 DEF LaunchTx, LaunchRx, Started
<1>3. CASE Close \/ Free
  BY <1>3 DEF Close, Free
<1>4. CASE \E last \in BOOLEAN : TxReturn(last)
  BY <1>4 DEF TxReturn
<1>5. CASE Library
  BY <1>5 DEF Library, TxAsk, TxGiveUp, TxEnd, RxGiveUp, RxEnd
<1>6. CASE Report
  BY <1>6 DEF Report
<1>7. CASE UNCHANGED clientVars
  BY <1>7 DEF clientVars
<1> QED
  BY <1>1, <1>2, <1>3, <1>4, <1>5, <1>6, <1>7 DEF ClientNext

\* No step on a handle takes back an end or an error: mimi_open, which sets
\* everything to its beginning, gives another handle.
LEMMA ClientGoesOn ==
    ASSUME ClientConsistent, ClientNext, handle # "freed"
    PROVE  /\ Ended(tx) => Ended(tx')
           /\ Ended(rx) => Ended(rx')
           /\ ~Active => ~Active'
           /\ err # 0 => err' = err
<1> USE DEF ClientConsistent, Ended, Active
<1>1. CASE Open
  BY <1>1 DEF Open
<1>2. CASE LaunchTx \/ LaunchRx \/ Started
  BY <1>2 DEF LaunchTx, LaunchRx, Started
<1>3. CASE Close \/ Free \/ Report
  BY <1>3 DEF Close, Free, Report
<1>4. CASE \E last \in BOOLEAN : TxReturn(last)
  BY <1>4 DEF TxReturn
<1>5. CASE Library
  BY <1>5 DEF Library, TxAsk, TxGiveUp, TxEnd, RxGiveUp, RxEnd
<1> QED
  BY <1>1, <1>2, <1>3, <1>4, <1>5 DEF ClientNext

\* Whatever an application does that calls the library in the order given
\* above, it may rely on both.
THEOREM ClientMayRely == ClientSafety => []ClientConsistent /\ NothingIsTakenBack
<1>1. ClientInit => ClientConsistent
  BY DEF ClientInit, ClientConsistent, TxStates, RxStates, Handles
<1> QED
  BY <1>1, ClientStep, ClientGoesOn, PTL DEF ClientSafety, NothingIsTakenBack

=============================================================================
