----------------------------- MODULE StreamLife -----------------------------
(***************************************************************************)
(* What mimiio.h promises of one connection: the stream state moves from   *)
(* WAIT to the state its two directions are in and never back, an error    *)
(* once reported stays, and mimi_close releases the handle after every     *)
(* thread has ended, which they all do.                                    *)
(***************************************************************************)
EXTENDS Integers

VARIABLES
    state,       \* MIMIIO_STREAM_STATE
    err,         \* mimi_error
    launched,    \* threads of the session that were started
    live,        \* those that have not ended
    handle       \* of the application: "open", "closing" or "freed"

lifeVars == <<state, err, launched, live, handle>>

Threads == {"monitor", "tx", "rx"}

Init ==
    /\ state = "WAIT"
    /\ err = 0
    /\ launched = {}
    /\ live = {}
    /\ handle = "open"

\* A direction is open while its worker lives.
StateOf(threads) ==
    CASE {"tx", "rx"} \subseteq threads           -> "BOTH"
      [] "tx" \in threads /\ "rx" \notin threads  -> "SEND"
      [] "tx" \notin threads /\ "rx" \in threads  -> "RECV"
      [] OTHER                                    -> "CLOSED"

\* mimi_start starts a thread; none is ever started twice.
Launch(t) ==
    /\ handle = "open" /\ state = "WAIT"
    /\ t \notin launched
    /\ launched' = launched \union {t}
    /\ live' = live \union {t}
    /\ UNCHANGED <<state, err, handle>>

\* mimi_start succeeds, all threads having been started.
Start ==
    /\ handle = "open" /\ state = "WAIT"
    /\ launched = Threads
    /\ state' = StateOf(live)
    /\ UNCHANGED <<err, launched, live, handle>>

\* A thread ends.  Without the application's close the monitor only ends when
\* it has reported an error.
End(t) ==
    /\ t \in live
    /\ t = "monitor" => err # 0 \/ handle = "closing"
    /\ live' = live \ {t}
    /\ state' = IF state = "WAIT" THEN "WAIT" ELSE StateOf(live \ {t})
    /\ UNCHANGED <<err, launched, handle>>

\* The monitor makes the first error known.
Report ==
    /\ "monitor" \in live
    /\ err = 0
    /\ err' \in Int \ {0}
    /\ UNCHANGED <<state, launched, live, handle>>

Close ==
    /\ handle = "open"
    /\ handle' = "closing"
    /\ UNCHANGED <<state, err, launched, live>>

Free ==
    /\ handle = "closing"
    /\ live = {}
    /\ handle' = "freed"
    /\ UNCHANGED <<state, err, launched, live>>

Next == (\E t \in Threads : Launch(t) \/ End(t)) \/ Start \/ Report \/ Close \/ Free

EndWhileClosing == handle = "closing" /\ \E t \in Threads : End(t)

\* Once the session is started the stream state is what its workers make it,
\* no handle is freed under a thread, and the monitor ends with an error told
\* or the application's close.
StateIsTrue ==
    /\ live \subseteq launched /\ launched \subseteq Threads
    /\ state # "WAIT" => launched = Threads /\ state = StateOf(live)
    /\ handle = "freed" => live = {}
    /\ "monitor" \in launched \ live => err # 0 \/ handle # "open"

\* A stream is never WAIT again, no direction opens again, an error stays, and
\* nothing at all changes after mimi_close.
OneWay ==
    [][/\ state # "WAIT" => state' # "WAIT" /\ live' \subseteq live
       /\ err # 0 => err' = err
       /\ handle # "freed"]_lifeVars

\* What never happens: without what must eventually happen.
Safety == Init /\ [][Next]_lifeVars

Spec ==
    /\ Safety
    /\ WF_lifeVars(EndWhileClosing) /\ WF_lifeVars(Free)

=============================================================================
