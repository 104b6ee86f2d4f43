------------------------------- MODULE Session -------------------------------
(***************************************************************************)
(* mimiio_tumbler_ex2: one Session object, one connection per utterance.   *)
(* The recorder's callback queues samples, opens and starts a connection   *)
(* when speech starts (closing the previous one first) and asks for the    *)
(* recog-break when it ends; txfunc empties the queue; main waits for      *)
(* Ctrl-C and closes.  All of them share the Session's fields.             *)
(*                                                                         *)
(* libmimixfe is outside the repository: its voice detection makes an      *)
(* utterance a SpeechStart, some InSpeech and a SpeechEnd callback, one at *)
(* a time; rec.stop() and its destructor return when no callback runs.     *)
(***************************************************************************)
EXTENDS ClientView, Sequences

CONSTANTS
    MaxUtterances,  \* bound: utterances
    MaxInSpeech,    \* bound: InSpeech callbacks of one utterance
    OpenRetries     \* mimi_open_retry_

ASSUME SessionAssumption ==
    /\ MaxUtterances \in Nat /\ MaxInSpeech \in Nat
    /\ OpenRetries \in Nat \ {0}

VARIABLES
    mio,              \* mio_: "null" or "set", also to a handle that is freed
    recogBreak,       \* sdata_.recog_break_
    queue,            \* sdata_.queue_, the oldest sample first
    pc,               \* where main and the recorder's thread are
    tries,            \* open(): calls of mimi_open that failed
    recorder,         \* "on", "stopped" by main or "failed"
    interrupted,      \* interrupt_flag_
    speech, inSpeech, \* the state of this callback; InSpeech callbacks so far
    utt, stream,      \* number of this utterance; of the one mio_ is for
    txPc, txBreak, left,            \* txfunc: its step, recog_break, pops to do
    crash,                          \* a call with a handle that is none
    broke, gaveUp, startFailed      \* history

sessionVars == <<mio, recogBreak, queue, tries>>
envVars == <<recorder, interrupted, speech, inSpeech, utt>>
txVars == <<txPc, txBreak, left, broke>>
vars == <<clientVars, sessionVars, pc, envVars, txVars, stream, crash, gaveUp, startFailed>>

Threads == {"main", "recorder"}

Pcs == {"args", "watch", "stop", "idle", "pushed", "close", "closing", "try", "start", "startRx", "startDone", "startClosing",
        "destroy", "destroying", "exited"}

SpeechStates == {"NonSpeech", "SpeechStart", "InSpeech", "SpeechEnd"}

Sample == [utt : 1..MaxUtterances, at : SpeechStates]

Init ==
    /\ ClientInit /\ handle = "null"
    /\ mio = "null"
    /\ recogBreak = FALSE
    /\ queue = <<>>
    /\ pc = [main |-> "args", recorder |-> "idle"]
    /\ tries = 0
    /\ recorder = "off"
    /\ interrupted = FALSE
    /\ speech = "NonSpeech"
    /\ inSpeech = 0
    /\ utt = 0
    /\ stream = 0
    /\ txPc = "none"
    /\ txBreak = FALSE
    /\ left = 0
    /\ crash = "none"
    /\ broke = {}
    /\ gaveUp = FALSE
    /\ startFailed = FALSE

Goto(t, from, to) == pc[t] = from /\ pc' = [pc EXCEPT ![t] = to]

\* Nothing is said of what happens after undefined behaviour.
Alive == crash = "none"

HistoryUnchanged == UNCHANGED <<crash, gaveUp, startFailed>>

Misuse(kind) ==
    /\ crash' = kind
    /\ UNCHANGED <<clientVars, sessionVars, pc, envVars, txVars, stream, gaveUp, startFailed>>

\* The handle that mio_ points to has been deleted.
Dangling == mio = "set" /\ handle = "freed"

-----------------------------------------------------------------------------
(* Session::close(), called by open() and by main.                         *)

\* It waits until the workers have ended, reads the error, calls mimi_close.
CloseMio(t) ==
    /\ Goto(t, "close", "closing")
    /\ mio = "set" /\ ~Dangling /\ ~Active
    /\ Close
    /\ HistoryUnchanged
    /\ UNCHANGED <<sessionVars, envVars, txVars, stream>>

\* mimi_is_active(mio_) on a null pointer or on a deleted handle.
CloseMisuse(t) ==
    /\ pc[t] = "close"
    /\ mio = "null" \/ Dangling
    /\ Misuse(IF mio = "null" THEN "nullActive" ELSE "dangling")

AfterClose(t) == IF t = "main" THEN "watch" ELSE "try"

\* Seeded fault: the break of the last utterance is still asked for.
CloseKeepsBreak(t) ==
    /\ Goto(t, "closing", AfterClose(t))
    /\ Free
    /\ mio' = "null"
    /\ HistoryUnchanged
    /\ UNCHANGED <<recogBreak, queue, tries, envVars, txVars, stream>>

CloseReturns(t) ==
    /\ Goto(t, "closing", AfterClose(t))
    /\ Free
    /\ mio' = "null"
    /\ recogBreak' = FALSE
    /\ HistoryUnchanged
    /\ UNCHANGED <<queue, tries, envVars, txVars, stream>>

SessionClose(t) ==
    CloseMio(t) \/ CloseMisuse(t) \/ CloseReturns(t)

-----------------------------------------------------------------------------
(* Session::open() and start(), in the recorder's callback.                *)

OpenOk ==
    /\ Goto("recorder", "try", "start")
    /\ Open
    /\ mio' = "set"
    /\ stream' = utt
    /\ tries' = 0
    /\ HistoryUnchanged
    /\ UNCHANGED <<recogBreak, queue, envVars, txVars>>

\* mimi_open failed: again, or, the return value being ignored, start().
OpenFails ==
    /\ Goto("recorder", "try", IF tries + 1 = OpenRetries THEN "start" ELSE "try")
    /\ tries' = IF tries + 1 = OpenRetries THEN 0 ELSE tries + 1
    /\ gaveUp' = (gaveUp \/ tries + 1 = OpenRetries)
    /\ UNCHANGED <<clientVars, mio, recogBreak, queue, envVars, txVars, stream, crash, startFailed>>

StartMisuse ==
    /\ pc["recorder"] = "start" /\ mio = "null"
    /\ Misuse("nullStart")

StartOk ==
    /\ mio = "set"
    /\ \/ Goto("recorder", "start", "startRx") /\ LaunchTx
       \/ Goto("recorder", "startRx", "startDone") /\ LaunchRx
       \/ Goto("recorder", "startDone", "idle") /\ Started
    /\ HistoryUnchanged
    /\ UNCHANGED <<sessionVars, envVars, txVars, stream>>

\* mimi_start failed: mimi_close(mio_).
StartFails ==
    /\ mio = "set"
    /\ Goto("recorder", "start", "startClosing") \/ Goto("recorder", "startRx", "startClosing")
    /\ Close
    /\ startFailed' = TRUE
    /\ UNCHANGED <<sessionVars, envVars, txVars, stream, crash, gaveUp>>

\* Seeded fault: it waits for the end of the stream first, as close() does.
StartCloseAwaitsEnd ==
    \/ pc["recorder"] = "startClosing" /\ Active /\ UNCHANGED vars
    \/ /\ Goto("recorder", "startClosing", "idle")
       /\ Free /\ ~Active
       /\ HistoryUnchanged
       /\ UNCHANGED <<sessionVars, envVars, txVars, stream>>

\* mio_ keeps its value.
StartCloseReturns ==
    /\ Goto("recorder", "startClosing", "idle")
    /\ Free
    /\ HistoryUnchanged
    /\ UNCHANGED <<sessionVars, envVars, txVars, stream>>

-----------------------------------------------------------------------------
(* The recorder's callback.                                                *)

\* The buffer is queued: a sample, or nothing.
Callback(state) ==
    /\ recorder = "on"
    /\ Goto("recorder", "idle", "pushed")
    /\ speech' = state
    /\ utt' = IF state = "SpeechStart" THEN utt + 1 ELSE utt
    /\ inSpeech' = IF state = "InSpeech" THEN inSpeech + 1 ELSE 0
    /\ queue' \in {queue, Append(queue, [utt |-> utt', at |-> state])}
    /\ HistoryUnchanged
    /\ UNCHANGED <<clientVars, mio, recogBreak, tries, recorder, interrupted, txVars, stream>>

Quiet == speech \in {"NonSpeech", "SpeechEnd"}

SpeechStart == Quiet /\ utt < MaxUtterances /\ Callback("SpeechStart")
InSpeech == ~Quiet /\ inSpeech < MaxInSpeech /\ Callback("InSpeech")
SpeechEnd == ~Quiet /\ Callback("SpeechEnd")

\* After the samples: open and start, or ask for the break.
HandleState ==
    /\ Goto("recorder", "pushed", IF speech # "SpeechStart" THEN "idle"
                                  ELSE IF mio = "set" THEN "close" ELSE "try")
    /\ recogBreak' = (recogBreak \/ speech = "SpeechEnd")
    /\ HistoryUnchanged
    /\ UNCHANGED <<clientVars, mio, queue, tries, envVars, txVars, stream>>

RecorderThread ==
    \/ HandleState \/ SessionClose("recorder")
    \/ OpenOk \/ OpenFails
    \/ StartOk \/ StartFails \/ StartMisuse \/ StartCloseReturns

-----------------------------------------------------------------------------
(* main, and what may happen to it.                                        *)

MainGoto(from, to) ==
    /\ Goto("main", from, to)
    /\ HistoryUnchanged
    /\ UNCHANGED <<clientVars, sessionVars, speech, inSpeech, utt, txVars, stream, interrupted>>

\* The recorder runs, or main has returned: usage, a format that does not
\* exist, an exception of the recorder's.
Setup ==
    \/ MainGoto("args", "watch") /\ recorder' = "on"
    \/ MainGoto("args", "exited") /\ UNCHANGED recorder

\* rec.isActive() && interrupt_flag_
NoticeInterrupt ==
    /\ recorder = "on" /\ interrupted
    /\ MainGoto("watch", "stop") /\ UNCHANGED recorder

\* Seeded fault: rec.stop() is missing, the recorder goes on.
CloseWhileRecording ==
    MainGoto("stop", "close") /\ UNCHANGED recorder

\* rec.stop() returns; then session.close().
RecStop ==
    /\ pc["recorder"] = "idle"
    /\ MainGoto("stop", "close")
    /\ recorder' = "stopped"

\* The loop ends; the recorder is destroyed before the session is.
LeaveLoop ==
    /\ recorder \in {"stopped", "failed"} /\ pc["recorder"] = "idle"
    /\ MainGoto("watch", "destroy") /\ UNCHANGED recorder

\* ~Session
DestroyNothing ==
    /\ mio = "null"
    /\ MainGoto("destroy", "exited") /\ UNCHANGED recorder

DestroyMisuse == pc["main"] = "destroy" /\ Dangling /\ Misuse("dangling")

DestroyClose ==
    /\ mio = "set"
    /\ \/ Goto("main", "destroy", "destroying") /\ Close
       \/ Goto("main", "destroying", "exited") /\ Free
    /\ HistoryUnchanged
    /\ UNCHANGED <<sessionVars, envVars, txVars, stream>>

MainThread ==
    \/ Setup \/ NoticeInterrupt \/ RecStop \/ SessionClose("main") \/ LeaveLoop
    \/ DestroyNothing \/ DestroyMisuse \/ DestroyClose

EnvOnly ==
    /\ HistoryUnchanged
    /\ UNCHANGED <<clientVars, sessionVars, pc, speech, inSpeech, utt, txVars, stream>>

Interrupt ==
    /\ pc["main"] \notin {"args", "exited"} /\ ~interrupted
    /\ interrupted' = TRUE
    /\ EnvOnly /\ UNCHANGED recorder

RecorderFails ==
    /\ recorder = "on"
    /\ recorder' = "failed"
    /\ EnvOnly /\ UNCHANGED interrupted

-----------------------------------------------------------------------------
(* txfunc, within one call.                                                *)

TxOnly ==
    /\ HistoryUnchanged
    /\ UNCHANGED <<mio, recogBreak, tries, pc, envVars, stream>>

\* Seeded fault: recog_break_ is read when the samples have been popped.
ReturnedLate ==
    /\ TxReturn(recogBreak)
    /\ txPc' = "none"
    /\ broke' = IF recogBreak THEN broke \union {stream} ELSE broke

Returned ==
    /\ TxReturn(txBreak)
    /\ txPc' = "none"
    /\ broke' = IF txBreak THEN broke \union {stream} ELSE broke

TxReadBreak ==
    /\ tx = "call" /\ txPc = "none"
    /\ txBreak' = recogBreak
    /\ txPc' = "size"
    /\ TxOnly /\ UNCHANGED <<clientVars, queue, left, broke>>

\* Seeded fault: it waits for something to send.
TxAwaitsSample ==
    /\ txPc = "size"
    /\ IF queue = <<>> THEN UNCHANGED <<left, txPc>> ELSE left' = Len(queue) /\ txPc' = "pop"
    /\ TxOnly /\ UNCHANGED <<clientVars, broke, queue, txBreak>>

TxReadSize ==
    /\ txPc = "size"
    /\ left' = Len(queue)
    /\ IF queue = <<>> THEN Returned ELSE txPc' = "pop" /\ UNCHANGED <<clientVars, broke>>
    /\ TxOnly /\ UNCHANGED <<queue, txBreak>>

\* Seeded fault: the size is read again for every pop.
TxPopBeyondSize ==
    /\ txPc = "pop"
    /\ left' = Len(queue)
    /\ queue' = Tail(queue)
    /\ IF left = 1 THEN Returned ELSE UNCHANGED <<clientVars, txPc, broke>>
    /\ TxOnly /\ UNCHANGED txBreak

\* One pop; the timeout would be the end of it.
TxPop ==
    /\ txPc = "pop" /\ queue # <<>>
    /\ queue' = Tail(queue)
    /\ left' = left - 1
    /\ IF left = 1 THEN Returned ELSE UNCHANGED <<clientVars, txPc, broke>>
    /\ TxOnly /\ UNCHANGED txBreak

Txfunc == TxReadBreak \/ TxReadSize \/ TxPop

SessionUnchanged ==
    /\ HistoryUnchanged
    /\ UNCHANGED <<sessionVars, pc, envVars, txVars, stream>>

LibraryCode == 790
LibraryStep ==
    /\ Library \/ (err' = LibraryCode /\ Report)
    /\ SessionUnchanged

Over == (~Alive \/ pc["main"] = "exited") /\ UNCHANGED vars

Next ==
    \/ Alive /\ (\/ RecorderThread \/ MainThread \/ Txfunc \/ LibraryStep
                 \/ SpeechStart \/ InSpeech \/ SpeechEnd
                 \/ Interrupt \/ RecorderFails)
    \/ Over

Spec == Init /\ [][Next]_vars

(***************************************************************************)
(* The threads run and txfunc returns; who speaks stops some time; the     *)
(* service closes after the break.  After a Ctrl-C within an utterance     *)
(* there is no break: what ends the session is the 30 second timeout of    *)
(* the socket, once nothing is sent to the service any more.               *)
(***************************************************************************)
ServiceEnds ==
    /\ Ended(tx) \/ (recorder = "stopped" /\ queue = <<>>)
    /\ RxGiveUp

Fairness ==
    /\ WF_vars(Alive /\ RecorderThread) /\ WF_vars(Alive /\ MainThread)
    /\ WF_vars(Alive /\ SpeechEnd)
    /\ WF_vars(Alive /\ Txfunc)
    /\ WF_vars(Alive /\ TxAsk /\ SessionUnchanged)
    /\ WF_vars(Alive /\ TxEnd /\ SessionUnchanged)
    /\ WF_vars(Alive /\ RxEnd /\ SessionUnchanged)
    /\ WF_vars(Alive /\ (ServiceEnds \/ RxMustLeave) /\ SessionUnchanged)
    /\ SF_vars(Alive /\ TxMustLeave /\ SessionUnchanged)

FairSpec == Spec /\ Fairness

-----------------------------------------------------------------------------
(* Correctness.                                                            *)

\* Every variable stays within the values its field or local can take; in
\* particular txfunc never pops more samples than are queued, so that its
\* pops never wait and -100 is never reported.
SessionTypeOK ==
    /\ handle \in Handles /\ tx \in TxStates /\ rx \in RxStates /\ err \in Int
    /\ mio \in {"null", "set"} /\ recogBreak \in BOOLEAN
    /\ queue \in Seq(Sample) /\ tries \in 0..(OpenRetries - 1)
    /\ pc \in [Threads -> Pcs]
    /\ recorder \in {"off", "on", "stopped", "failed"} /\ interrupted \in BOOLEAN
    /\ speech \in SpeechStates /\ inSpeech \in 0..MaxInSpeech
    /\ utt \in 0..MaxUtterances /\ stream \in 0..utt
    /\ txPc \in {"none", "size", "pop"} /\ txBreak \in BOOLEAN
    /\ left \in 0..Len(queue)
    /\ crash \in {"none", "nullStart", "nullActive", "dangling"}
    /\ broke \subseteq 1..MaxUtterances
    /\ gaveUp \in BOOLEAN /\ startFailed \in BOOLEAN

\* Both threads call the library only as ClientView lets them, but for the
\* misuses that are actions of their own: a call finds the handle in the state
\* that the call is for, whatever the other thread has done meanwhile.
CallsAreLegal ==
    /\ \A t \in Threads :
            /\ pc[t] = "close" /\ mio = "set" => handle \in {"started", "freed"}
            /\ pc[t] = "closing" => handle = "closing" /\ mio = "set"
    /\ pc["recorder"] = "try" => handle \in {"null", "freed"} /\ mio = "null"
    /\ pc["recorder"] = "start" /\ mio = "set" => handle = "open" /\ tx = "off" /\ rx = "off"
    /\ pc["recorder"] = "startRx" => handle = "open" /\ mio = "set" /\ tx # "off" /\ rx = "off"
    /\ pc["recorder"] = "startDone" => handle = "open" /\ mio = "set" /\ rx # "off"
    /\ pc["recorder"] = "startClosing" => handle = "closing"
    /\ pc["main"] = "destroy" /\ mio = "set" => handle \in {"started", "freed"}
    /\ pc["main"] = "destroying" => handle = "closing"

\* A handle that is none is used only after mimi_open failed three times or
\* mimi_start failed, which are ignored, or when Ctrl-C comes before anybody
\* has spoken; without these the two threads never trip over each other.
MisuseExplained ==
    /\ crash = "nullStart" => gaveUp
    /\ crash = "dangling" => startFailed
    /\ crash = "nullActive" => interrupted /\ utt = 0

\* The recog-break of a stream is sent after its utterance has ended, and
\* takes with it every sample of that utterance that is still queued.
BreakTakesAll ==
    [][broke' # broke =>
        /\ stream < utt \/ speech = "SpeechEnd"
        /\ \A i \in 1..Len(queue') : queue'[i].utt > stream]_vars

\* A sample goes to the stream of its own utterance.  Two kinds do not: those
\* of a SpeechStart callback, which are queued before open() has closed the
\* previous stream, and those left over by a stream that ended without break.
StraysAreBounded ==
    [][Len(queue') < Len(queue) =>
        LET x == Head(queue)
        IN  \/ x.utt = stream
            \/ x.utt = stream + 1 /\ x.at = "SpeechStart"
            \/ x.utt < stream /\ x.utt \notin broke]_vars

\* A callback of the recorder returns, also one that waits for the previous
\* stream to end: the recorder is never stuck.
CallbackReturns == pc["recorder"] # "idle" ~> (pc["recorder"] = "idle" \/ ~Alive)

\* Ctrl-C ends the program whatever the state of the utterance.
InterruptEnds == interrupted ~> (pc["main"] = "exited" \/ ~Alive)

-----------------------------------------------------------------------------
(* The inductive invariant behind the safety properties.                   *)

\* main closes and destroys only when the recorder's callback cannot run.
MainInv ==
    /\ pc["main"] \in {"args", "watch", "stop", "close", "closing", "destroy", "destroying", "exited"}
    /\ recorder = "on" => pc["main"] \in {"watch", "stop"}
    /\ recorder \in {"off", "stopped"} \/ pc["main"] \notin {"watch", "stop"} => pc["recorder"] = "idle"
    /\ pc["main"] \in {"stop", "close", "closing"} => interrupted
    /\ pc["main"] \in {"close", "closing"} => recorder = "stopped"

\* Between callbacks there is a handle, once somebody has spoken; where the
\* callback is tells why there may be none.
HandleInv ==
    /\ utt = 0 => pc["recorder"] = "idle" /\ speech = "NonSpeech" /\ mio = "null"
    /\ speech = "NonSpeech" => utt = 0
    /\ mio = "null" /\ utt > 0 =>
            \/ pc["recorder"] = "pushed" /\ speech = "SpeechStart"
            \/ pc["recorder"] \in {"try", "start"}
            \/ recorder = "stopped" /\ pc["main"] \in {"watch", "destroy", "exited"}
    /\ pc["recorder"] = "start" /\ mio = "null" => gaveUp
    /\ pc["recorder"] = "startClosing" => startFailed
    /\ Dangling => startFailed \/ pc["main"] = "exited"
    /\ handle = "null" => tx = "off"
    /\ handle # "null" => stream > 0
    /\ handle = "freed" => tx \in {"off", "done"}

\* The stream is one behind only while the callback of a SpeechStart has not
\* opened the next one; a recog_break_ set for one stream is reset before that.
StreamInv ==
    /\ stream # utt =>
            /\ stream + 1 = utt /\ speech = "SpeechStart"
            /\ pc["recorder"] \in {"pushed", "close", "closing", "try", "start"}
    /\ pc["recorder"] = "try" \/ (pc["recorder"] = "start" /\ stream # utt) => mio = "null"
    /\ recogBreak => mio = "set"
    /\ recogBreak =>
            \/ speech = "SpeechEnd"
            \/ stream # utt /\ pc["recorder"] \in {"pushed", "close", "closing"}
    /\ pc["recorder"] \in {"close", "closing", "try"} => speech = "SpeechStart"

\* A txfunc that has seen the break pops everything that is not of a later
\* utterance.
TxInv ==
    /\ txPc # "none" => tx = "call"
    /\ txPc = "pop" => left > 0
    /\ txPc # "none" /\ txBreak => stream # utt \/ speech = "SpeechEnd"
    /\ txPc = "pop" /\ txBreak => \A i \in (left + 1)..Len(queue) : queue[i].utt > stream

\* Nothing is queued for an utterance whose break has been sent.
QueueInv ==
    /\ \A i \in 1..Len(queue) :
            /\ queue[i].utt <= utt /\ queue[i].utt \notin broke
            /\ queue[i].utt > stream => queue[i].at = "SpeechStart"
    /\ \A s \in broke : s <= stream /\ (s < utt \/ speech = "SpeechEnd")

\* Whose step the handle waits for when it is neither started nor gone; only
\* one thread at a time is at a call.
CallInv ==
    /\ CallsAreLegal
    /\ mio = "set" => handle # "null"
    /\ mio = "null" => handle \in {"null", "freed"}
    /\ handle = "open" => pc["recorder"] \in {"start", "startRx", "startDone"}
    /\ handle = "closing" =>
            \/ pc["recorder"] \in {"closing", "startClosing"}
            \/ pc["main"] \in {"closing", "destroying"}

SessionInv ==
    /\ SessionTypeOK /\ MisuseExplained
    /\ MainInv /\ HandleInv /\ StreamInv /\ TxInv /\ QueueInv

=============================================================================
