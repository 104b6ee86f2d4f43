------------------------------ MODULE Programs ------------------------------
(***************************************************************************)
(* The three example programs that use one connection for their whole run: *)
(* mimiio_file sends a file, mimiio_pa what PortAudio records, and         *)
(* mimiio_tumbler_ex1 what the Tumbler's recorder gives.  Threads: main,   *)
(* the recorder's callback, and the library's, which call txfunc.          *)
(*                                                                         *)
(* PortAudio and libmimixfe are outside the repository: each of their      *)
(* calls may fail, and recording may stop by itself.  rec.stop() and       *)
(* Pa_CloseStream return when no callback runs any more.                   *)
(***************************************************************************)
EXTENDS ClientView, Sequences

CONSTANTS
    Progs,        \* the programs, out of "file", "pa", "ex1"
    MaxChunks,    \* bound: full chunks in the file
    MaxSamples,   \* bound: samples recorded
    ChunkSamples  \* samples the pa program's txfunc collects in one call

ASSUME ProgramsAssumption ==
    /\ Progs \subseteq {"file", "pa", "ex1"}
    /\ MaxChunks \in Nat /\ MaxSamples \in Nat
    /\ ChunkSamples \in Nat \ {0}

VARIABLES
    prog,         \* the program that runs
    pc,           \* where main is
    code,         \* main's return value, once it is known
    reported,     \* what main read with mimi_error
    source,       \* the input file, the PortAudio stream or the recorder
    unread,       \* full chunks of the file that are still to be read
    queue,        \* SampleQueue, the oldest sample first
    recorded,     \* history: number of samples recorded
    interrupted,  \* interrupt_flag_
    popped, left, \* txfunc: samples it has, samples it still wants
    sizing,       \* txfunc of ex1: between the interrupt flag and size()
    timedOut      \* history: txfunc has reported -100

ioVars == <<source, unread, queue, recorded, interrupted, popped, left, sizing, timedOut>>
vars == <<clientVars, prog, pc, code, reported, ioVars>>

Sources == {"off", "ready", "open", "on", "complete", "stopped", "failed"}

Pcs == {"args", "input", "device", "openStream", "startStream", "open", "start",
        "startRx", "startDone", "loop", "inner", "closeStream", "error", "close",
        "closing", "release", "exited", "usage"}

NoCode == -1
Samples == {0, 1}   \* 0 is digital silence

Init ==
    /\ ClientInit /\ handle = "null"
    /\ prog \in Progs
    /\ pc = "args"
    /\ code = NoCode
    /\ reported = 0
    /\ source = "off"
    /\ unread \in 0..MaxChunks
    /\ queue = <<>>
    /\ recorded = 0
    /\ interrupted = FALSE
    /\ popped = 0
    /\ left = 0
    /\ sizing = FALSE
    /\ timedOut = FALSE

-----------------------------------------------------------------------------
(* main, up to the connection.                                             *)

At(p, from) == prog = p /\ pc = from /\ UNCHANGED prog

BufferUnchanged ==
    UNCHANGED <<unread, queue, recorded, interrupted, popped, left, sizing, timedOut>>

\* Usage is printed and 0 returned, or the format is unknown and 1 returned.
Arguments(p, next) ==
    /\ At(p, "args")
    /\ \/ pc' = next /\ code' = code
       \/ pc' = "usage" /\ code' \in {0, 1}
    /\ UNCHANGED <<clientVars, reported, ioVars>>

FileArguments == Arguments("file", "input")
PaArguments == Arguments("pa", "device")
Ex1Arguments == Arguments("ex1", "device")

\* Acquire the source, or clean up and return one of the codes.
Acquire(p, from, state, next, codes) ==
    /\ At(p, from)
    /\ \/ source' = state /\ pc' = next /\ code' = code
       \/ source' = "off" /\ pc' = "exited" /\ code' \in codes
    /\ BufferUnchanged
    /\ UNCHANGED <<clientVars, reported>>

FileOpenInput == Acquire("file", "input", "on", "open", {1})

\* Every failure goes through Pa_Terminate, which closes open streams.
PaInitialize == Acquire("pa", "device", "ready", "openStream", {1})
PaOpenStream == Acquire("pa", "openStream", "open", "startStream", {1})
PaStartStream == Acquire("pa", "startStream", "on", "open", {1})

\* The recorder is made, the handler installed, the recorder started; what
\* is thrown ends in 2, and the recorder is destroyed with its scope.
Ex1StartRecorder == Acquire("ex1", "device", "on", "open", {1, 2})

-----------------------------------------------------------------------------
(* main: mimi_open and mimi_start.                                         *)

MainOnly == UNCHANGED <<prog, reported, ioVars>>

MimiOpen ==
    /\ pc = "open" /\ pc' = "start"
    /\ Open
    /\ MainOnly /\ UNCHANGED code

\* The source is given back, main returns.
OpenFails(p, c) ==
    /\ At(p, "open") /\ pc' = "exited"
    /\ code' = c
    /\ source' = "off"
    /\ BufferUnchanged
    /\ UNCHANGED <<clientVars, reported>>

\* Seeded fault: the microphone stream is left running.
PaOpenFailsRecording ==
    /\ At("pa", "open") /\ pc' = "exited"
    /\ code' = 1
    /\ UNCHANGED <<clientVars, reported, ioVars>>

FileOpenFails == OpenFails("file", 1)
PaOpenFails == OpenFails("pa", 1)
Ex1OpenFails == OpenFails("ex1", 3)

MimiStart ==
    /\ \/ pc = "start" /\ LaunchTx /\ pc' = "startRx"
       \/ pc = "startRx" /\ LaunchRx /\ pc' = "startDone"
       \/ pc = "startDone" /\ Started /\ pc' = "loop"
    /\ MainOnly /\ UNCHANGED code

\* mimi_close is called, and the source given back after it.
StartFails(p, c) ==
    /\ prog = p
    /\ pc \in {"start", "startRx"} /\ pc' = "closing"
    /\ Close
    /\ code' = c
    /\ MainOnly

FileStartFails == StartFails("file", 1)
PaStartFails == StartFails("pa", 1)
Ex1StartFails == StartFails("ex1", 3)

-----------------------------------------------------------------------------
(* main: wait, read the error, close.                                      *)

MainGoto(p, from, to) ==
    /\ At(p, from) /\ pc' = to
    /\ UNCHANGED <<clientVars, code, reported, ioVars>>

FileWait == ~Active /\ MainGoto("file", "loop", "error")

\* Pa_IsStreamActive returned 0 or an error, or the session has ended.
PaWait == (source # "on" \/ ~Active) /\ MainGoto("pa", "loop", "closeStream")

\* Closing may fail, which makes the return value 1.
PaCloseStream ==
    /\ At("pa", "closeStream") /\ pc' = "error"
    /\ source' = "off"
    /\ code' \in {NoCode, 1}
    /\ BufferUnchanged
    /\ UNCHANGED <<clientVars, reported>>

\* rec.isActive() && mimi_is_active(mio)
Ex1Leave == (source # "on" \/ ~Active) /\ MainGoto("ex1", "loop", "error")

\* Seeded fault: main leaves right after it has stopped the recorder.
Ex1StopAndLeave ==
    /\ At("ex1", "loop") /\ pc' = "loop"
    /\ source = "on" /\ Active /\ interrupted
    /\ source' = "stopped"
    /\ BufferUnchanged
    /\ UNCHANGED <<clientVars, code, reported>>

Ex1Stop ==
    /\ At("ex1", "loop") /\ pc' = "inner"
    /\ source = "on" /\ Active /\ interrupted
    /\ source' = "stopped"
    /\ BufferUnchanged
    /\ UNCHANGED <<clientVars, code, reported>>

\* while (mimi_is_active(mio)) usleep, "Waiting for fixed result".
Ex1AwaitResult == ~Active /\ MainGoto("ex1", "inner", "loop")

ReadError(p, ret) ==
    /\ At(p, "error") /\ pc' = "close"
    /\ reported' = err
    /\ code' = ret
    /\ UNCHANGED <<clientVars, ioVars>>

FileReadError == ReadError("file", IF err # 0 THEN 1 ELSE 0)

\* Seeded fault: only the library's own codes count.
PaReadErrorPositive ==
    ReadError("pa", IF code = 1 THEN 1 ELSE IF err > 0 THEN 2 ELSE 0)

PaReadError ==
    ReadError("pa", IF code = 1 THEN 1 ELSE IF err = -100 \/ err > 0 THEN 2 ELSE 0)

\* The error is printed, and 0 returned all the same.
Ex1ReadError == ReadError("ex1", 0)

MimiClose ==
    /\ pc = "close" /\ pc' = "closing"
    /\ Close
    /\ MainOnly /\ UNCHANGED code

CloseReturns ==
    /\ pc = "closing" /\ pc' = "release"
    /\ Free
    /\ MainOnly /\ UNCHANGED code

\* fclose, Pa_CloseStream, the recorder's destructor.
Release ==
    /\ pc = "release" /\ pc' = "exited"
    /\ source' = "off"
    /\ BufferUnchanged
    /\ UNCHANGED <<clientVars, prog, code, reported>>

Main ==
    \/ FileArguments \/ FileOpenInput \/ FileOpenFails \/ FileStartFails
    \/ PaArguments \/ PaInitialize \/ PaOpenStream \/ PaStartStream
    \/ PaOpenFails \/ PaStartFails
    \/ Ex1Arguments \/ Ex1StartRecorder \/ Ex1OpenFails \/ Ex1StartFails
    \/ MimiOpen \/ MimiStart
    \/ FileWait \/ FileReadError
    \/ PaWait \/ PaCloseStream \/ PaReadError
    \/ Ex1Leave \/ Ex1Stop \/ Ex1AwaitResult \/ Ex1ReadError
    \/ MimiClose \/ CloseReturns \/ Release

-----------------------------------------------------------------------------
(* The recorder's callback, the signal, and recording that ends by itself. *)

OutsideMain == UNCHANGED <<clientVars, prog, pc, code, reported>>

\* A sample is pushed; a buffer of the callback is several of these.
Push(p) ==
    /\ prog = p /\ source = "on" /\ recorded < MaxSamples
    /\ \E s \in Samples : queue' = Append(queue, s)
    /\ recorded' = recorded + 1
    /\ OutsideMain
    /\ UNCHANGED <<source, unread, interrupted, popped, left, sizing, timedOut>>

Ex1RecorderCallback == Push("ex1")

PaRecordCallback == Push("pa")

\* The end of a callback after Ctrl-C: push(0), paComplete.
PaComplete ==
    /\ prog = "pa" /\ source = "on" /\ interrupted
    /\ queue' = Append(queue, 0)
    /\ source' = "complete"
    /\ OutsideMain
    /\ UNCHANGED <<unread, recorded, interrupted, popped, left, sizing, timedOut>>

RecordingFails ==
    /\ prog # "file" /\ source = "on"
    /\ source' = "failed"
    /\ OutsideMain /\ BufferUnchanged

\* SIGINT once the handler is installed: pa installs it first of all, ex1
\* with the recorder; the file program has none.
Interrupt ==
    /\ ~interrupted /\ pc \notin {"exited", "usage"}
    /\ prog = "pa" \/ (prog = "ex1" /\ pc \notin {"args", "device"})
    /\ interrupted' = TRUE
    /\ OutsideMain
    /\ UNCHANGED <<source, unread, queue, recorded, popped, left, sizing, timedOut>>

-----------------------------------------------------------------------------
(* The three txfuncs, within one call.                                     *)

Callback == UNCHANGED <<prog, pc, code, reported, source, recorded, interrupted>>

\* fread of a full chunk.
FileTxChunk ==
    /\ prog = "file" /\ unread > 0
    /\ TxReturn(FALSE)
    /\ unread' = unread - 1
    /\ Callback /\ UNCHANGED <<queue, popped, left, sizing, timedOut>>

\* fread gave less than a chunk: at the end of the file, where it may be
\* nothing, or because of a read error.
FileTxShort ==
    /\ prog = "file"
    /\ TxReturn(TRUE)
    /\ Callback /\ UNCHANGED <<unread, queue, popped, left, sizing, timedOut>>

\* One turn of the pa program's loop: pop with a timeout of a second.
PaTxPop ==
    /\ prog = "pa" /\ tx = "call" /\ queue # <<>>
    /\ queue' = Tail(queue)
    /\ LET last == interrupted /\ Head(queue) = 0
           full == popped + 1 = ChunkSamples
       IN  IF last \/ full
           THEN TxReturn(last) /\ popped' = 0
           ELSE popped' = popped + 1 /\ UNCHANGED clientVars
    /\ Callback /\ UNCHANGED <<unread, left, sizing, timedOut>>

PaTxTimeout ==
    /\ prog = "pa" /\ queue = <<>>
    /\ TxReturn(TRUE)
    /\ timedOut' = TRUE
    /\ popped' = 0
    /\ Callback /\ UNCHANGED <<unread, queue, left, sizing>>

\* Seeded fault: Ctrl-C is not looked at.
Ex1TxEnterDeaf ==
    /\ prog = "ex1" /\ tx = "call" /\ left = 0 /\ ~sizing
    /\ sizing' = TRUE
    /\ UNCHANGED clientVars
    /\ Callback /\ UNCHANGED <<unread, queue, popped, left, timedOut>>

\* After Ctrl-C break at once, whatever is queued.
Ex1TxEnter ==
    /\ prog = "ex1" /\ tx = "call" /\ left = 0 /\ ~sizing
    /\ sizing' = ~interrupted
    /\ IF interrupted THEN TxReturn(TRUE) ELSE UNCHANGED clientVars
    /\ Callback /\ UNCHANGED <<unread, queue, popped, left, timedOut>>

\* As many samples are popped as size() says now.
Ex1TxReadSize ==
    /\ prog = "ex1" /\ tx = "call" /\ sizing
    /\ sizing' = FALSE
    /\ left' = Len(queue)
    /\ IF queue = <<>> THEN TxReturn(FALSE) ELSE UNCHANGED clientVars
    /\ Callback /\ UNCHANGED <<unread, queue, popped, timedOut>>

\* Seeded fault: one pop more than size() said.
Ex1TxPopOneMore ==
    /\ prog = "ex1" /\ tx = "call" /\ left > 0
    /\ queue' = IF queue = <<>> THEN <<>> ELSE Tail(queue)
    /\ timedOut' = (timedOut \/ queue = <<>>)
    /\ left' = IF queue = <<>> THEN 0 ELSE left
    /\ IF queue = <<>> THEN TxReturn(TRUE) ELSE UNCHANGED clientVars
    /\ Callback /\ UNCHANGED <<unread, popped, sizing>>

\* pop with a timeout: -100 if nothing comes.
Ex1TxPop ==
    /\ prog = "ex1" /\ tx = "call" /\ left > 0
    /\ queue' = IF queue = <<>> THEN <<>> ELSE Tail(queue)
    /\ timedOut' = (timedOut \/ queue = <<>>)
    /\ left' = IF queue = <<>> THEN 0 ELSE left - 1
    /\ IF left' = 0 THEN TxReturn(queue = <<>>) ELSE UNCHANGED clientVars
    /\ Callback /\ UNCHANGED <<unread, popped, sizing>>

Txfunc ==
    \/ FileTxChunk \/ FileTxShort \/ PaTxPop \/ PaTxTimeout
    \/ Ex1TxEnter \/ Ex1TxReadSize \/ Ex1TxPop

ProgramUnchanged == UNCHANGED <<prog, pc, code, reported, ioVars>>

\* Some error of the library's own, or -100 if txfunc has reported it.
LibraryCode == 790
LibraryReport ==
    /\ err' \in {LibraryCode} \union (IF timedOut THEN {-100} ELSE {})
    /\ Report
    /\ ProgramUnchanged

LibraryStep == (Library /\ ProgramUnchanged) \/ LibraryReport

Recording == Ex1RecorderCallback \/ PaRecordCallback

Over == pc \in {"exited", "usage"} /\ UNCHANGED vars

Next ==
    \/ Main \/ Txfunc \/ LibraryStep \/ Recording
    \/ PaComplete \/ RecordingFails \/ Interrupt \/ Over

Spec == Init /\ [][Next]_vars

(***************************************************************************)
(* main runs, txfunc returns (a pop gives up after a second, a file ends), *)
(* a callback comes while the microphone is open, the library keeps what   *)
(* ClientView asks of it.  The rx worker ends some time after the break:   *)
(* the service closes, or the 30 second timeout of the socket strikes.     *)
(***************************************************************************)
ServiceEnds == Ended(tx) /\ RxGiveUp

Fairness ==
    /\ WF_vars(Main) /\ WF_vars(Txfunc) /\ WF_vars(PaComplete)
    /\ WF_vars(TxAsk /\ ProgramUnchanged)
    /\ WF_vars(TxEnd /\ ProgramUnchanged) /\ WF_vars(RxEnd /\ ProgramUnchanged)
    /\ WF_vars((ServiceEnds \/ RxMustLeave) /\ ProgramUnchanged)
    /\ SF_vars(TxMustLeave /\ ProgramUnchanged)

FairSpec == Spec /\ Fairness

-----------------------------------------------------------------------------
(* Correctness.                                                            *)

\* Every variable stays within the values its field or local can take; ex1's
\* txfunc never wants more samples than there are in the queue.
ProgramsTypeOK ==
    /\ handle \in Handles /\ tx \in TxStates /\ rx \in RxStates /\ err \in Int
    /\ prog \in Progs /\ pc \in Pcs /\ code \in NoCode..3 /\ reported \in Int
    /\ source \in Sources /\ unread \in 0..MaxChunks /\ queue \in Seq(Samples)
    /\ recorded \in 0..MaxSamples /\ interrupted \in BOOLEAN
    /\ popped \in 0..(ChunkSamples - 1) /\ left \in 0..Len(queue)
    /\ sizing \in BOOLEAN /\ timedOut \in BOOLEAN

\* Whichever way main returns, the connection is closed, its threads have
\* ended, and nothing records any more into the queue that is destroyed.
NothingHeldAtExit ==
    pc = "exited" =>
        /\ handle \in {"null", "freed"}
        /\ tx \in {"off", "done"} /\ rx \in {"off", "done"}
        /\ source = "off"

\* main calls the library only as ClientView lets it: mimi_start on a handle
\* whose threads have not been started, mimi_is_active, mimi_error and
\* mimi_close on a started one, none on a freed one.
CallsAreLegal ==
    /\ pc = "open" => handle = "null"
    /\ pc = "start" => handle = "open" /\ tx = "off"
    /\ pc = "startRx" => handle = "open" /\ tx # "off" /\ rx = "off"
    /\ pc = "startDone" => handle = "open" /\ rx # "off"
    /\ pc \in {"loop", "inner", "closeStream", "error", "close"} => handle = "started"
    /\ pc = "closing" => handle = "closing"

\* 0 means that a session was opened and ended with no error mimi_error knew
\* of; ex1 alone returns 0 after an error too.  Only pa can run out of samples
\* inside txfunc: ex1 pops no more than it has seen in the queue.
ExitCodeHonest ==
    /\ pc = "exited" /\ code = 0 =>
            handle = "freed" /\ (prog = "ex1" \/ reported = 0)
    /\ reported = -100 \/ timedOut => prog = "pa"

\* The file program and ex1 close a running session only after both of its
\* directions have ended, so that the final result has come: unless the
\* recorder stopped by itself.
GracefulClose ==
    [][handle = "started" /\ handle' = "closing" /\ prog # "pa" =>
        ~Active \/ source = "failed"]_vars

\* The file program always ends, the others do so after Ctrl-C.
RunEnds == (prog = "file" \/ interrupted) ~> pc \in {"exited", "usage"}

-----------------------------------------------------------------------------
(* The inductive invariant behind the safety properties.                   *)

\* Where main is tells what the handle is, and the handle what the library's
\* threads may be doing.
HandleInv ==
    /\ pc \in {"args", "input", "device", "openStream", "startStream", "open", "usage"}
            => handle = "null"
    /\ pc \in {"start", "startRx", "startDone"} => handle = "open"
    /\ pc \in {"loop", "inner", "closeStream", "error", "close"} => handle = "started"
    /\ pc = "closing" => handle = "closing"
    /\ pc = "release" => handle = "freed"
    /\ pc = "exited" => handle \in {"null", "freed"}
    /\ handle = "null" \/ pc = "start" => tx = "off" /\ rx = "off"
    /\ pc = "startRx" => tx # "off" /\ rx = "off"
    /\ pc = "startDone" => rx # "off"
    /\ handle = "freed" => tx \in {"off", "done"} /\ rx \in {"off", "done"}

\* The source is given back before main returns; ex1 stops the recorder only
\* to wait for the session's end.
SourceInv ==
    /\ pc = "exited" => source = "off"
    /\ prog = "ex1" /\ pc \in {"loop", "inner"} => source \in {"on", "stopped", "failed"}
    /\ prog = "ex1" /\ pc \in {"open", "start", "startRx", "startDone"} =>
            source \in {"on", "failed"}
    /\ prog = "ex1" /\ pc = "loop" /\ source = "stopped" => ~Active
    /\ prog # "pa" /\ pc \in {"error", "close"} => ~Active \/ source = "failed"
    /\ pc = "inner" => prog = "ex1"

\* What an error number can be, and what main makes of it.
CodeInv ==
    /\ prog # "ex1" => left = 0
    /\ timedOut => prog = "pa"
    /\ err \in {0, LibraryCode} \/ (err = -100 /\ timedOut)
    /\ reported = -100 => timedOut
    /\ pc \in {"close", "closing", "release", "exited"} /\ code = 0 =>
            prog = "ex1" \/ reported = 0
    /\ pc = "exited" /\ code = 0 => handle = "freed"

ProgramsInv == ProgramsTypeOK /\ HandleInv /\ SourceInv /\ CodeInv

=============================================================================
