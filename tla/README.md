# libmimiio in TLA+

Specifications, model checking and proofs for libmimiio, the C++ client of the mimi(R) speech
service. Paths are relative to the repository root; the library is in `src/`.

## 1. The system

An application opens a connection with `mimi_open`, starts it with `mimi_start`, polls
`mimi_is_active`, asks `mimi_error` how it went, and calls `mimi_close`. It hands the library two
callbacks: `txfunc` produces audio, `rxfunc` takes results. One connection carries one stream of
audio, ended by a *recog-break* command.

| Component | State it keeps | Operations | Talks to |
|---|---|---|---|
| `mimiioImpl` (`src/mimiioImpl.cpp`) | `closed_`, the WebSocket | `send_frame`, `send_break`, `receive_frame`, `closed`, `set_blocking` | the service; called by tx worker, rx worker, or the synchronous controller |
| `mimiioTxWorker` (`src/worker/`) | `errorno_`, `finish_`, `finished_`, locals of `run()` | `run`, `finish`, `finished`, `errorno` | `txfunc`, encoder, `mimiioImpl` |
| `mimiioRxWorker` (`src/worker/`) | the same | the same | `rxfunc`, `mimiioImpl` |
| `mimiioAsynchronousCallbackAPIMonitor` (`src/mimiioAsynchronousCallbackAPIController.hpp`) | `finish_`, `finished_` | `run`, `finish` | both workers, the controller's `errorno_` |
| `mimiioAsynchronousCallbackAPIController` | `errorno_`, `started_`, thread pool | `start`, `isActive`, `streamState`, destructor | starts and joins the three threads |
| `mimiioController` with `mimiioSynchronousAPIController` | `errorno_`, `started_` | `start`, `send`, `send_break`, `receive`, `streamState` | `mimiioImpl`, encoder |
| encoders (`src/encoder/`) | samples inside the codec, `encodedData_` | `Encode`, `Flush`, `GetEncodedData` | libFLAC |
| C API (`src/mimiio.cpp`) | none | `mimi_open` ... `mimi_close` | controllers, encoder factory, exceptions to error numbers |
| file, PortAudio and Tumbler 1 examples (`examples/`) | `SampleQueue`, `interrupt_flag_`, the source of audio | `main`, the record callback, `txfunc`, Ctrl-C | the C API, PortAudio, the Tumbler's recorder |
| Tumbler 2: `Session` | `mio_`, `sdata_` (queue, `recog_break_`) | `open`, `start`, `close`, `recogBreak`, destructor | the C API; called by the recorder's callback and by `main` |
| Tumbler 3: `Stream`, `SpeechEvent`, `MySpeechEvent` | `mio_`, `state_`, `recogBreak_`, `inputQueue_`, `notifier_`, `led_s_`, `led_control_` | `open`, `start`, `recogBreak`, `push`; event loop and handlers | the C API; three threads of its own, the event loop, the LED thread, the recorder's callback |

### What is hard

* Four threads share plain fields: no locks, no atomics, no condition variables. `ThreadPool::joinAll`
  is the only synchronisation. Errors travel by polling: worker -> monitor (10 ms) -> application.
* `finish_` and `closed_` are looked at once per iteration, and `receive_frame` may block for 30
  seconds in between.
* A normal close by the service is *not* an error, so the monitor never reacts to it; the tx worker
  has to find `closed_` by itself.
* Every socket call may fail: while sending audio, the flush, the break, the break that reports an
  error of `txfunc`'s, the reply to a close frame. `mimi_start` may fail with some threads running.
* The codec keeps audio back; what it holds must be sent before the break.
* The examples share the fields of a `Session` or `Stream` between the recorder's callback, `main`,
  their own threads and the library's. In `Stream.cpp` `std::unique_lock<std::mutex>(mutex_)`
  declares a variable called `mutex_` and locks nothing.
* Their txfuncs read the flag of the break, then the size of the queue, then pop that many times;
  the recorder goes on in between. A pop of Tumbler 3 has no timeout.
* Results of `open`, `start`, `mimi_start` are ignored in places; loops that wait for the end of a
  session have no limit.

The list of hazards with their lines is in `PROJECT.json`, each with the properties that cover it.

### What makes each component correct

| Component | Correct when |
|---|---|
| tx worker with encoder | all audio taken from `txfunc` that makes whole frames is sent before the break, as long as the codec works; one break at most and nothing after it; every failure leaves an error number |
| rx worker with connection | `closed_` only when it is true; only a normal close ends it without an error (and one with status 0, see below); only data reaches `rxfunc` |
| monitor | the first error it sees gets to `mimi_error`, stays there, and stops both workers; it never ends otherwise |
| controller, C API | the stream state never goes back; `mimi_close` returns, and only when no thread runs; a session that looks successful was |
| synchronous controller | a closed connection has an error to show (unless the status was 0); a call that did nothing is explained; nothing goes out after the close reply |
| `mimi_open` | either a handle or an error number, whatever step failed; no encoder or controller left; each exception gets the code meant for it |
| the library as its users see it | after a break or an error `txfunc` is never called again; an error is known only when a worker has failed; the workers end when they must, and `mimi_close` returns |
| file, PortAudio, Tumbler 1 | `main` gives back everything on every path; its exit code tells the truth; it waits for the final result; it ends |
| `Session` | an utterance's audio goes out on that utterance's stream, all of it before the break; main and the recorder's callback never wait for each other for ever or use a handle the other has closed |
| `Stream`, speech events | all audio before the break; no call on a handle that is not there; the LED ring is given back; the event loop ends with the final result |

## 2. The modules

| Module | Models |
|---|---|
| `Connection` | `mimiioImpl`: frames, how `receive_frame` tells them apart, `closed_`, what is on the wire |
| `Encoder` | encoders as the tx worker uses them: what is inside the codec and in `encodedData_` |
| `TxWorker` | `mimiioTxWorker::run()`, step by step; extends the two above |
| `RxWorker` | `mimiioRxWorker::run()` and `receive_frame`, step by step; extends `Connection` |
| `AsyncSession` | both workers, monitor, `mimi_start`, the application's polling loop, `mimi_close` |
| `StreamLife` | abstract: one stream as `mimiio.h` promises it |
| `SyncSession` | `mimiioController` and `mimiioSynchronousAPIController`; extends `Connection` |
| `OpenCall` | `mimi_open`: construction, handlers, retries by the application, `mimi_close` |
| `ClientView` | abstract: one connection as callbacks and callers meet it, with what they may rely on; `AsyncSession` implements it |
| `Programs` | the file, PortAudio and Tumbler 1 programs; extends `ClientView` |
| `Session` | the Tumbler 2 program; extends `ClientView` |
| `SpeechStream` | one utterance of the Tumbler 3 program; extends `ClientView` |
| `MCAsyncSession`, `MCSyncSession` | small constants for the two sessions |
| `AsyncSessionProofs` | theorems about `AsyncSession` |
| `AsyncRefinementProofs` | `AsyncSession` implements the safety halves of `StreamLife` and `ClientView`; extends `AsyncSessionProofs` |
| `SyncSessionProofs`, `OpenCallProofs`, `ProgramsProofs`, `SessionProofs`, `SpeechStreamProofs` | theorems about the module of that name |

### State and actions against the code

Fields keep their names with the owner in front (`txErrorno`, `rxFinish`, `monFinish`, `closed`,
`started`). `txPc`, `rxPc`, `monPc` and `userPc` say where a thread is. A step ends wherever
another thread could see a difference, so each makes at most one access to shared memory or to the
socket. For instance, the rx worker receives a close frame (`RxReceive`), replies (`RxCloseReply` or
`RxReplyFails`), sets `closed_` (`RxMarkClosed`), then stores its error number (`RxCloseStatus`) and,
last, `finished_` (`RxExit`); the tx worker or the application may act between any two of these.

* Thread start: `StartMonitor`, `StartTx`, `StartRx`, `SetStarted`; `StartFails` instead of any of
  the first three (no thread to be had, `mimi_start` returns 905).
* `mimi_close`: `BeginClose` (tx `finish()`), `CloseFinishRx`, `CloseFinishMon`, `JoinAndFree`.
* `ObserveInactive` then `ReadError` is the loop of `doc/src/tutorial/start_communication.md`.
* `audioGiven`, `audioRests`, `txLate`, `rxLate` and `reported` are history variables; `audioSent`, `breaksSent`
  and `closeReplied` say what went out on the wire.

The service is external: at every receive any frame may come, the peer may hang up, or the receive
may throw. A frame is chosen when it is received, which gives the same behaviours as a
queue of frames in flight, since the service may send anything at any time.

Two frames look like a peer that has hung up, which `receive_frame` recognises by an empty payload and
flags 0 (`mimiioImpl.cpp:241`): the hang-up itself and an empty continuation frame without FIN.
`FlagsZero` holds both.

Audio is counted in units: one for the whole frames (a sample of each channel) of a buffer, one for the
rest behind the last whole frame, and one for the stream header FLAC writes when it is created.
`FlacEncoder::Encode` hands `pcm_samples / get_channels()` frames to libFLAC and drops the rest, which
there is only with more than one channel (`FrameUnits`, `RestUnits`); after each buffer FLAC emits any
number of the units it holds. libFLAC may fail at any buffer and at the flush; it then loses
what it held and accepts nothing more, and since `flac.cpp:75` and `80` ignore what it
returns, the worker goes on as if nothing had happened (`encFailed`). Contents and
sizes of encoded data do not matter for the properties.

`mimiioTxWorker` has two catch orders that matter and are kept: WebSocket, timeout, any other network
exception, everything else. `EncoderProcessException` is among "everything else".

`SyncSession` is one thread of the application, so that a call is one step with everything
`receive_frame` does inside it: `Send`, `SendFails`, `SendBreak`, `SendBreakFails`, the alternatives
of `Receive` (`set_blocking` or the socket fails, nothing to read, the frame makes it throw, data, ping,
close, the reply fails) and `CallWhenClosed`. `send` returns the number of bytes sent, 0 for an empty buffer. The C functions for it are commented out in `mimiio.cpp`; the class
is what `mimi_open` creates without callbacks. The blocking mode is no state of its own: it is set
anew by each receive. Without it a receive that finds nothing may return a negative number, which
`receive` passes on (`ReceiveAgain`). `closedBy`, `lastCall`, `lastResult` and `lastFrame` are history. The connection's part (`Frames`, `OpfType`, `Throws`, `ThrownBy`) is
the one the rx worker uses.

`OpenCall` has a step per object `mimi_open` constructs, each of which may throw instead, and `Catch`
for the handlers. `Parent` is the class hierarchy of Poco's and the standard exceptions (external);
`Caught` takes the first handler that fits, in the order of the source. The asynchronous controller may
throw as well, since its thread pool starts threads (`ControllerFails`); its base class then deletes encoder
and connection. `alive` counts objects of each
kind. `EncoderFails` leaves the connection behind, as the code does; `NothingLeftBehind` says nothing
of connections that are not in use. Allocation of memory does not fail.

### The library for its users: `ClientView`

The examples run on the library, and a model of them with all its threads would be too large. So
`ClientView` keeps of a connection what they can tell apart: the handle (`null`, `open`,
`started`, `closing`, `freed`), each worker (`off`, busy or in a callback, `leaving`, `done`), and
`mimi_error`. The three modules of the examples extend it: their actions conjoin its actions
(`Open`, `LaunchTx`, `TxReturn(last)`, `Close`, `Free`, ...) with what the program does, and `Library`
is whatever the threads behind do on their own.

That this is fair to the library is checked and proved: `AsyncSession` maps its variables to those of
`ClientView` (`ClientHandle`, `ClientTx`, `ClientRx`), and `KeepsClientView` and
`ImplementsClientView` say that it implements it, with and without liveness. The fairness of
`ClientView` (`ClientFairness`) is therefore not a new assumption: what the programs wait for follows
from that of the threads.

What a user may rely on is stated once, in `ClientView`: `ClientConsistent` (a started handle has both
workers, a freed one none that runs, an error is told only after a worker has ended) and
`NothingIsTakenBack` (who has ended stays ended, an inactive session is never active again, an error
stays). Two things make these theorems about the programs: the programs' own steps are steps of
`ClientView`, and `CallsAreLegal` says that the guards of `ClientView`'s actions hide no misuse. Whenever a
program has come to a call, the handle is in the state the call is for; a model in which
the guard merely blocked a wrong call would violate it. In `Session` and `SpeechStream` the
misuses that do happen are actions of their own.

### The examples against the code

`Programs`. `pc` is where `main` is; `prog` says which of the three runs. `Acquire`, `OpenFails`,
`StartFails` and `ReadError` have the shape all three share and are instantiated with each program's
exit codes and next step, which differ. `source` is the input file, the PortAudio stream or the
recorder. One push to `SampleQueue` is a step, a pop with its timeout as well. `left` and `popped`
are the locals of one call of `txfunc`, which in Tumbler 1 reads the interrupt flag and then `size()`
(`Ex1TxEnter`, `Ex1TxReadSize`; `sizing` lies between). rxfunc only prints.

`Session`. `pc` is where `main` and the recorder's thread are, since both call `close()`. `txPc`,
`txBreak` and `left` are within one call of `txfunc`: `recog_break_` is read, then `size()`, then one
pop a step. A sample carries its utterance and the callback that queued it. `stream` is the
utterance `mio_` was opened for. `broke`, `gaveUp` and `startFailed` are history.

`SpeechStream`. One variable per thread: `opener`, `monitor` and `starter` (the three that `Stream`
starts), `recorder` (the callback), `loop` and `led` (`SpeechEvent`). `seen` is the `state_` the
start thread read last. Buffers are counted, since no property tells them apart. Notifications whose
handlers only print are left out, and so are results that are not final; `ping` stands for any
payload that is not JSON, which the library hands over too (see `async_ping_payload`). The monitor's 60
seconds are any time. `mimi_error` is not followed: whether the stream ends as `streamFailed` or
`streamEnded` is left open.

In `Session` and `SpeechStream` a call with a null or a deleted handle is recorded (`crash`, `over`)
and the system stops there: nothing is said of what follows undefined behaviour. When `main` of
Tumbler 3 returns, the process ends with all its threads, without a close or a join.

## 3. The runs

| Run | Shows |
|---|---|
| `async_safety` | all safety and action properties over all interleavings of the four threads (FLAC) |
| `async_liveness` | errors reach the API and end both workers; a close by the service ends both; the threads implement `StreamLife` and `ClientView`, liveness included: `mimi_close` returns (PCM) |
| `sync_safety` | all sequences of synchronous calls, every frame and every failure |
| `open_call` | up to three calls of `mimi_open`, every exception at every step |
| `programs` | the file, PortAudio and Tumbler 1 programs: each failure, Ctrl-C and end of the session at any time |
| `session` | Tumbler 2 over two utterances, each failure, Ctrl-C at any time |
| `speech_stream` | Tumbler 3, one utterance, with and without a speculative connection |
| `speech_expiry` | violation: the monitor closes a connection after `mimi_start` has been called on it |
| `async_silent_error` | violation: connection inactive, `mimi_error` still 0, a worker has failed |
| `async_encoder_code` | violation: a failure of the encoder is 799 or no error at all, not 502 |
| `async_ping_payload` | violation: a ping with a payload is handed to `rxfunc` |
| `open_missing_callback` | violation: without `txfunc` `mimi_open` succeeds instead of giving 901 |

The five violations are what the documentation or a comment says and the code does not do;
`PROJECT.json` quotes the lines.

### Properties

Of the asynchronous session. Invariants: `AudioBeforeBreak`, `ReportedErrorIsGenuine`,
`CleanEndIsNormalClose`, `LateCallsBounded`,
`ClosedIsHonest`, `MonitorNeverAbandons` (and `TypeOK`). Over steps: `ErrorSticky`,
`NothingAfterBreak`, and `KeepsStreamLife` and `KeepsClientView`, the
safety halves of the two refinements. Liveness: `ErrorReachesApi`, `ErrorEndsSession`,
`ServerCloseEndsSession`, `ImplementsStreamLife`, `ImplementsClientView`.

Of the synchronous one: `ClosedHasReason`, `ZeroIsExplained`, `QuietAfterCloseReply`. Of `mimi_open`:
`HandleOrError`, `NothingLeftBehind`, `NoHandlerIsHidden`.

Of the examples. `Programs`: `NothingHeldAtExit`, `ExitCodeHonest`, `GracefulClose`, `RunEnds`. `Session`:
`MisuseExplained`, `StraysAreBounded`, `BreakTakesAll`, `CallbackReturns`, `InterruptEnds`. `SpeechStream`:
`AllAudioBeforeBreak`, `StartMisuseExplained`, `RingGivenBack`, `FinalEndsEvent`. The type invariants
of the three also say that a txfunc never asks for more than is queued, which is what keeps its pops
from waiting: `size()` is read without the lock.

Each property has a comment at its definition.

Some are weaker than one might expect, because the code is:

* `ReportedErrorIsGenuine`: when `txfunc` reports an error the worker stores it and then sends a
  break. If the break fails the worker's `errorno_` is overwritten; the monitor may have copied
  either value, so the code `mimi_error` tells may be one no worker has any more.
* `AudioBeforeBreak` leaves out what the code loses without an error: the rest of a buffer that is not a
  whole number of frames, and what a codec holds that has failed. The file program's buffers of 2048
  bytes have no rest with one, two or four channels, but have one with three. A dropped rest also
  shifts the channels of all that follows, which is about contents and not modelled. Neither loss
  gives an error; that a failed codec gives none is part of the finding of `async_encoder_code`.
* `CleanEndIsNormalClose` and `ClosedHasReason` name one exception: a close frame with status 0 is
  answered like any other, and `mimiioRxWorker.cpp:77` and `mimiioController.cpp:108` store the
  status as the error number, so that the session ends without an error (in the synchronous controller it even
  takes back one from before). `doc/src/tutorial/errorcodes.md:32` has 904 for an illegal status from the
  service; the code gives it only to a close frame with no status at all. So this is a divergence of
  code and document, stated in the properties rather than by a run of its own.
* `ClosedIsHonest` allows an empty fragment, which the code takes for a hang-up.
* `CleanEndIsNormalClose` speaks of the workers' errors, not of `mimi_error`: that the two
  differ for a while is the finding of `async_silent_error`.
* `ZeroIsExplained` lists what may explain a 0 that is no failure: a ping, a send of nothing, and calls after a
  close with status 0. Otherwise it asks for *an* error, not for one of the call that failed: `errorno_` of the
  synchronous controller is never reset, so a receive that gets a ping after a failed send returns 0
  with the old error still there. No document says otherwise, so it is a hazard and no finding.
* `ExitCodeHonest` excuses Tumbler 1, which prints an error and returns 0 all the same.
* `GracefulClose` excuses the PortAudio program, which leaves when recording ends, whatever is still
  queued or on its way.
* `MisuseExplained` and `StartMisuseExplained` do not say that no bad handle is ever used, but name the
  only ways to it: in `Session` an ignored failure of `open` or `start`, and Ctrl-C before anybody has
  spoken (`close` on a null handle); in `Stream` a `recogBreak()` that overwrites `state_`
  (`Stream.cpp:158` has nothing else to look at), and the monitor.
* `StraysAreBounded` allows two kinds of samples on another utterance's stream: those of a SpeechStart
  callback, queued before `open()` has closed the previous stream, and those a stream left over that
  ended without a break.
* `RingGivenBack` excuses an event loop that the JSON parser has thrown out of. It does not see a reset
  that overwrites what the next event has drawn on the ring.

### Bounds

* `MaxChunks` (1 or 2): units of audio `txfunc` returns, whole frames and rests. The worker keeps nothing but the encoder's
  content from one buffer to the next; two are enough to have one unit inside the codec while
  another one is sent. Empty buffers, pings and results are not bounded.
* `Lens` with two channels: nothing, an odd number of bytes, a frame and a half (6 bytes), the largest
  buffer, one byte more. `async_liveness` takes nothing and 320 bytes of one channel.
* One error code per callback, one failure for sends and one for receives: the code compares these
  with zero or copies them. The proofs take any.
* Close statuses: 0, 1000, and 64536, which `mimiioImpl.cpp:195` reads into a `short` and so
  becomes -1000; `sync_safety` has 1011 and 4000 too. The proofs take any two bytes (`ShortStatus`): no
  status but 1000 is taken for a normal close, and none but 0 becomes 0.
  `async_liveness` has no error of `rxfunc`'s and only status 1000, to keep the graph of states small
  enough for the liveness check; an error of `txfunc`'s, of a send or of a receive starts the same
  chain from worker to monitor to application.
* `MaxSends` (2): units of audio and breaks of the synchronous session, which only counts them; all
  failures of sends and receives are possible there.
* `MaxOpens` (3): two failed calls before a third; a call depends on the ones before it through
  `errorno` and `alive` only.
* `programs`: `MaxChunks` 2 full chunks in a file, `MaxSamples` 3 recorded samples of two kinds
  (silence or not), `ChunkSamples` 2: one call of the PortAudio `txfunc` is filled and a second one
  begun.
* `session`: `MaxUtterances` 2, `MaxInSpeech` 1: a stream with one before and one after it is two
  streams meeting; a third repeats it. `OpenRetries` 3 as in the code.
* `speech_stream`: `MaxInSpeech` 1, so up to three buffers; one utterance; one final result and one
  payload that is not JSON.
* `mimi_start` is called at most once; callbacks return and do not call `mimi_close`.

### Fairness

Weak fairness of each worker, of the monitor, and of an API call that has begun. The operating
system schedules runnable threads; no thread waits for another one except in `joinAll`. For the
workers it includes that callbacks return and that the socket's receive timeout of 30 seconds
(`src/mimiioImpl.cpp`, constructor) makes `receive_frame` return. The application owes nothing:
it may never call `mimi_close`, and `txfunc` may return empty buffers for ever.

In the programs `main`, the recorder's thread and `txfunc` are weakly fair as well, and what
`ClientView` promises of the workers is assumed of them. From outside: the service ends a session some
time after the break, or else the 30 second timeout of the socket does (`ServiceEnds`); in `Session`
also after Ctrl-C when nothing is sent any more. The recorder's voice detection makes an utterance
a SpeechStart, some InSpeech and a SpeechEnd callback, one at a time, and who speaks stops some time;
`rec.stop()` and `Pa_CloseStream` return when no callback runs. Only a worker that a busy `txfunc`
keeps in turn needs strong fairness (`TxMustLeave`): it checks `finish_` each time round, and
`ImplementsClientView` shows that the threads provide it under weak fairness. Tumbler 3 assumes fairness of
the event loop and of the LED thread and nothing of the rest, since `FinalEndsEvent` starts from a result
that has come; the service sends its final result after the break.

## 4. Proofs

The theorems hold for all constants that satisfy the assumptions (`ConnectionAssumption`,
`FormatAssumption`, `TxAssumption`, `RxAssumption`, `SyncAssumption`,
`OpenAssumption`, `ProgramsAssumption`, `SessionAssumption`,
`SpeechStreamAssumption`: error codes of callbacks are not zero, close
statuses are any two bytes, there is at least one channel, lengths and bounds are natural numbers, a
chunk has a sample and a connection is tried at least once):

| Theorem | States |
|---|---|
| `TypeCorrect` | `Spec => []TypeOK` |
| `Inductive` | `Spec => []IInv` |
| `AudioIsComplete` | `Spec => []AudioBeforeBreak` |
| `ReportsAreGenuine` | `Spec => []ReportedErrorIsGenuine` |
| `NoSilentFailure` | `Spec => []CleanEndIsNormalClose` |
| `LateCallsAreBounded` | `Spec => []LateCallsBounded` |
| `ClosedTellsTruth` | `Spec => []ClosedIsHonest` |
| `MonitorKeepsWatch` | `Spec => []MonitorNeverAbandons` |
| `ErrorsStick` | `Spec => ErrorSticky` |
| `BreakIsLast` | `Spec => NothingAfterBreak` |
| `ToldForGood`, `ThreadsWindDown`, `CloseConverges` | `Spec => ToldStaysTold`, `Spec => WindsDown`, `Spec => JoinConverges` |
| `SessionImplementsStreamLife` | `Spec => KeepsStreamLife` |
| `SessionImplementsClientView` | `Spec => KeepsClientView` |
| `StreamStateIsTrue`, `SessionMayBeReliedOn` | what `StreamLife` (`StateIsTrue`, `OneWay`) and `ClientView` promise, of the threads |
| `ClientMayRely` | `ClientSafety => []ClientConsistent /\ NothingIsTakenBack` |
| `SyncTyped`, `SyncCorrect`, `SyncZeroExplained` | `Spec => []SyncTypeOK`, `[]ClosedHasReason`, `[]ZeroIsExplained` |
| `SyncQuiet` | `Spec => QuietAfterCloseReply` |
| `OpenTyped`, `OpenLeavesNothing`, `OpenGivesHandleOrError` | `Spec => []OpenTypeOK`, `[]NothingLeftBehind`, `[]HandleOrError` |
| `OpenHidesNoHandler` | `Spec => []NoHandlerIsHidden` |
| `ProgramsTyped`, `ProgramsHoldNothing`, `ProgramsExitHonestly` | `Spec => []ProgramsTypeOK`, `[]NothingHeldAtExit`, `[]ExitCodeHonest` |
| `ProgramsCloseGracefully` | `Spec => GracefulClose` |
| `SessionTyped`, `SessionMisuseIsExplained` | `Spec => []SessionTypeOK`, `[]MisuseExplained` |
| `SessionBreakTakesAll`, `SessionStraysAreBounded` | `Spec => BreakTakesAll`, `Spec => StraysAreBounded` |
| `SpeechTyped`, `SpeechAudioIsComplete`, `SpeechMisuseIsExplained`, `SpeechGivesRingBack` | `Spec => []StreamTypeOK`, `[]AllAudioBeforeBreak`, `[]StartMisuseExplained`, `[]RingGivenBack` |
| `ProgramsAreClients`, `SessionIsClient`, `SpeechStreamIsClient` | `Spec => []CallsAreLegal`, the program is a `ClientView` client, and what clients may rely on |

None of the properties is inductive: they speak of the end of a thread and say nothing of the way
there. `IInv` adds what each thread knows at each of its steps.

* `TxInv`: as long as neither it nor the codec has failed, units given plus header = units sent + rests +
  in hand + in `encodedData_` + in the codec (+ the whole frames of the buffer about to be encoded). At the
  break hand, `encodedData_` and codec are empty.
* `RxInv`: before its exit it has no error; `closed_` is set only on its way out; it gets to the exit
  without an error only through `finish_` or a close with status 1000 or 0.
* `MonInv`: somebody's `finish_` is set only after a failure or by `mimi_close`; `errorno` is written
  once, from "copy", and then the monitor is on its way out.
* `StartInv`: which threads have been launched at each step of `mimi_start` and `mimi_close`; a
  thread `mimi_start` has not come to is idle.

The proof has a lemma per thread and per part; a thread's own part goes by its actions, the parts of
others by what the thread leaves alone (`TxUnchanged`, `RxUnchanged`, `UserUnchanged`).

The refinement maps the threads to the set of the launched ones that have not ended, and the handle
to the phase of `mimi_start` and `mimi_close` (`LaunchedThreads`, `Handle` in `AsyncSession`). Each
action of a worker or of the monitor is a stutter of the abstract stream, the end of a thread, or the
close of the connection (`TxLife`, `RxLife`, `MonLife`); each of the application's is a step of the
handle or the launch of a thread (`UserLife`). `IInv` is needed for one thing above all: that a
thread which ends was launched, and that none is launched twice.

For `ClientView` the same case split shows that a step of one thread moves its own component or none
(`TxView`, `RxView`, `MonView`, `UserView`); `IInv` is needed to know that the monitor reports an error
only after a worker has one, and that nothing runs when the handle is freed.

The third theorem of each refinement turns it to use: `StateIsTrue`, `OneWay`, `ClientConsistent` and
`NothingIsTakenBack` are proved of the abstract module once, and hold of the threads through the
mapping.

Convergence is the part of liveness the prover can reach. `TxStepsFinishing`, `RxStepsFinishing` and
`MonStepsFinishing` count the steps a thread that has been told to finish still has, at most 9, 6 and 4.
`WindsDown`: each of its steps lowers its count, whatever the socket and the callbacks answer, so no
path leads back into the loop. `JoinConverges`: from `joinAll` on every step lowers the sum, and when it is
0 no thread is left. `mimi_close` thus waits for 19 steps at most. That these steps are taken needs
fairness and stays with TLC (`ImplementsStreamLife`).

`SyncInv` is `ClosedHasReason` and `ZeroIsExplained` with the fact that the reply to a close frame and
`closed_` go together. `ObjectInv` counts the objects that exist at each step of `mimi_open`; `ErrorInv`
says where a pending exception may be caught. That the first fitting handler exists uses the last
one, `catch (...)`, and the least element of a set of numbers. For `NoHandlerIsHidden` the bases of each
class thrown are unfolded from `Parent`: the handlers that come before the one meant for an exception
are for classes it is not derived from (`CaughtAsMeant`).

`ProgramsInv` has three parts. `HandleInv`: where `main` is fixes the handle, and the handle what the
workers may be doing. `SourceInv`: Tumbler 1 leaves its loop with a stopped recorder only when the session
has ended. `CodeInv`: the number `main` read is one that was possible, -100 only after a timeout.
`CallsAreLegal` of `Programs` is part of `HandleInv`.

`CallInv` of `Session` and of `SpeechStream` strengthens `CallsAreLegal`. In `Session` one thread at a time is
at a call, since `main` closes only when the recorder's callback cannot run (`MainInv`). In `SpeechStream` nobody but the monitor
closes, and the next `mimi_open` comes after it; that a handle still open has not been started twice needs
the places of both threads. `SpeechStreamIsClient` says this up to the misuses `StartMisuseExplained` is
about, since the model stops there.

`SessionInv`: `main` closes only when the recorder's callback cannot run (`MainInv`); between callbacks
there is a handle once somebody has spoken (`HandleInv`); `stream` is one behind the utterance only while a
SpeechStart callback is on its way to open the next one, and a break asked for one stream is withdrawn
before that (`StreamInv`); a txfunc that has seen the break has only samples of later utterances
behind the ones it is going to pop (`TxInv`); no sample is queued of an utterance whose break is
out (`QueueInv`). `BreakTakesAll` and `StraysAreBounded` are about steps of `txfunc` and follow from the
last three.

`SpeechInv`: once a txfunc has seen the break, it pops all there is (`BreakInv`); how `mio_`
and `state_` stand to each other whichever of four threads has written `state_` last (`OpenInv`); what the
start thread has read (`StarterInv`); past the join nobody writes the ring (`LedInv`).

Only model-checked: liveness, including that of `StreamLife` and `ClientView` (ENABLED and fairness are
out of the prover's reach): `ErrorReachesApi`, `ErrorEndsSession`, `ServerCloseEndsSession`,
`ImplementsStreamLife`, `ImplementsClientView`, `RunEnds`, `CallbackReturns`, `InterruptEnds`,
`FinalEndsEvent`. Every invariant and every action property of a passing run is a theorem.

Only proved, in no run: `ToldStaysTold`, `WindsDown`, `JoinConverges`, `CallsAreLegal`, `StateIsTrue`,
`OneWay`, `ClientConsistent`, `NothingIsTakenBack`. TLC agrees with them on the constants of the runs; the
theorems make further runs unnecessary.

## 5. Not modelled

* Weak memory: the fields are plain, so formally the threads race. The model is sequentially
  consistent; each worker's last store and the ones before it are separated by calls into the logger.
* `finished_` of the monitor: it is written and never read.
* The rx worker's branches for 906 and 907: `receive_frame` never returns what leads to them.
* A second `mimi_start`; callbacks that close or never return; concurrent use of one OpenSSL object by
  both workers. `errorno_` of the synchronous controller is never reset, and the connection is left over
  when the second encoder cannot be made: both are in the models as the code has them, and no property
  speaks against them.
* The contents of FLAC samples. How many samples of a buffer get to the codec is modelled, which ones is not.
* Tumbler 3: `~Stream`, `~SpeechEvent` and `Stream::close`, which nothing calls; `abort` and the stack's
  `start`, which are empty; `errorHandler`, which nothing calls; `errorno_` of `Stream`, which is only
  printed. Of the next utterance's event only the release of the LED ring is there. An event whose
  utterance fails gets no final result and its loop goes on waiting: the model has it, and
  `FinalEndsEvent` says nothing of it. A `recogBreak()` between a reopening and the test of `state_` in
  the start thread makes it give up the utterance, which no document forbids.
* `BlockingDeque`: one thread uses it, as a list of events.
* rxfuncs of the other examples print; so do most handlers.
* Logging, error texts (`strerror.hpp`), the command line parser (`cmdline.h`, third party).

## 6. Plan

Done: the asynchronous session with the safety halves of its two refinements, the synchronous session,
`mimi_open`, all five example programs; every safety property a run checks is proved, what the
abstract modules promise is carried over to the threads, and the programs are shown to keep to
the library's rules. Left:

1. Two events of Tumbler 3 side by side: the stack of `SpeechEvent`s with both LED threads.
2. A clock for `Stream`, to tell the 60 seconds of the monitor from the 30 of the socket.
3. The conversion of samples as an operator against a reference definition.
