# Broccoli Desktop in TLA+

Broccoli Desktop records the microphone and the system's output, streams both to a
remote listening service and shows the transcript in a local web page. It is one Python
process with an asyncio loop (FastAPI on a loopback port), PortAudio callbacks, one worker
thread per audio source, a native window and a tray icon. Its sequential parts are well
tested; what is hard to test is how these actors interleave and what a failure half way
leaves behind. That is what the modules here model, check with TLC and partly prove with
TLAPS.

Paths below are relative to `src/broccoli_desktop/`.

## 1. Inventory

| Component | State | Operations | Interacts with |
|---|---|---|---|
| Session controller, `session.py` | connection state, session identity, stream, recovery stream, capture, reader task, recovery flag, reconnect buffer | `start_new`/`resume` (`_open`), `stop`, `stop_local_capture`, `_listen`, `_recover`, `_end_from_remote`, `_fail_from_remote`, `_forward_frame`, `_handle_device_loss` | awaits the remote; owns the capture; publishes events; called by API and runtime |
| Reconnect buffer, `session.py:153`, `335`, `407` | frames ordered by offset, at most 10 s | enqueue, replay, clear | written by senders, read by the recovery |
| Capture, `capture.py` | installed handles, per source a queue, a worker, an error handler, a pending error | `start`, `stop`, callback, worker loop, error report | callbacks and workers are threads; failures go to the controller's loop |
| Audio pipeline, `audio.py` | per channel a remainder, an offset, a resampler | `feed`, `reset` | called by both workers |
| Remote client, `remote.py`, `protocol.py` | per stream a sequence counter and pending deltas | connect, send, iterate events, close; HTTP history and title | websocket and HTTP service (external) |
| Event hub, `events.py`, `api.py` | one queue per subscriber | publish, subscribe | controller to page |
| Local API, `api.py` | credential, remote, controller of the current login | login, logout, sessions, history, devices, event websocket | page to controller |
| Runtime, `runtime.py` | teardown flags, lock, owner of the teardown | start, window close, tray stop, quit, console interrupt, `shutdown` | stops the session, the server, the tray |
| Web client, `static/app.js` | screen, status, selected session, timeline | requests, event socket, paging | API, event websocket |
| Tray, credentials, settings, config, models | icon; keyring; one JSON file; environment | callbacks, reads and writes | runtime, API |

Who runs where:

- The controller's coroutines, the API handlers and the event hub share one asyncio loop.
  Between two awaits a coroutine is alone; at every await any other may run.
- PortAudio calls back on its own threads, each source has a worker thread, and a device's
  failure comes to the loop through `call_soon_threadsafe`.
- The window's loop runs on the main thread, the tray's menu on another, and a console
  interrupt starts a third; all of them may call `shutdown`, which waits for coroutines on
  the loop and for the loop's thread.

What is hard, and the properties that make each part correct:

- **Controller**: overlapping start, stop, recovery, remote end and device loss. Nothing is
  recorded outside a session; the controller holds every capture and stream that is live;
  an ended session stays ended until a new opening; starting, reconnecting and recovering end.
- **Reconnect buffer**: replay by index while other coroutines insert and truncate. Frames
  stay in order, within the bound, and belong to the session they are replayed to.
- **Capture**: a source fails before its handler is installed, under a full queue, or
  together with the other. Both sources run or none; the failure stops both and is told;
  workers end.
- **Runtime**: several shutdowns, failing steps, a session that starts meanwhile. One teardown
  at a time, no step twice, none lost, every caller returns.
- **Audio pipeline**: two offsets that advance separately must agree, also over a resume
  (numeric edge). Frames of a channel never overlap, and no frame is lost on its way.
- **Remote client**: identities of utterances unique over reconnections.
- **API**: a controller that is replaced or forgotten while it records; a late refusal of an
  old token; a keyring that fails half way. Keyring, token and controller agree; what records
  can be reached, seen and stopped.
- **Web client**: late answers and events of an earlier state overwrite later ones; history
  meets live text. The recording notice is right, the captured session is the selected one,
  an utterance has one row.

`PROJECT.json` lists the hazards line by line, with the properties that cover each, or the
reason why none does; a note says how far a property reaches where it excepts the hazard's worst
case.

## 2. Modules

| Module | Kind | Extends |
|---|---|---|
| `SessionController` | the controller | Naturals |
| `ListeningPromise` | abstract specification: what the user is promised | - |
| `SessionRefinement` | the mapping from the one to the other | `SessionController` |
| `MCSession` | symmetry for TLC | `SessionRefinement`, TLC |
| `CaptureSession` | capture threads | Sequences, Naturals |
| `RuntimeShutdown` | start and teardown of the program, its threads | Naturals |
| `AudioPath` | pipeline, live sends, reconnect buffer and replay, composed | SequencesExt |
| `MCAudio` | symmetry for TLC | `AudioPath` |
| `PageView` | the page's notice, selection and timeline under events, answers and history | SequencesExt |
| `Services` | credential, remote and controller under requests; the page's view and event socket | - |
| `MCServices` | symmetry for TLC | `Services`, TLC |
| `SessionControllerProofs`, `SessionSequentialProofs` | theorems on the controller | `SessionController`, TLAPS |
| `SessionPromiseProofs` | theorems on the refinement | `SessionSequentialProofs`, `SessionRefinement` |
| `CaptureSessionProofs`, `RuntimeShutdownProofs`, `ServicesProofs`, `AudioPathProofs`, `PageViewProofs` | theorems on the others | their module, TLAPS |

Each of the six component modules ends with its properties; the operators marked
`mutant` are wrong variants of the definition that follows them, each of which breaks a
property (`PROJECT.json` says which).

### SessionController

An action is the code between two awaits. `pc[t]` is where a task is; tasks are the
concurrent calls of `start_new`/`resume` (`Openers`), of `stop` (`Stoppers`), the device-loss
notifications (`Losses`), the sends of live frames (`Forwards`) and one reader task per
stream, which bears the stream's name. `pc[t] \in Terminal` means: the task awaits a close
and will then publish that state, whatever has happened meanwhile, as the code does.

| Actions | Code |
|---|---|
| `OpenBegins`, `OpenConnects`, `OpenIsRefused`, `OpenSucceeds`, `OpenCaptureFails`, `OpenFails` | `_open`, 161-242 |
| `StopBegins`, `StopConnects`, `StopFindsNoStream`, `Publishes` | `stop`, 114-130; `_connect_terminal_stream`, 529-539 |
| `StopLocalCapture` | `stop_local_capture`, 132-134 (also called by the runtime's thread) |
| `DeviceIsLost`, `LossIsIgnored`, `LossIsHandled` | `_on_capture_event`, `_handle_device_loss`, 422-445 |
| `RecoveryBegins`, `RecoverWakes`, `RecoverConnects`, `RecoverStarts`, `RecoverCompletes`, `RecoverDiscards`, `RecoverRetries`, `RecoverExhausts`, `RecoverFails`, `RecoverIsDenied`, `RecoverIsObsolete` | `_recover`, 301-370 |
| `ReaderTearsDown`, `ReaderRecovers`, `ReaderStops` | `_listen`, 244-265 |
| `FrameIsSent`, `FrameIsBuffered`, `SendCompletes`, `SendFails` | `_forward_frame`, 407-420 |

Abstractions: a frame is the session under which it was captured; an exception is one of
the three reactions the code tells apart (retry, unauthorized, limit); an HTTP or websocket
call is answered by the environment in any way it may be. `live`, `served` and `running` say
what the world outside the fields looks like: open websockets, the session the remote
started on the stream in use, captures that run.

Left out: titles, transcript events, the hub; `_selected_system_label`, which may raise
before anything has changed; a `stop_local_capture` from the runtime's thread between the
assignment of the capture and its `start`; an exception of `capture.stop()` (it is the
subject of `CaptureSession`).

### CaptureSession

`start` holds the session's lock from its first step to its last; other threads can only
run their unlocked code meanwhile, or wait. That is why `_starting` is no variable: no
thread but the starter's ever sees it true. A worker's `pc` follows `_run` (getting),
`_report_error` (reporting) and `_handle_source_error` (handling, stopping, closing); the
check of line 330 and the stop of line 334 are two steps, as in the code. `close` is one
step per source: it waits for the callback that is under way (`stop_stream`), after which no
other runs, empties the queue and puts the stop mark. The `join` has a limit of one second and
holds nothing back for ever. `_offer` takes no lock: a failure that meets a full queue is put in
three steps (`DeviceFails`, `OldestIsTaken`, `FailureIsPut`), between which the worker may take
items; when it has emptied the queue before the second, the failure is dropped (lines 127-128)
and the stream is aborted "unheard". Audio and the stop mark are put in one step: nothing follows
a put of audio that fails, and the stop mark finds the queue drained and no other producer.
`CloseRaises` is a close whose stream cannot be stopped: the exception leaves the loop of
`stop`, and the history variable `unclosed` remembers what was left behind.

Left out: enumeration of devices and labels, a second `start` of one object and
`_selection_invalid` (the controller makes an object per start), contents of blocks.

### RuntimeShutdown

Threads: the main thread, which brings up the server, the window and the tray, runs the window's
loop and calls `shutdown` once that has ended; the console's, which `request_shutdown` starts at
most once; the tray's, which may quit and stop the capture as often as it likes as soon as the
icon runs, before the window's loop does. `pc[t]` is the place in `start_runtime`, in `shutdown`
or in `stop_capture`.

| Actions | Code |
|---|---|
| `ServerIsHealthy`, `ServerIsUnhealthy`, `WindowFails`, `StartFails`, `RuntimeStarts`, `LoopBegins` | `start_runtime`, 406-431; `_wait_until_healthy`; `DesktopRuntime.start` |
| `MainLeaves`, `Interrupt`, `Quit`, `TrayStopsCapture`, `TrayStopsController` | the callers: 248-299, 429-443 |
| `ReturnsComplete`, `Owns`, `Waits`, `LooksAgain`, `GivesUpWaiting` | who owns the teardown, 301-324 |
| `DestroysWindow`, `ReadsState`, `StopsLocalCapture`, `StopsSession`, `StopsServer`, `StopsTray`, `Skips`, `Finishes` | the steps, 326-378 |
| `InterruptKills`, `InterruptEnds` | a KeyboardInterrupt while the handler is not installed |
| `BrowserOnlyEnds` | `start_browser_only`, `_stop_browser_only_server`, 481-533 |
| `ServerComesUp`, `ServerCloses` | the server's thread |
| `SessionStarts`, `CaptureStarts`, `SessionEnds` | the two halves of `_open`, `session.py:161-241`; the ends of a session, `session.py:372-451` |

Each step of `_complete_teardown_step` succeeds, fails, or is skipped because its flag is set.
`owner` is `_shutdown_owner` and stands for `_shutdown_in_progress` too, which the code writes
together with it. `join` with a time limit is two actions: the owner's thread has ended
(`LooksAgain`), or it lives (`GivesUpWaiting`). The session is reduced to its state, `active`,
and to whether a capture runs, `recording`. It may start and end at any time from the window's
loop on until the server has closed, and neither of the two follows from the other: an opening
starts its capture after its awaits, whatever was published meanwhile (`CaptureStarts`), and an
end publishes its state after an await, over a session started meanwhile (`SessionEnds`). The
history variable `escaped` is true of a capture that the controller has let go of, or shows as
not active, while it runs: a late publication (`session.py:442`), a second opening that
overwrites it (`session.py:213`), a close that raises (`capture.py:313`). A
KeyboardInterrupt is no `Exception`: in a teardown of the main thread it leaves an owner that
has ended ("killed"), which the code has no way to replace.

Left out: showing and hiding the window; a `shutdown` called from inside a step by the owner
itself (line 313: no step does); the end of the process, which only cuts a behaviour short.

### Services

An action is the part of a request's handler between two awaits. `pc[k]` says where the
request of kind `k` is, `held[k]` what it read before its await: the token of a login, the
controller (and its remote) of the others. `resume` is `start`, the three history routes are
one. A request that the handler answers without a change (409, 422, 401 without credential)
is no step.

| Actions | Code |
|---|---|
| `LoginBegins`, `LoginSucceeds`, `LoginRefused`, `LoginUnavailable` | `login`, `api.py:220-236` |
| `LoginBootstraps`, `PageLoads` | `bootstrap`, `api.py:247-253`; `applyBootstrap`, `app.js:656-681` |
| `LogoutBegins`, `LogoutAtOnce`, `LogoutCompletes` | `signOut`, `app.js:732-752`; `logout`, `api.py:238-245` |
| `HistoryBegins`, `HistoryAnswers`, `HistoryRefused` | `api.py:263-301` |
| `StartBegins`, `StartSucceeds`, `StartFails`, `StartRefused` | `api.py:307-342` |
| `StopBegins`, `StopAtOnce`, `StopCompletes` | `api.py:344-354` |
| `AuthorisationIsLost`, `ServicesAreTold` | `session.py:255-257`, `345-351`; `api.py:113-120` |
| `SocketIsAccepted`, `SocketCloses`, `SocketRetries` | `events`, `api.py:356-382`; `connectEvents`, `app.js:709-730` |

A controller is reduced to what `Services` depends on: `mode` is "starting" or "live" when a
start would be answered 409, `recording` says that it has a capture, `notices` that it is about
to report a refusal. How it gets there is `SessionController`'s subject: `SessionEnds` stands
for every ending that needs no request, and between its awaits a stop ends the recording at
once and publishes at its end, as there. `KeyringFails` stands for any exception of the
keyring's delete, also for one that finds nothing to delete. The history variable `orderly` is
true as long as each request found the earlier ones answered, no notice pending and nothing
recording but the installed controller.

Left out: devices and the saved selection, the validation of requests, payloads, a reload of
the page while it awaits a login or logout, more than one page.

### AudioPath

The path of the audio: blocks of 20 ms come from both sources, `feed` gathers them into frames
with an offset, each frame is scheduled on the loop, and there it is sent, buffered or dropped.
Sends and the replay suspend; everything between two awaits is one action. What moves no frame
(the awaits of an opening, of an end, of a reconnection) is `SessionController`'s subject and
one step here.

| Actions | Code |
|---|---|
| `BlockYieldsNothing`, `BlockIsHeld`, `BlockCompletesFrame` | `feed`, `audio.py:57-98`; the worker's consumer, `session.py:389-405`, and its exceptions, `capture.py:335` |
| `SendBegins`, `SendReturns`, `SendRaises`, `FrameIsBuffered`, `FrameIsDropped` | `_forward_frame`, `session.py:407-420`; `enqueue_audio_frames`, 153-159 |
| `OpenSucceeds`, `CaptureIsRefused`, `OpenIsRefused` | `_open`, 161-242; `next_offset_ms`, `audio.py` |
| `SessionEnds`, `StreamFails` | every end and every begin of a recovery |
| `Reconnects`, `ReplaySendReturns`, `ReplayFails` | `_recover`, 333-344: the iterator of the list, by index |

A frame is its session, channel and offset, in blocks. The sort of the list is an insertion
behind the frames that do not start later (`Behind`); Python's sort is stable, so that a new
frame goes behind its equals. The microphone and the system source have clocks of their own,
so that a frame of the one that lags is inserted below frames that were already replayed: that
is how the list shifts under its iterator (`disturbed` remembers it). `spoken` and `rebased`
are history: how far each channel of a session has spoken, and which sessions were resumed
after another one had been opened, for which `_open` starts the clock at 0 again.

Left out: samples and the encoding of a frame; a resampler that returns more than one block for
a block; the unused `reset`; the number of retries.

### PageView

The page while it is signed in. The controller is reduced to what it publishes: `StateChanges`
allows every ending and every revival that `SessionController` has, and more. Messages go
through the hub's queue and the event socket (`inbox`); the answers of requests come on
connections of their own and may overtake them or be overtaken.

| Actions | Code |
|---|---|
| `StartIsRefused`, `OpeningBegins`, `OpeningSucceeds`, `OpeningFails`, `StopIsServed`, `StopIsRefused` | `start_session`, `resume_session`, `stop_session`, `api.py:303-354`, by what they publish and answer |
| `TrayStops`, `StateChanges`, `DeltaIsHeard`, `SegmentIsHeard` | what the controller does by itself; the numbers of utterances, `remote.py:286-311` |
| `SocketBreaks`, `SocketReopens`, `BootstrapIsSent` | `connectEvents`, `app.js:709-730`; `events`, `api.py:356-382` |
| `HandlesEvent` (status, bootstrap, session, text) | `handleEvent`, `applyBootstrap`, `renderDelta`, `renderSegment` |
| `PageStarts`, `StartIsAnswered`, `PageStops`, `StopIsAnswered`, `PreparesNewSession` | `startSession`, `stopSession`, `prepareNewSession` |
| `Selects`, `HistoryIsRead`, `HistoryArrives` | `selectSession`, `renderSegment` of each segment of the page |

An utterance is a session and a number on one channel; `pendingDeltas` knows it by the number
alone, and so does `WithDelta`. The timeline is kept without the order of its rows, on which no
property depends: which utterances have a pending row, and how many rows each has for good. `failed` stands for `device_selection_required` too, which no
guard of the page tells apart. Two history variables name what the properties have to except:
`overruled`, an answer has contradicted the events handled since its request (a failed start
restores the state of before, a stop's answer says "stopped" over a later "starting");
`mixed`, a load of history is outstanding together with live text or with another load.

Left out: warnings and errors, devices, the list of sessions, the timer; the pages of one load
are one arrival, that of all segments up to the number read; more than one page.

## 3. What TLC checks

All runs take breadth-first search to the end. Deadlock is checked everywhere but in
`ShutdownThreads`, where the program does end, and in the runs of `AudioPath` and `PageView`,
whose bounds on openings, blocks and requests are what stops them.

| Run | Instance | Result |
|---|---|---|
| `SessionSequential` | one request at a time, 2 sessions, 2 streams, 2 captures, all 5 retries; no device loss, no failing send | passes; includes the refinement of `ListeningPromise` |
| `SessionAllFaults` | requests overlap, a device and a send fail; 1 retry, symmetry | passes, about 900,000 states |
| `SessionAwaitsEnd` | requests overlap, a device fails; liveness, no symmetry | passes, about 120,000 states |
| `CaptureThreads` | start, two stopping threads, queues of 2 blocks, closes that may raise | passes, 80,656 states |
| `ShutdownThreads` | main, console and tray, both programs | passes, 201,742 states |
| `LoginLifetime` | requests of all kinds overlap; 2 tokens, 3 controllers, symmetry | passes, 183,118 states |
| `AudioPath` | 2 sessions, 2 openings, 4 blocks a channel, a buffer of 2 frames, symmetry | passes, 2,188,332 states |
| `PageView` | 2 sessions, 2 requests, 2 upsets, 1 utterance; liveness, no symmetry | passes, 1,292,687 states |
| `StopWhileStarting`, `ForeignAudio`, `ReplayInOrder`, `NoticeLost` | the smallest instance that shows it | a counterexample each, section 4 |

What the passing runs show:

- `SessionSequential`: however streams end, fail, are refused or denied, and whatever
  recovery does, a capture runs only in an active state (`CaptureImpliesActive`), it is the one
  the controller holds (`RunningIsOwned`), no websocket is forgotten (`StreamsAreOwned`),
  "streaming" means stream, reader and capture together (`StreamingIsComplete`), only an
  opening revives an ended session (`TerminalLeftByOpen`). `KeepsPromise` is the refinement, safety and liveness: nothing is
  recorded outside a session, recording that stops never resumes by itself, an opening is
  decided and a silent session is declared over.
- `SessionAllFaults`: under everything at once, audio still goes only to a stream on which
  the remote started the controller's session (`StreamServesSession`).
- `SessionAwaitsEnd`: neither a device loss nor overlapping requests leave the session starting
  or reconnecting, or the recovery flag set, for ever.
- `CaptureThreads`: a start that raises leaves no source running, a running source has an
  owner, a failing source stops both in spite of full queues, locks and other stops, a lost
  device that a worker has heard of is told unless somebody else gave the capture up, and workers
  end; each of the five with the exception that a close has raised. `FailureStopsAll` has another:
  a failure that `_offer` dropped stops nothing. Without it the run fails by the trace of
  section 4.
- `ShutdownThreads`: one teardown at a time; no step succeeds twice; a complete shutdown has
  flagged every step and stopped the window, the server and the tray once (`CompleteIsDone`),
  except that a local stop that failed is not made up for once the controller's has succeeded; it
  leaves a capture only if that started after the state was read or the earlier session stopped,
  or if it had escaped the controller (`CompleteIsSilent`). Each exception is needed: without it
  the run fails. The main thread returns, from wherever the
  start had come to, only when the server has been told to exit or another teardown is under way
  (`ServerIsTold`); every call returns, unless an interrupt has ended the main thread in its
  teardown, after which the other callers look again for ever.
- `LoginLifetime`: whatever overlaps, and however the keyring fails, an installed controller
  sends the stored token (`CredentialsAgree`). While requests are made one after the other,
  what records is the installed controller's session, in the main view, with its events
  reaching the page, or one whose token the service refuses (`OnlyRefusedAreForgotten`,
  `RecordingIsVisible`, `EventsReachPage`). The condition `orderly` is needed: a start that is
  answered after a logout records unreachably. A refused one may, too: a refused history
  request forgets the controller without stopping it, and its recording goes on until the
  stream meets the refusal itself.

- `AudioPath`: however sends fail late, replays are broken off and repeated and the buffer
  overflows, it stays ordered and bounded (`BufferIsBounded`); a captured frame of a session
  that goes on leaves the desktop's hands only by being sent, by the bound, or by a disturbed
  replay (`FramesAreKept`); the remote gets a channel in order and without duplicates unless the
  replay was disturbed (`StreamInOrder`); offsets never overlap, also after a resume
  (`SpeechNeverOverlaps`). The last two except sessions that were resumed after another one had
  been opened: their clock has started again, and a send that has outlived such a session brings
  a frame with an offset that the resumed session uses a second time.
- `PageView`: once messages and answers have arrived, the notice is right and the captured
  session is the selected one, unless an answer contradicted the events (`NoticeIsRight`,
  `SelectedIsLive`); no utterance has two rows unless a load met live text or another load
  (`OneRowEach`); and whatever breaks, the notice becomes right again (`PageCatchesUp`). The
  three exceptions are real: without `overruled` the run fails as `NoticeLost` does, without
  `mixed` by a segment that is heard while its session's history is being read.

How far the controller's properties reach. With device losses but no failing sends,
`CaptureImpliesActive`, `RunningIsOwned`, `StreamsAreOwned`, `StreamingIsComplete` and
`TerminalLeftByOpen` fail: the end of a loss's handling is published after an await, over a
session started meanwhile, which records on in a state that the page, the quit dialog and the
teardown take for inactive. With overlapping requests they fail through `StopWhileStarting`.
With failing sends they fail because a late failure recovers an ended session, see
`ForeignAudio`. That is why they are checked in the sequential instance.

### Bounds

- *Two sessions, two streams, two captures.* An identity that is confused needs two; a name
  is used again once nothing refers to it, so that behaviours have no limit of connections.
- *One opener, one stopper, one loss, one forward.* They restart for ever; the interactions
  modelled are between different operations, and reader tasks and the recovery come on top.
  Two openings overlap only after a stop that was accepted while the first was starting, and
  then `RunningIsOwned` and `StreamsAreOwned` fail as well (the later opening overwrites the
  earlier one's capture); that needs a second opener and has no run. `SessionServed` and
  `TypeCorrect` are proved for any number of openers.
- *One retry* except in `SessionSequential`: the attempts differ only in their delay. There
  the code's five are used; `SessionAwaitsEnd` with two retries passes as well.
- *Queues of two blocks*: the smallest at which a failure meets a full, a partly full and an
  emptied queue. A queue is full of blocks exactly as with the code's length.
- *Two tokens, three controllers* in `LoginLifetime`: a late refusal needs an old token and a
  new one; besides the installed controller one may be held by a request and one record
  forgotten. A controller's name is used again once nothing holds it. One request per kind is
  pending at a time, as the page's buttons suggest; all kinds overlap.
- *One tray thread*, as the icon's loop is one thread; the proofs allow any number.
- *Frames of two blocks, four blocks a channel* in `AudioPath`: two frames of each channel and
  every phase of the clock at an opening. *A buffer of two frames*: with three frames at hand an
  insertion shifts, truncates, or both. *Two openings*: a resume, a change of session. The
  return to an earlier session takes a third, with which the search does not end in time (with
  three blocks a channel it does, and the invariants hold); the proofs cover any number, and it
  was the proof of `StreamInOrder` that asked for the exception of `rebased` there. *One frame scheduled and
  one send at a time*: the second channel's frame overtakes a send that fails late.
- *Two requests, two upsets* in `PageView` (losses of the socket, selections, tray stops, changes
  of state that no request asked for): each answer can be overtaken by one event and one
  bootstrap, and a load can be in the way of either. Random simulation of larger bounds (10^8
  states) found nothing more, and `NoticeIsRight` is proved without bounds.

### Fairness

Weak fairness, per task, and only for steps that the code's scheduler or a time limit brings
about. In `SessionController`: every await is answered, well or badly (a connection attempt,
the first event, a send, a close, a receive on a closed stream). Receives on an open stream,
requests and device losses have none. The first event has no time limit in the code
(line 191), so that `StartingEnds` rests on the server: a server that accepts and stays silent
leaves the session starting. In `CaptureSession`: threads and callbacks that can run do;
devices and callers need not. In `RuntimeShutdown`: a call of `shutdown` goes on, since steps have time limits;
callers, sessions and the server's end need not happen. In `PageView`: a request is served and
answered, a lost socket is opened again after its second, and messages are handled in turn;
users, the remote and breaks have none. `Services` and `AudioPath` state safety only.

## 4. Where code and documentation differ

| Run | What it shows |
|---|---|
| `StopWhileStarting` | `stop` during `_open` publishes "stopped"; `_open` never looks at the state again and starts the capture. |
| `ForeignAudio` | A send that fails after the session ended starts a recovery, and its frame enters the buffer of the next session and is replayed to it. |
| `ReplayInOrder` | A frame of the lagging channel that is buffered during the replay shifts the list under its iterator: one frame is sent twice, the new one is cleared unsent. |
| `NoticeLost` | A start whose devices cannot be saved is answered 500 after the session has opened: the page takes its recording notice away while the session is recorded. |

`PROJECT.json` quotes the statement that each contradicts. Five more disagreements were met and
have no run of their own:

- the late publication of a device loss (section 3);
- the first close that raises (`CloseRaises`) ends the loop of `stop`, so that the other source
  captures on with no handle left;
- `_offer` drops a failure when the worker empties the full queue between the put that raised and
  the get (`capture.py:127-128`): its stream is aborted, nobody is told, and the other source
  captures on, although `test_capture_session_stops_both_sources_when_one_callback_fails` expects
  both to stop (the exception of `FailureStopsAll`);
- a failed local stop is not retried once the controller's stop has succeeded, since line 334
  asks only for the latter's flag, although the docstring of `shutdown` (line 302) says that a
  step that failed is retried (the exception of `CompleteIsDone`);
- a refused token is deleted while the page stays in the main view, its event socket connecting
  and being closed for ever (`app.js:721`).

## 5. What is proved

All theorems hold for every value of the constants; `tlapm` checks them to the last leaf.

**SessionControllerProofs** (assumption: `ConstantsAssumption`, which only keeps names apart).
`TypeCorrect`: `[]TypeOK`. `TypeOK` is not inductive: a failing send puts its session into the
buffer, so that `SessionKnown` must add that who records or sends does so for a session.
`SessionServed`: `[]StreamServesSession`, with all faults and overlaps. It is inductive by
itself: the two places that assign the stream have compared or just set the identity.

**SessionSequentialProofs** (in addition `Sequential`: requests do not overlap, no losses, no
failing sends, all of them needed, as section 3 says). `RecordingIsShown`
(`CaptureImpliesActive`), `RecordingIsStoppable` (`RunningIsOwned`), `OverUntilOpened`
(`TerminalLeftByOpen`). The inductive invariant is `SequentialInv`: one task holds the session
at a time, a request or the reader of `_reader_task` (`OneHolder`); the holder knows its stream
(`StreamKnown`); what is recorded is recorded for the holder (`RecordingHeld`). None of the
three follows without the others: a recovery keeps the state "reconnecting" only because no
request can publish beside it.

**SessionPromiseProofs** (under `Sequential`, too). `NoStreamIsLeaked` (`StreamsAreOwned`),
`StreamingStaysComplete` (`StreamingIsComplete`) and `PromiseIsKept`, the safety part of the
refinement: the controller's initial state is one of `ListeningPromise`, and each of its steps
is a step of the promise or leaves its variables alone. `HeldInv` adds to `SequentialInv` where
the streams are: at each place of a recovery which fields hold the old stream and the new one
(`RecoveryHolds`), who holds an open stream while there is no reader (`StreamsHeld`), that a
session shown as going on has a reader or a stop that is about to end it (`HolderKnown`), and
that its capture runs until it is given up (`RecordingKept`). The last is what the promise asks
of a recovery: recording neither pauses nor resumes in it.

**CaptureSessionProofs** (`CaptureAssumption`: at least one block in a queue, distinct threads,
None is neither a thread nor a kind of failure). `NoSourceIsLost` (`SourcesAreOwned`),
`FailedStartLeavesNone` (`StartLeavesNone`), `CaptureTypes` (`TypeOK`, with the bound of the
queues from `PutTyped` and `TailTyped`) and `LossStaysTold` (`LossIsTold`), for any number of stopping threads
and any length of the queues. The argument is the lock: `OwnershipInv` says that the starter holds
it at each of its places, and that until it has succeeded no other thread has taken a source.
`TellingInv` adds that the sources are taken once (`TakenOnce`: what is handled and no longer
installed has a taker, and nothing is installed after it), and that a worker that took them has
told when it ends (`TakerTells`). A worker that finds its source gone can therefore go without a
word: its loss is excused by the taker, for good (`LossStep`).

**RuntimeShutdownProofs** (`ShutdownAssumption`). `ShutdownTypes`, `OnlyOneTearsDown`,
`NoStepTwice`, `CompletionIsEarned`, `CompletionIsSilent` and `ServerStaysTold`, for any number of tray threads,
from `ShutdownInv`: the owner's place tells which steps are flagged or recorded as failed
(`Progress`), flags are earned by exactly one success (`FlagsAreEarned`, in which the local stop
may lack its flag beside a controller that was stopped), and what records is shown as active or
has escaped (`Silence`, which every start and end of a session keeps). `Progress` is what makes "no failures" at the last place
mean that everything is done; it needs `OneTeardown`, without which another owner could reset
the failures. `Telling` adds that telling the server never fails, so that no owner is released
before, and that who waits does so beside an owner.

**ServicesProofs** (`ServicesAssumption`: None is neither a token nor a controller).
`ServicesTypes`, `CredentialsStayAgreed`, `ForgottenIsRefused`, `RecordingStaysVisible` and
`EventsReachThePage`, for any number of tokens and controllers. `CredentialsAgree` is inductive
with the types of what is held (`HeldKnown`), without a word on the order of requests: the keyring is written only together
with token and controller, and `AuthenticatedKeeps` shows that `authenticated()` therefore
never replaces a controller. The other two need `InOrder`: one request at a time, at most one
session (`OneAtATime`), and what a pending request or notice may still forget does not record,
or is refused (`PendingIsHarmless`). `EventsReachPage` needs more, since a controller may be
replaced under an open socket (a refusal is told, the keyring fails, and the next request finds
the token without a controller): `SubscriberIsCurrent` says that the token is then refused, so
that the new controller starts no session. It rests on `ForgottenIsOver`, a session that is
forgotten or about to be leaves no valid credential, and on `PageAgrees`, the login view has no
socket: a new token comes only from there.

**AudioPathProofs** (`PathAssumption`), for every length of the frame and of the buffer and
any number of sends. `PathTypes`: `[]TypeOK`; an insertion, a truncation and a removal are
described once, by what is at each index (`Inserted`, `Truncated`, `Removed`).
`BufferStaysBounded`: inductive with the types alone, from `InsertedInOrder`: what is put
behind the frames that do not start later keeps the order, and a suffix of an ordered sequence is
ordered. `SpeechStaysApart`: `SpeechInv` says that a frame in the making ends within what was
captured, and that a session outside `rebased` has spoken on each channel only up to where the
next frame starts.
`FramesStayKept`: `ReplayInv` says that,
while the list has not shifted, every frame below the replay's position but the one being sent
was received: that is what makes the final clear harmless. `StreamStaysInOrder`
(`StreamInOrder`), from all of these and `LineInv`, which follows a frame over every place it can
be at: whatever has left the loop's queue comes before what waits there, the sends began in
their order, no frame is in the buffer twice or both there and being sent (`WaitingLine`), the
stream has taken its frames before those still being sent on it (`ReceivedLine`), and a recovery
has sent exactly the buffer below its position (`ReplayLine`). Two frames are compared only if
the clock of their session has never started again (`Before`). The bound on the buffer is what
puts the replay in order: what is distinct and ordered by offset is increasing.

**PageViewProofs** (`PageAssumption`). `NoticeStaysRight`, for any number of requests, upsets,
sessions and utterances. `NoticeIsRight` speaks of the state at rest; `NoticeInv` says why it is
right there: the last message on its way that carries a state carries the controller's (`Tells`),
and when none is on its way, the page agrees with the controller, or an unheard start that was
refused is about to restore a state that does (`Agrees`). A successful opening publishes before
it answers, so that its answer is always heard by then. `SelectionStaysLive` (`SelectedIsLive`)
has the same shape: what makes a session stream is told together with its
identity, and a session on its way to the page has a status behind it (`Followed`). What the page selects of its own is harmless while a session
streams, since an unheard start names the session it has opened (`StartKnown`). `RowsStaySingle`
(`OneRowEach`) and `PageTypesHold` (`TypeOK`) rest on `RowsInv`: the segment of an utterance is
the last text that is told of it, and the server has counted it (`SegmentsLast`); what is shown
for good is shown once, and no text of it is on its way (`RowsKnown`); a load that nothing meets
finds an empty timeline and no text coming (`LoadAlone`). A load can therefore only bring rows
that are not there, and what is said after it carries a number it has not read (`LoadsRead`).

Only model-checked: the liveness properties `StartingEnds`, `ReconnectingEnds`,
`RecoveryFinishes`, `FailureStopsAll`, `WorkersEnd`, `CallsReturn` and `PageCatchesUp`, and the
liveness part of the refinement `KeepsPromise`: they rest on fairness and on ENABLED, which the
prover does not support. Every other property of the passing runs is a theorem.

## 6. Plan

Done, in this order: controller, its promise, its theorems; capture; teardown; services; the
path of the audio; the page's view.

Next, the most important first:

1. Two abstract specifications worth stating, now that the invariants they need are proved: a
   teardown as "requested, then everything stopped exactly once", implemented by
   `RuntimeShutdown`; and a path of the audio as "a channel's frames are delivered in order, but
   for an overflow", implemented by an `AudioPath` whose replay is not disturbed. Their safety
   parts are refinements of the kind of `PromiseIsKept`.
2. Theorems on how far the violated statements do hold: in which instances the buffer never
   shifts under its replay, and which answers may overrule the notice.

Not modelled, and why: settings file and environment (`settings.py`, `config.py`) are
single reads and writes; HTTP, JSON and websocket libraries are external; the tray's icon, the
page's markup and styles, the installer and the scripts carry no logic of the system.
