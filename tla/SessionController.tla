-------------------------- MODULE SessionController --------------------------
(***************************************************************************)
(* DesktopSessionController (session.py): the coroutines that open, read,  *)
(* recover, finalise and lose one remote listening session on one asyncio  *)
(* loop.  An action is the code between two awaits, so that every          *)
(* interleaving the loop can produce is a behaviour.                       *)
(*                                                                         *)
(* The answer of an await (a connection, the first event, a send, a close) *)
(* is chosen by the environment.  Audio frames are abstracted to the       *)
(* session under which they were captured, and failures to the reactions   *)
(* the code distinguishes: "retry" (any other exception), "unauthorized"   *)
(* (close code 4401, HTTP 401/403) and "limit" (credit 4402, duration      *)
(* 4403).  A stream counts as released as soon as a close of it begins.    *)
(***************************************************************************)
EXTENDS Naturals

CONSTANTS
    None,          \* Python's None
    Uuids,         \* logical remote sessions
    Streams,       \* remote websocket streams; a name is reused once nothing holds it
    Captures,      \* CaptureSession objects; a name is reused once nothing holds it
    Openers,       \* bound: concurrent calls of start_new or resume
    Stoppers,      \* bound: concurrent calls of stop
    Losses,        \* bound: concurrent device_lost notifications; {} when no device fails
    Forwards,      \* bound: concurrent sends of live frames; {} when no send can fail
    MaxAttempts,   \* len(RETRY_DELAYS_SECONDS)
    Overlap        \* may a request begin while another request is in progress?

\* A task is a coroutine in progress; the reader task of a stream bears its name.
Tasks == Openers \cup Stoppers \cup Losses \cup Forwards \cup Streams

ASSUME ConstantsAssumption ==
    /\ None \notin Tasks \cup Uuids \cup Captures
    /\ Streams \cap (Openers \cup Stoppers \cup Losses \cup Forwards) = {}
    /\ Openers \cap Stoppers = {}
    /\ MaxAttempts \in Nat \ {0}
    /\ Overlap \in BOOLEAN

Active == {"starting", "streaming", "reconnecting"}
Terminal == {"device_selection_required", "stopped", "failed"}
States == {"idle"} \cup Active \cup Terminal
Failures == {"retry", "unauthorized", "limit"}

VARIABLES
    state,           \* self.state
    sessionUuid,     \* self._session_uuid
    stream,          \* self._stream
    recoveryStream,  \* self._recovery_stream
    capture,         \* self._capture
    readerTask,      \* self._reader_task, None once that task has ended
    buffered,        \* sessions whose frames are in self._buffered_frames
    pc,              \* where each task is; a state's name: it waits for a close and
                     \* will then publish that state
    opening,         \* locals of _open: its stream and the session to resume
    sending,         \* the session of the frame a _forward_frame is sending, or None
    rec,             \* the recovery that holds self._recovery_active
    live,            \* streams connected and not yet handed to a close
    served,          \* the session the remote started on self._stream
    running          \* captures whose sources run

streams == <<stream, recoveryStream>>
audio == <<capture, running, buffered>>
fields == <<state, sessionUuid, streams, capture, readerTask, buffered>>
locals == <<opening, sending>>
vars == <<fields, pc, locals, rec, live, served, running>>

NotOpening == [stream |-> None, resume |-> None]
NoRecovery == [pc |-> "idle", owner |-> None, attempt |-> 1, stream |-> None,
               failure |-> "retry"]

Places == Terminal \cup {"idle", "connecting", "awaiting", "posted", "sending", "reading",
                        "recovering"}
Recoveries == [pc : {"idle", "sleeping", "connecting", "awaiting", "replaying",
                     "discarding", "exhausted", "failing"},
               owner : Streams \cup Forwards \cup {None},
               attempt : 1..MaxAttempts,
               stream : Streams \cup {None},
               failure : Failures]

TypeOK ==
    /\ state \in States
    /\ sessionUuid \in Uuids \cup {None}
    /\ {stream, recoveryStream, readerTask} \subseteq Streams \cup {None}
    /\ capture \in Captures \cup {None}
    /\ buffered \subseteq Uuids
    /\ pc \in [Tasks -> Places]
    /\ opening \in [Openers -> [stream : Streams \cup {None}, resume : Uuids \cup {None}]]
    /\ sending \in [Forwards -> Uuids \cup {None}]
    /\ rec \in Recoveries
    /\ live \subseteq Streams
    /\ served \in Uuids \cup {None}
    /\ running \subseteq Captures

Init ==
    /\ state = "idle"
    /\ sessionUuid = None
    /\ stream = None /\ recoveryStream = None
    /\ capture = None /\ running = {} /\ buffered = {}
    /\ readerTask = None
    /\ pc = [t \in Tasks |-> "idle"]
    /\ opening = [o \in Openers |-> NotOpening]
    /\ sending = [f \in Forwards |-> None]
    /\ rec = NoRecovery
    /\ live = {}
    /\ served = None

-----------------------------------------------------------------------------
\* The pieces the coroutines share.

\* A name that nothing refers to stands for a newly made object.
FreshStream(s) ==
    /\ s \notin live \cup {stream, recoveryStream, rec.stream}
    /\ pc[s] = "idle"
    /\ \A o \in Openers : opening[o].stream # s
FreshCapture(c) == c \notin running \cup {capture}

GoTo(t, where) == pc' = [pc EXCEPT ![t] = where]

ForgetsCapture == capture' = None /\ UNCHANGED running   \* mutant: no capture.stop()
StopCapture == capture' = None /\ running' = running \ {capture}

\* stream = self._stream or self._recovery_stream
Taken == IF stream # None THEN stream ELSE recoveryStream

\* Mutant: the recording outlives the session.
KeepsCapture ==
    /\ buffered' = {} /\ stream' = None /\ recoveryStream' = None
    /\ live' = live \ {Taken}
    /\ UNCHANGED <<capture, running>>

\* Capture, buffer and streams are given up together, and the close of the
\* stream that was taken begins.
TearDown ==
    /\ StopCapture
    /\ buffered' = {} /\ stream' = None /\ recoveryStream' = None
    /\ live' = live \ {Taken}

\* Cancelling a task that has ended has no effect: it is as good as None.
ForgetReader(r) == readerTask' = IF readerTask = r THEN None ELSE readerTask

\* asyncio.create_task(self._listen(iterator)), the last thing task t does.
NoReader(t, s) == readerTask' = s /\ GoTo(t, "idle")   \* mutant
StartReader(t, s) ==
    /\ readerTask' = s /\ pc' = [pc EXCEPT ![t] = "idle", ![s] = "reading"]

\* Task t has torn the session down: it publishes the outcome at once, or once
\* the stream that was taken is closed.
ThenPublishes(t, outcome) ==
    IF Taken = None
    THEN state' = outcome /\ GoTo(t, "idle") /\ ForgetReader(t)
    ELSE GoTo(t, outcome) /\ UNCHANGED <<state, readerTask>>

\* ... whatever has happened meanwhile.
Publishes(t) ==
    /\ t \notin Openers /\ pc[t] \in Terminal
    /\ state' = pc[t]
    /\ GoTo(t, "idle") /\ ForgetReader(t)
    /\ UNCHANGED <<sessionUuid, streams, audio, locals, rec, live, served>>

-----------------------------------------------------------------------------
\* start_new and resume: _open.

\* The UI awaits the answer of a request before it sends another one.
MayRequest == Overlap \/ \A t \in Openers \cup Stoppers : pc[t] = "idle"

OpenBegins(o) ==
    /\ MayRequest /\ pc[o] = "idle"
    /\ state \notin Active
    /\ state' = "starting" /\ buffered' = {}
    /\ \E resume \in Uuids \cup {None} : opening' = [opening EXCEPT ![o].resume = resume]
    /\ GoTo(o, "connecting")
    /\ UNCHANGED <<sessionUuid, streams, capture, readerTask, sending, rec, live, served,
                   running>>

OpenConnects(o) ==
    /\ pc[o] = "connecting"
    /\ \E s \in Streams :
         /\ FreshStream(s)
         /\ live' = live \cup {s}
         /\ opening' = [opening EXCEPT ![o].stream = s]
    /\ GoTo(o, "awaiting")
    /\ UNCHANGED <<fields, sending, rec, served, running>>

\* The first event is an error, is no SessionStarted, or names another session.
OpenIsRefused(o) ==
    /\ pc[o] = "awaiting"
    /\ live' = live \ {opening[o].stream}
    /\ GoTo(o, "failed")
    /\ UNCHANGED <<fields, locals, rec, served, running>>

\* The remote started session u on the stream: the controller adopts both.
AdoptStarted(o, u) ==
    /\ pc[o] = "awaiting" /\ opening[o].resume \in {None, u}
    /\ sessionUuid' = u /\ stream' = opening[o].stream
    /\ served' = u

OpenSucceeds(o, u) ==
    /\ AdoptStarted(o, u)
    /\ \E c \in Captures :
         FreshCapture(c) /\ capture' = c /\ running' = running \cup {c}
    /\ state' = "streaming"
    /\ StartReader(o, opening[o].stream)
    /\ opening' = [opening EXCEPT ![o] = NotOpening]
    /\ UNCHANGED <<recoveryStream, buffered, sending, rec, live>>

\* CaptureSession.start raises; no source is left running.
OpenCaptureFails(o, u) ==
    /\ AdoptStarted(o, u)
    /\ \E c \in Captures : FreshCapture(c) /\ capture' = c
    /\ live' = live \ {opening[o].stream}
    /\ GoTo(o, "failed") \/ GoTo(o, "device_selection_required")
    /\ UNCHANGED <<state, recoveryStream, readerTask, buffered, locals, rec, running>>

\* What the except branches publish, at once when there is no stream to close.
OutcomeLost(o) == IF pc[o] = "connecting" THEN state ELSE pc[o]   \* mutant
OutcomeOf(o) == IF pc[o] = "connecting" THEN "failed" ELSE pc[o]

OpenFails(o) ==
    /\ pc[o] \in Terminal \cup {"connecting"}
    /\ StopCapture /\ buffered' = {} /\ state' = OutcomeOf(o)
    /\ GoTo(o, "idle")
    /\ opening' = [opening EXCEPT ![o] = NotOpening]
    /\ UNCHANGED <<sessionUuid, streams, readerTask, sending, rec, live, served>>

OpenProceeds(o) ==
    \/ OpenConnects(o)
    \/ OpenIsRefused(o)
    \/ \E u \in Uuids : OpenSucceeds(o, u) \/ OpenCaptureFails(o, u)
    \/ OpenFails(o)

-----------------------------------------------------------------------------
\* stop and stop_local_capture.

\* reader.cancel(): the task unwinds through `finally: _recovery_active = False`.
LeaveReader == UNCHANGED rec   \* mutant: the recovery of the reader goes on
CancelReader == rec' = IF rec.owner = readerTask THEN NoRecovery ELSE rec
WithoutReader == IF readerTask = None THEN pc ELSE [pc EXCEPT ![readerTask] = "idle"]

StopBegins(p) ==
    /\ MayRequest /\ pc[p] = "idle"
    /\ state # "stopped"
    /\ TearDown /\ CancelReader /\ readerTask' = None
    /\ IF Taken = None /\ state # "reconnecting"
       THEN state' = "stopped" /\ pc' = WithoutReader
       ELSE /\ pc' = [WithoutReader EXCEPT ![p] = IF Taken = None THEN "connecting"
                                                               ELSE "stopped"]
            /\ UNCHANGED state
    /\ UNCHANGED <<sessionUuid, locals, served>>

\* _connect_terminal_stream answers a stream, which is ended and closed ...
StopConnects(p) ==
    /\ pc[p] = "connecting"
    /\ GoTo(p, "stopped")
    /\ UNCHANGED <<fields, locals, rec, live, served, running>>

\* ... or None.
StopFindsNoStream(p) ==
    /\ pc[p] = "connecting"
    /\ state' = "stopped"
    /\ GoTo(p, "idle")
    /\ UNCHANGED <<sessionUuid, streams, audio, readerTask, locals, rec, live, served>>

StopProceeds(p) == StopConnects(p) \/ StopFindsNoStream(p)

\* Called alone by the runtime's quit and shutdown paths.
StopLocalCapture ==
    /\ Overlap /\ StopCapture
    /\ UNCHANGED <<state, sessionUuid, streams, readerTask, buffered, pc, locals, rec, live,
                   served>>

-----------------------------------------------------------------------------
\* Device loss: the capture stops itself, then posts a task to the loop.

DeviceIsLost(l) ==
    /\ pc[l] = "idle"
    /\ \E c \in running : running' = running \ {c}
    /\ GoTo(l, "posted")
    /\ UNCHANGED <<fields, locals, rec, live, served>>

LossIsIgnored(l) ==
    /\ pc[l] = "posted" /\ state \notin Active
    /\ GoTo(l, "idle")
    /\ UNCHANGED <<fields, locals, rec, live, served, running>>

LossIsHandled(l) ==
    /\ pc[l] = "posted" /\ state \in Active
    /\ TearDown /\ ThenPublishes(l, "device_selection_required")
    /\ UNCHANGED <<sessionUuid, locals, rec, served>>

-----------------------------------------------------------------------------
\* _recover, run by the task `owner`: a reader or a forwarded frame.

MayRecover == rec.pc = "idle" /\ sessionUuid # None

RecoveryBegins(owner) ==
    /\ rec' = [NoRecovery EXCEPT !.pc = "sleeping", !.owner = owner]
    /\ recoveryStream' = stream /\ stream' = None
    /\ state' = "reconnecting"
    /\ GoTo(owner, "recovering")

\* Mutant: no `finally: _recovery_active = False`.
KeepsFlag == GoTo(rec.owner, "idle") /\ ForgetReader(rec.owner) /\ UNCHANGED rec

\* The owner's task ends with the recovery it awaited.
RecoveryEnds ==
    /\ rec' = NoRecovery
    /\ GoTo(rec.owner, "idle") /\ ForgetReader(rec.owner)

RecoverWakes ==
    /\ rec.pc = "sleeping" /\ state = "reconnecting"
    /\ rec' = [rec EXCEPT !.pc = "connecting"]
    /\ UNCHANGED <<fields, pc, locals, live, served, running>>

RecoverIsObsolete ==
    /\ rec.pc = "sleeping" /\ state # "reconnecting"
    /\ RecoveryEnds
    /\ UNCHANGED <<state, sessionUuid, streams, audio, locals, live, served>>

\* The new stream replaces the failed one, whose close is awaited before the
\* first event of the new one.
LeavesOpen(s) == live' = live \cup {s} /\ recoveryStream' = s   \* mutant
Supersedes(s) == live' = (live \ {recoveryStream}) \cup {s} /\ recoveryStream' = s

RecoverConnects ==
    /\ rec.pc = "connecting"
    /\ \E s \in Streams :
         /\ FreshStream(s)
         /\ Supersedes(s)
         /\ rec' = [rec EXCEPT !.pc = "awaiting", !.stream = s]
    /\ UNCHANGED <<state, sessionUuid, stream, audio, readerTask, pc, locals, served>>

AnySession(u) == u \in Uuids   \* mutant: the answer is not compared
IsCurrent(u) == u = sessionUuid

\* The remote started session u, which must be the controller's current one.
RecoverStarts(u) ==
    /\ rec.pc = "awaiting" /\ IsCurrent(u)
    /\ stream' = rec.stream /\ recoveryStream' = None
    /\ served' = u
    /\ rec' = [rec EXCEPT !.pc = "replaying"]
    /\ UNCHANGED <<state, sessionUuid, audio, readerTask, pc, locals, live>>

\* The buffer has been replayed: the new stream gets its own reader.
RecoverCompletes ==
    /\ rec.pc = "replaying"
    /\ rec' = NoRecovery /\ buffered' = {}
    /\ state' = "streaming"
    /\ StartReader(rec.owner, rec.stream)
    /\ UNCHANGED <<sessionUuid, streams, capture, locals, live, served, running>>

\* What _discard_recovery_stream is given when an await of the attempt raises:
\* the attempt's stream or, for a final failure only, the old recovery stream.
Discarded(failure) ==
    IF rec.stream = None /\ failure # "retry" THEN recoveryStream ELSE rec.stream

\* The stream is forgotten and its close begins.
Discard(s) ==
    /\ stream' = IF stream = s THEN None ELSE stream
    /\ recoveryStream' = IF recoveryStream = s THEN None ELSE recoveryStream
    /\ live' = live \ {s}
    /\ UNCHANGED <<state, sessionUuid, audio, readerTask, pc, locals, served>>

AttemptRuns == rec.pc \in {"connecting", "awaiting", "replaying"}

RecoverDiscards(failure) ==
    /\ AttemptRuns /\ Discarded(failure) # None
    /\ Discard(Discarded(failure))
    /\ rec' = [rec EXCEPT !.pc = "discarding", !.stream = None, !.failure = failure]

\* The attempt has failed and nothing is left to close.
AttemptIsOver(failure) ==
    \/ rec.pc = "discarding" /\ rec.failure = failure
    \/ AttemptRuns /\ Discarded(failure) = None

OneMoreDelay == rec.attempt <= MaxAttempts   \* mutant
DelaysRemain == rec.attempt < MaxAttempts
NextDelay == rec.attempt + 1

RecoverRetries ==
    /\ AttemptIsOver("retry") /\ DelaysRemain
    /\ rec' = [rec EXCEPT !.pc = "sleeping", !.attempt = NextDelay]
    /\ UNCHANGED <<fields, pc, locals, live, served, running>>

\* The last delay has been used: the recovery stream is discarded.
RecoverExhausts ==
    /\ AttemptIsOver("retry") /\ ~DelaysRemain
    /\ recoveryStream # None /\ Discard(recoveryStream)
    /\ rec' = [rec EXCEPT !.pc = "exhausted"]

GiveUpSilently == StopCapture /\ buffered' = {} /\ UNCHANGED state   \* mutant
GiveUp == StopCapture /\ buffered' = {} /\ state' = "failed"

RecoverFails ==
    /\ \/ rec.pc = "exhausted"
       \/ AttemptIsOver("retry") /\ ~DelaysRemain /\ recoveryStream = None
       \/ AttemptIsOver("unauthorized")
    /\ GiveUp /\ RecoveryEnds
    /\ UNCHANGED <<sessionUuid, streams, locals, live, served>>

\* _fail_from_remote, awaited by the recovery.
RecoverIsDenied ==
    /\ AttemptIsOver("limit") /\ TearDown
    /\ IF Taken = None
       THEN state' = "failed" /\ RecoveryEnds
       ELSE rec' = [rec EXCEPT !.pc = "failing"] /\ UNCHANGED <<state, readerTask, pc>>
    /\ UNCHANGED <<sessionUuid, locals, served>>

RecoverDenialCompletes ==
    /\ rec.pc = "failing"
    /\ state' = "failed"
    /\ RecoveryEnds
    /\ UNCHANGED <<sessionUuid, streams, audio, locals, live, served>>

RecoverProceeds ==
    \/ RecoverWakes \/ RecoverIsObsolete
    \/ RecoverConnects \/ (\E u \in Uuids : RecoverStarts(u)) \/ RecoverCompletes
    \/ (\E failure \in Failures : RecoverDiscards(failure))
    \/ RecoverRetries \/ RecoverExhausts \/ RecoverFails
    \/ RecoverIsDenied \/ RecoverDenialCompletes

-----------------------------------------------------------------------------
\* _listen: the reader of stream s.

\* SessionEnded ("stopped"), RemoteFailure or an exception that ends the session
\* ("failed"): _end_from_remote and _fail_from_remote.
ReaderTearsDown(s) ==
    /\ pc[s] = "reading" /\ TearDown
    /\ ThenPublishes(s, "stopped") \/ ThenPublishes(s, "failed")
    /\ UNCHANGED <<sessionUuid, locals, rec, served>>

\* Any other exception starts a recovery if the state is STREAMING.
ShouldRecover == state = "streaming" /\ MayRecover

ReaderRecovers(s) ==
    /\ pc[s] = "reading" /\ ShouldRecover
    /\ RecoveryBegins(s)
    /\ UNCHANGED <<sessionUuid, audio, readerTask, locals, live, served>>

\* The reader just ends in another state, or when a recovery is already active; an
\* ordinary event also ends a reader that finds the session inactive.
ReaderStops(s) ==
    /\ pc[s] = "reading" /\ ~ShouldRecover
    /\ GoTo(s, "idle") /\ ForgetReader(s)
    /\ UNCHANGED <<state, sessionUuid, streams, audio, locals, rec, live, served>>

-----------------------------------------------------------------------------
\* _forward_frame: a frame of the session that is being captured.

FrameIsSent(f) ==
    /\ pc[f] = "idle" /\ running # {}
    /\ state = "streaming" /\ Taken # None
    /\ GoTo(f, "sending")
    /\ sending' = [sending EXCEPT ![f] = sessionUuid]
    /\ UNCHANGED <<fields, opening, rec, live, served, running>>

FrameIsBuffered ==
    /\ running # {} /\ state = "reconnecting"
    /\ buffered' = buffered \cup {sessionUuid}
    /\ UNCHANGED <<state, sessionUuid, streams, capture, readerTask, pc, locals, rec, live,
                   served, running>>

SendCompletes(f) ==
    /\ pc[f] = "sending" /\ GoTo(f, "idle")
    /\ sending' = [sending EXCEPT ![f] = None]
    /\ UNCHANGED <<fields, opening, rec, live, served, running>>

\* The frame is kept and a recovery starts, whatever the state now is.
SendFails(f) ==
    /\ pc[f] = "sending"
    /\ buffered' = buffered \cup {sending[f]}
    /\ sending' = [sending EXCEPT ![f] = None]
    /\ IF MayRecover
       THEN RecoveryBegins(f)
       ELSE GoTo(f, "idle") /\ UNCHANGED <<state, streams, rec>>
    /\ UNCHANGED <<sessionUuid, capture, readerTask, opening, live, served, running>>

-----------------------------------------------------------------------------
TaskProceeds ==
    \/ \E o \in Openers : OpenProceeds(o)
    \/ \E p \in Stoppers : StopProceeds(p)
    \/ \E l \in Losses : LossIsIgnored(l) \/ LossIsHandled(l)
    \/ \E t \in Tasks : Publishes(t)
    \/ \E f \in Forwards : SendCompletes(f) \/ SendFails(f)
    \/ \E s \in Streams : ReaderTearsDown(s) \/ ReaderRecovers(s) \/ ReaderStops(s)
    \/ RecoverProceeds

Next ==
    \/ \E o \in Openers : OpenBegins(o)
    \/ \E p \in Stoppers : StopBegins(p)
    \/ StopLocalCapture
    \/ \E l \in Losses : DeviceIsLost(l)
    \/ \E f \in Forwards : FrameIsSent(f)
    \/ FrameIsBuffered
    \/ TaskProceeds

\* Every await is answered: a connection attempt, a first event, a send or a
\* close ends, well or badly, and a receive on a closed stream raises.
Fairness ==
    /\ \A o \in Openers : WF_vars(OpenProceeds(o))
    /\ \A p \in Stoppers : WF_vars(StopProceeds(p))
    /\ \A l \in Losses : WF_vars(LossIsIgnored(l) \/ LossIsHandled(l))
    /\ \A t \in Tasks : WF_vars(Publishes(t))
    /\ \A f \in Forwards : WF_vars(SendCompletes(f) \/ SendFails(f))
    /\ \A s \in Streams : WF_vars(s \notin live /\ (ReaderRecovers(s) \/ ReaderStops(s)))
    /\ WF_vars(RecoverProceeds)

Spec == Init /\ [][Next]_vars /\ Fairness

-----------------------------------------------------------------------------
(***************************************************************************)
(* Properties.                                                             *)
(***************************************************************************)

\* Live audio and control messages go to a stream of the controller's current
\* session only, whatever recoveries and openings overlap (_open and _recover
\* assign _stream after comparing session identities).
StreamServesSession == stream # None => served = sessionUuid

\* The frames a recovery replays on its stream are of the session the remote
\* started on it (_clear_buffered_frames, enqueue_audio_frames in _forward_frame).
FramesServeSession == rec.pc = "replaying" => buffered \subseteq {served}

\* The microphone is never recorded while the published state says that there is
\* no session: the UI then offers no stop button, and quitting asks nothing.
CaptureImpliesActive == running # {} => state \in Active

\* The only capture that runs is the one the controller can still stop.
RunningIsOwned == running \subseteq {capture}

\* Every open websocket is still held by a field or a local that will close it.
StreamsAreOwned ==
    \A s \in live : \/ s \in {stream, recoveryStream, rec.stream}
                    \/ \E o \in Openers : opening[o].stream = s

\* A task is giving the session up.
Finalising == \E t \in Tasks : \/ pc[t] \in Terminal
                               \/ t \in Stoppers /\ pc[t] # "idle"

\* "streaming" means it: unless a task is giving the session up, a stream is
\* held, a reader listens to it, and the controller's capture runs.
StreamingIsComplete ==
    state = "streaming" /\ ~Finalising => /\ stream # None
                                          /\ pc[stream] = "reading"
                                          /\ running = {capture}

\* Only start_new and resume revive a session that has ended, failed or lost its device.
TerminalLeftByOpen ==
    [][(state \in Terminal /\ state' \notin Terminal) => state' = "starting"]_vars

\* No request, recovery or loss leaves the session starting, ...
StartingEnds == state = "starting" ~> state # "starting"
\* ... or reconnecting for ever, ...
ReconnectingEnds == state = "reconnecting" ~> state # "reconnecting"
\* ... and the _recovery_active flag, without which nothing recovers, is given back.
RecoveryFinishes == rec.pc # "idle" ~> rec.pc = "idle"
=============================================================================
