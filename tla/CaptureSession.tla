---------------------------- MODULE CaptureSession ----------------------------
(***************************************************************************)
(* CaptureSession and its two _QueuedCaptureHandles (capture.py): one      *)
(* thread starts the sources, threads stop them, PortAudio callbacks fill  *)
(* a bounded queue per source, and one worker thread per source empties it *)
(* and reports the failure that ends it.                                   *)
(*                                                                         *)
(* An action is what a thread does between two points at which it waits    *)
(* for the session's lock or calls the backend.  start is called once, as  *)
(* the controller does.  close joins the worker for at most one second, so *)
(* the join holds nothing back for ever and is no step of its own.         *)
(***************************************************************************)
EXTENDS Sequences, Naturals

CONSTANTS
    None,
    Starter,       \* the thread that calls start: the event loop
    Stoppers,      \* the threads that call stop: the event loop, the runtime's
    QueueBlocks    \* QUEUE_BLOCKS

Sources == {"mic", "system"}
\* The worker thread of a source bears its name.
Threads == {Starter} \cup Stoppers \cup Sources
Kinds == {"lost", "consumer"}   \* DeviceUnavailableError; an exception of on_pcm

ASSUME CaptureAssumption ==
    /\ QueueBlocks \in Nat \ {0}
    /\ Starter \notin Stoppers \cup Sources /\ Stoppers \cap Sources = {}
    /\ None \notin Threads \cup Kinds

VARIABLES
    lock,          \* the thread that holds self._lock while it waits, or None
    handles,       \* sources in self._handles
    stream,        \* of each source: "none", "open", one of Aborting, "failed" or "unheard"
                   \* (aborted, its failure put or dropped), or "closed"
    queue,         \* of each source: its blocks ("pcm"), a failure or the stop mark
    handled,       \* sources whose error handler is installed
    pending,       \* of each source: self._pending_error
    failure,       \* of each source: what its worker reports
    opening,       \* the source start is opening
    pc,            \* where each thread is
    closing,       \* of each thread: the sources its stop has still to close
    takenBy,       \* history: the thread whose stop took the sources
    unclosed,      \* history: the sources a raising close left behind, its own included
    events         \* history: the device_lost events

vars == <<lock, handles, stream, queue, handled, pending, failure, opening, pc, closing,
          takenBy, unclosed, events>>
taking == <<takenBy, unclosed>>
threads == <<pc, closing>>
reports == <<handled, pending, failure>>

Items == {"pcm", "lost", "stop"}
\* The callback is within _offer: its queue was full, or it has taken the oldest item.
Aborting == {"replacing", "putting"}
Running == {"open", "failed", "unheard"} \cup Aborting

TypeOK ==
    /\ lock \in {None, Starter}
    /\ handles \subseteq Sources /\ handled \subseteq Sources
    /\ stream \in [Sources -> Running \cup {"none", "closed"}]
    /\ queue \in [Sources -> Seq(Items)]
    /\ \A h \in Sources : Len(queue[h]) <= QueueBlocks
    /\ pending \in [Sources -> Kinds \cup {None}]
    /\ failure \in [Sources -> Kinds \cup {None}]
    /\ opening \in Sources
    /\ pc \in [Threads -> {"idle", "opening", "installing", "closing", "started", "raised",
                           "getting", "reporting", "handling", "stopping", "ended"}]
    /\ closing \in [Threads -> SUBSET Sources]
    /\ takenBy \in Threads \cup {None} /\ unclosed \subseteq Sources
    /\ events \in Nat

Init ==
    /\ lock = None
    /\ handles = {} /\ handled = {}
    /\ stream = [h \in Sources |-> "none"]
    /\ queue = [h \in Sources |-> <<>>]
    /\ pending = [h \in Sources |-> None]
    /\ failure = [h \in Sources |-> None]
    /\ opening = "mic"
    /\ pc = [t \in Threads |-> "idle"]
    /\ closing = [t \in Threads |-> {}]
    /\ takenBy = None /\ unclosed = {}
    /\ events = 0

-----------------------------------------------------------------------------
\* The pieces the threads share.

GoTo(t, where) == pc' = [pc EXCEPT ![t] = where]

\* put_nowait of _offer; what finds the queue full is not put.
NeverFull(q, item) == Append(q, item)   \* mutant
PutNowait(q, item) == IF Len(q) < QueueBlocks THEN Append(q, item) ELSE q

\* The locked part of stop: thread t takes the installed sources.
LeavesInstalled(t) ==   \* mutant: the handles are cleared, but not closed
    /\ handles' = {} /\ closing' = [closing EXCEPT ![t] = {}]
    /\ takenBy' = (IF handles = {} THEN takenBy ELSE t) /\ UNCHANGED unclosed
TakeHandles(t) ==
    /\ handles' = {} /\ closing' = [closing EXCEPT ![t] = handles]
    /\ takenBy' = (IF handles = {} THEN takenBy ELSE t) /\ UNCHANGED unclosed

\* drain and close of one source: stopping the stream waits for its callback and lets no
\* other run, so that the stop mark is all that its worker will find.
NoStopMark(h) ==   \* mutant
    stream' = [stream EXCEPT ![h] = "closed"] /\ queue' = [queue EXCEPT ![h] = <<>>]
CloseHandle(h) ==
    /\ stream' = [stream EXCEPT ![h] = "closed"]
    /\ queue' = [queue EXCEPT ![h] = PutNowait(<<>>, "stop")]

\* The loop of stop, "system" first.
CloseNext(t) ==
    /\ pc[t] = "closing"
    /\ \E h \in closing[t] :
         /\ h = "mic" => "system" \notin closing[t]
         /\ stream[h] \notin Aborting
         /\ CloseHandle(h)
         /\ closing' = [closing EXCEPT ![t] = @ \ {h}]
    /\ UNCHANGED <<lock, handles, reports, opening, pc, taking, events>>

\* Where an exception of stop leaves thread t: start raises, a worker dies.
Over(t) ==
    /\ GoTo(t, IF t = Starter THEN "raised" ELSE IF t \in Stoppers THEN "idle" ELSE "ended")
    /\ lock' = IF t = Starter THEN None ELSE lock

\* A stream that cannot be stopped raises out of the loop; its callback sees _closed.
CloseRaises(t) ==
    /\ pc[t] = "closing"
    /\ \E h \in closing[t] :
         /\ h = "mic" => "system" \notin closing[t]
         /\ stream[h] \notin Aborting
         /\ stream' = [stream EXCEPT ![h] = "closed"]
    /\ unclosed' = unclosed \cup closing[t] /\ closing' = [closing EXCEPT ![t] = {}]
    /\ Over(t)
    /\ UNCHANGED <<handles, queue, reports, opening, takenBy, events>>

-----------------------------------------------------------------------------
\* start, which holds the lock from its first step to its last.

StartBegins ==
    /\ pc[Starter] = "idle" /\ lock = None
    /\ lock' = Starter
    /\ GoTo(Starter, "opening")
    /\ UNCHANGED <<handles, stream, queue, reports, opening, closing, taking, events>>

\* open_microphone or open_loopback succeeds: callbacks and worker run at once.
SourceOpens ==
    /\ pc[Starter] = "opening"
    /\ stream' = [stream EXCEPT ![opening] = "open"]
    /\ pc' = [pc EXCEPT ![Starter] = "installing", ![opening] = "getting"]
    /\ UNCHANGED <<lock, handles, queue, reports, opening, closing, taking, events>>

\* An exception of start: what is installed is closed, under the lock.
StartFails == TakeHandles(Starter) /\ GoTo(Starter, "closing")

SourceDoesNotOpen ==
    /\ pc[Starter] = "opening"
    /\ StartFails
    /\ UNCHANGED <<lock, stream, queue, reports, opening, events>>

\* _install_handle and _raise_startup_error when the source has not failed yet.
InstallHandle ==
    /\ pc[Starter] = "installing" /\ pending[opening] = None
    /\ handles' = handles \cup {opening} /\ handled' = handled \cup {opening}
    /\ IF opening = "mic"
       THEN GoTo(Starter, "opening") /\ opening' = "system" /\ UNCHANGED lock
       ELSE GoTo(Starter, "started") /\ lock' = None /\ UNCHANGED opening
    /\ UNCHANGED <<stream, queue, pending, failure, closing, taking, events>>

\* The pending error is handed to start, which installs the source and unwinds.
InstallFindsError ==
    /\ pc[Starter] = "installing" /\ pending[opening] # None
    /\ handles' = {} /\ handled' = handled \cup {opening}
    /\ closing' = [closing EXCEPT ![Starter] = handles \cup {opening}]
    /\ takenBy' = Starter /\ UNCHANGED unclosed
    /\ pending' = [pending EXCEPT ![opening] = None]
    /\ GoTo(Starter, "closing")
    /\ UNCHANGED <<lock, stream, queue, failure, opening, events>>

StartRaises ==
    /\ pc[Starter] = "closing" /\ closing[Starter] = {}
    /\ GoTo(Starter, "raised") /\ lock' = None
    /\ UNCHANGED <<handles, stream, queue, reports, opening, closing, taking, events>>

StartProceeds ==
    \/ SourceOpens \/ SourceDoesNotOpen \/ InstallHandle \/ InstallFindsError
    \/ CloseNext(Starter) \/ CloseRaises(Starter) \/ StartRaises

-----------------------------------------------------------------------------
\* stop.

StopBegins(p) ==
    /\ pc[p] = "idle" /\ lock = None
    /\ TakeHandles(p) /\ GoTo(p, "closing")
    /\ UNCHANGED <<lock, stream, queue, reports, opening, events>>

StopReturns(p) ==
    /\ pc[p] = "closing" /\ closing[p] = {}
    /\ GoTo(p, "idle")
    /\ UNCHANGED <<lock, handles, stream, queue, reports, opening, closing, taking, events>>

-----------------------------------------------------------------------------
\* The PortAudio callback, which never waits.

BlockArrives(h) ==
    /\ stream[h] = "open"
    /\ queue' = [queue EXCEPT ![h] = PutNowait(@, "pcm")]
    /\ UNCHANGED <<lock, handles, stream, reports, opening, threads, taking, events>>

\* A status flag: the callback reports the device lost and aborts the stream.  When the queue
\* is full the failure is to take the place of the oldest item, ...
DropsWhenFull(h) ==   \* mutant: a failure is dropped as audio is
    /\ stream[h] = "open"
    /\ stream' = [stream EXCEPT ![h] = "failed"]
    /\ queue' = [queue EXCEPT ![h] = PutNowait(@, "lost")]
    /\ UNCHANGED <<lock, handles, reports, opening, threads, taking, events>>
DeviceFails(h) ==
    /\ stream[h] = "open"
    /\ stream' = [stream EXCEPT ![h] =
                     IF Len(queue[h]) < QueueBlocks THEN "failed" ELSE "replacing"]
    /\ queue' = [queue EXCEPT ![h] = PutNowait(@, "lost")]
    /\ UNCHANGED <<lock, handles, reports, opening, threads, taking, events>>

\* ... and the worker may take items meanwhile: if it has left none, _offer returns, and the
\* failure is dropped.
OldestIsTaken(h) ==
    /\ stream[h] = "replacing"
    /\ IF queue[h] # <<>>
       THEN /\ stream' = [stream EXCEPT ![h] = "putting"]
            /\ queue' = [queue EXCEPT ![h] = Tail(@)]
       ELSE stream' = [stream EXCEPT ![h] = "unheard"] /\ UNCHANGED queue
    /\ UNCHANGED <<lock, handles, reports, opening, threads, taking, events>>

FailureIsPut(h) ==
    /\ stream[h] = "putting"
    /\ stream' = [stream EXCEPT ![h] = "failed"]
    /\ queue' = [queue EXCEPT ![h] = PutNowait(@, "lost")]
    /\ UNCHANGED <<lock, handles, reports, opening, threads, taking, events>>

CallbackProceeds(h) == OldestIsTaken(h) \/ FailureIsPut(h)

-----------------------------------------------------------------------------
\* The worker of source h.

Took(h, item) ==
    /\ pc[h] = "getting" /\ queue[h] # <<>> /\ Head(queue[h]) = item
    /\ queue' = [queue EXCEPT ![h] = Tail(@)]

WorkerConsumes(h) ==
    /\ Took(h, "pcm")
    /\ UNCHANGED <<lock, handles, stream, reports, opening, threads, taking, events>>

WorkerFails(h, kind) ==
    /\ \/ kind = "lost" /\ Took(h, "lost")
       \/ kind = "consumer" /\ Took(h, "pcm")
    /\ failure' = [failure EXCEPT ![h] = kind]
    /\ GoTo(h, "reporting")
    /\ UNCHANGED <<lock, handles, stream, handled, pending, opening, closing, taking, events>>

WorkerIsStopped(h) ==
    /\ Took(h, "stop")
    /\ GoTo(h, "ended")
    /\ UNCHANGED <<lock, handles, stream, reports, opening, closing, taking, events>>

\* _report_error before the handler is installed ...
ForgetsError(h) == UNCHANGED pending   \* mutant
KeepsError(h) == pending' = [pending EXCEPT ![h] = failure[h]]

WorkerIsEarly(h) ==
    /\ pc[h] = "reporting" /\ h \notin handled
    /\ KeepsError(h)
    /\ GoTo(h, "ended")
    /\ UNCHANGED <<lock, handles, stream, queue, handled, failure, opening, closing, taking,
                   events>>

\* ... and after it: _handle_source_error waits for the lock.
WorkerReports(h) ==
    /\ pc[h] = "reporting" /\ h \in handled
    /\ GoTo(h, "handling")
    /\ UNCHANGED <<lock, handles, stream, queue, reports, opening, closing, taking, events>>

\* Its locked part: somebody else has taken the sources, or this worker will.
WorkerHandles(h) ==
    /\ pc[h] = "handling" /\ lock = None
    /\ GoTo(h, IF h \in handles THEN "stopping" ELSE "ended")
    /\ UNCHANGED <<lock, handles, stream, queue, reports, opening, closing, taking, events>>

WorkerStops(h) ==
    /\ pc[h] = "stopping" /\ lock = None
    /\ TakeHandles(h) /\ GoTo(h, "closing")
    /\ UNCHANGED <<lock, stream, queue, reports, opening, events>>

\* Everything it took is closed: a lost device is told to the controller.
TellsNothing(h) == UNCHANGED events   \* mutant
Tells(h) == events' = IF failure[h] = "lost" THEN events + 1 ELSE events

WorkerTells(h) ==
    /\ pc[h] = "closing" /\ closing[h] = {}
    /\ Tells(h)
    /\ GoTo(h, "ended")
    /\ UNCHANGED <<lock, handles, stream, queue, reports, opening, closing, taking>>

WorkerProceeds(h) ==
    \/ WorkerConsumes(h) \/ (\E kind \in Kinds : WorkerFails(h, kind)) \/ WorkerIsStopped(h)
    \/ WorkerIsEarly(h) \/ WorkerReports(h) \/ WorkerHandles(h) \/ WorkerStops(h)
    \/ CloseNext(h) \/ CloseRaises(h) \/ WorkerTells(h)

-----------------------------------------------------------------------------
Next ==
    \/ StartBegins \/ StartProceeds
    \/ \E p \in Stoppers : StopBegins(p) \/ CloseNext(p) \/ CloseRaises(p) \/ StopReturns(p)
    \/ \E h \in Sources :
         BlockArrives(h) \/ DeviceFails(h) \/ CallbackProceeds(h) \/ WorkerProceeds(h)

\* Threads and callbacks that can run do run; devices and callers do what they please.
Fairness ==
    /\ WF_vars(StartProceeds)
    /\ \A p \in Stoppers : WF_vars(CloseNext(p) \/ CloseRaises(p) \/ StopReturns(p))
    /\ \A h \in Sources : WF_vars(WorkerProceeds(h)) /\ WF_vars(CallbackProceeds(h))

Spec == Init /\ [][Next]_vars /\ Fairness

-----------------------------------------------------------------------------
(***************************************************************************)
(* Properties.                                                             *)
(***************************************************************************)

\* start leaves both sources running or none (its docstring), whichever source fails and
\* whenever: before its handler is installed, after, or not at all.  Only a close that
\* raises leaves one.
StartLeavesNone ==
    pc[Starter] = "raised" => \A h \in Sources : stream[h] \in Running => h \in unclosed

Owned(h) ==
    \/ h \in handles
    \/ \E t \in Threads : h \in closing[t]
    \/ pc[Starter] = "installing" /\ opening = h

\* A running source is held by somebody who will close it: the session, the stop that
\* took it or the start that opened it; only a close that raises loses one
\* (_install_handle, stop).
SourcesAreOwned == \A h \in Sources : stream[h] \in Running => Owned(h) \/ h \in unclosed

\* A stop, the failing start or a worker that is about to tell has taken the sources, or one
\* whose own failure is no device loss; or a close has raised.
GivenUp ==
    \/ takenBy \in Stoppers \cup {Starter}
    \/ takenBy \in Sources /\ (failure[takenBy] = "consumer" \/ pc[takenBy] = "closing")
    \/ unclosed # {}

\* A lost device goes untold only if somebody else had given the capture up, or if it is kept
\* for the start to find (_handle_source_error, _report_error).  A worker that has taken the
\* failure answers for it; one that _offer has dropped no worker ever sees.
LossIsTold ==
    \A h \in Sources :
        pc[h] = "ended" /\ failure[h] = "lost" =>
            events > 0 \/ pending[h] # None \/ GivenUp

\* One source that fails stops both, although its failure has to take its place in a full
\* queue, start's lock and other stops (test_capture_session_stops_both_sources_when_one_
\* callback_fails).  The exception is _offer's: if the worker empties the full queue between
\* the put and the get, "except Empty: return" drops the failure, its own stream is aborted
\* unheard and the other source runs on.
FailureStopsAll ==
    \A h \in Sources :
        stream[h] \in Aborting \cup {"failed"} ~>
            stream[h] = "unheard" \/ \A g \in Sources : stream[g] \notin Running \/ g \in unclosed

\* Every worker thread ends once its source is closed: the stop mark reaches it.
WorkersEnd == \A h \in Sources : stream[h] = "closed" ~> pc[h] = "ended" \/ h \in unclosed
=============================================================================
