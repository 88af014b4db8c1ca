--------------------------- MODULE RuntimeShutdown ---------------------------
(***************************************************************************)
(* The life of the desktop program (runtime.py): start_runtime brings up   *)
(* the loopback server, the tray and the window's loop on the main thread; *)
(* then the main thread, once that loop has ended, the tray's thread and   *)
(* the thread of a console interrupt all call DesktopRuntime.shutdown.     *)
(* One of them at a time owns the teardown, and a step that failed is      *)
(* retried by a later call.  start_browser_only has neither window nor     *)
(* tray: its main thread alone stops what it started.  Meanwhile the       *)
(* page's requests start sessions and sessions end, as long as the server  *)
(* has not closed.                                                         *)
(*                                                                         *)
(* The session is reduced to its state (active or not) and to whether a    *)
(* capture runs, which does not follow from the state: see "escaped".  The *)
(* end of the process is not modelled: it only cuts a behaviour short.     *)
(***************************************************************************)
EXTENDS Naturals

CONSTANTS
    None,
    Main,       \* the thread of start_runtime, which runs the window's loop
    Console,    \* "broccoli-shutdown", which request_shutdown starts
    Trays       \* the threads that run the tray's menu

Threads == {Main, Console} \cup Trays

ASSUME ShutdownAssumption ==
    Main # Console /\ {Main, Console} \cap Trays = {} /\ None \notin Threads

VARIABLES
    owner,        \* _shutdown_owner, None when no shutdown is in progress
    complete,     \* _shutdown_complete
    requested,    \* _shutdown_requested
    done,         \* the steps whose flag is set
    failures,     \* steps that failed in the teardown under way
    destroying,   \* _destroying_window
    pc,           \* where each thread is: starting, in its loop ("away"), in shutdown or
                  \* stop_capture, or at its end
    awaited,      \* the owner each waiting thread joins, else None
    server,       \* "starting", "serving", "exiting" (should_exit is set) or "closed"
    active,       \* session.state in _ACTIVE_CAPTURE_STATES
    recording,    \* a capture runs
    escaped,      \* the controller has let go of what records, or shows it as not active
    performed,    \* history: how often each step has succeeded
    startedLate   \* history: a capture started after the capture was marked stopped

vars == <<owner, complete, requested, done, failures, destroying, pc, awaited, server, active,
          recording, escaped, performed, startedLate>>
captures == <<recording, escaped>>
session == <<active, captures, startedLate>>
flags == <<done, failures, performed, destroying>>

Steps == {"window", "local", "capture", "server", "tray"}
\* The teardown goes through these places in this order.
Teardown == Steps \cup {"session", "release"}
After ==
    [window |-> "session", local |-> "capture", capture |-> "server", server |-> "tray",
     tray |-> "release"]

\* Before the window's loop: server.start, the construction of window and tray, and
\* the moment before webview.start.
Startup == {"health", "composing", "entering"}
\* The browser-only program: until the interrupt, and what follows it.
BrowserOnly == {"browsing", "stopsLocal", "stopsController", "stopsServer"}
\* The end of a thread: it has returned, or a KeyboardInterrupt has ended it, in a teardown
\* that it owns ("killed") or elsewhere.
Ends == {"ended", "killed", "interrupted"}

TypeOK ==
    /\ owner \in Threads \cup {None}
    /\ complete \in BOOLEAN /\ requested \in BOOLEAN
    /\ done \subseteq Steps /\ failures \subseteq Steps \ done
    /\ destroying \in BOOLEAN
    /\ pc \in [Threads -> Teardown \cup Startup \cup BrowserOnly \cup Ends
                            \cup {"absent", "away", "called", "waiting", "stopping"}]
    /\ awaited \in [Threads -> Threads \cup {None}]
    /\ server \in {"starting", "serving", "exiting", "closed"}
    /\ active \in BOOLEAN /\ recording \in BOOLEAN /\ escaped \in BOOLEAN
    /\ performed \in [Steps -> Nat]
    /\ startedLate \in BOOLEAN

Init ==
    /\ owner = None /\ complete = FALSE /\ requested = FALSE
    /\ done = {} /\ failures = {} /\ destroying = FALSE
    /\ pc = [t \in Threads |->
               IF t = Main THEN "health" ELSE IF t = Console THEN "away" ELSE "absent"]
    /\ awaited = [t \in Threads |-> None]
    /\ server = "starting"
    /\ active = FALSE /\ recording = FALSE /\ escaped = FALSE
    /\ performed = [s \in Steps |-> 0]
    /\ startedLate = FALSE

-----------------------------------------------------------------------------
GoTo(t, where) == pc' = [pc EXCEPT ![t] = where]

\* A call of shutdown is over; the console's and the main thread end with it.
Returns(t) == GoTo(t, IF t \in Trays THEN "away" ELSE "ended")

ToldToExit == IF server \in {"starting", "serving"} THEN "exiting" ELSE server

-----------------------------------------------------------------------------
\* start_runtime, up to the window's loop.

\* _wait_until_healthy, in either program.
ServerIsHealthy ==
    /\ pc[Main] = "health" /\ server = "serving"
    /\ GoTo(Main, "composing") \/ GoTo(Main, "browsing")
    /\ UNCHANGED <<owner, complete, requested, flags, awaited, server, session>>

\* The server's thread has ended, or the time is over, whatever the server does.
ServerIsUnhealthy ==
    /\ pc[Main] = "health"
    /\ server' = ToldToExit
    /\ Returns(Main)
    /\ UNCHANGED <<owner, complete, requested, flags, awaited, session>>

LeavesServer == UNCHANGED server   \* mutant: a failed start only says so
StopsServerOfFailedStart == server' = ToldToExit

\* The window cannot be created: there is no runtime yet.
WindowFails ==
    /\ pc[Main] = "composing"
    /\ StopsServerOfFailedStart
    /\ Returns(Main)
    /\ UNCHANGED <<owner, complete, requested, flags, awaited, session>>

\* The tray cannot be created or started, or the window's loop does not begin.
StartFails ==
    /\ pc[Main] \in {"composing", "entering"}
    /\ GoTo(Main, "called")
    /\ UNCHANGED <<owner, complete, requested, flags, awaited, server, session>>

\* DesktopRuntime.start: from here on the tray's menu calls back.
RuntimeStarts ==
    /\ pc[Main] = "composing"
    /\ pc' = [t \in Threads |->
                 IF t = Main THEN "entering" ELSE IF pc[t] = "absent" THEN "away" ELSE pc[t]]
    /\ UNCHANGED <<owner, complete, requested, flags, awaited, server, session>>

\* The interrupt handler is installed and the window's loop begins.
LoopBegins ==
    /\ pc[Main] = "entering"
    /\ GoTo(Main, "away")
    /\ UNCHANGED <<owner, complete, requested, flags, awaited, server, session>>

-----------------------------------------------------------------------------
\* The callers.

\* The window's loop ends when the window is destroyed, by a teardown or by the user, whose
\* close on_window_closing no longer turns into a hide, or when a console interrupt raises.
MainLeaves ==
    /\ pc[Main] = "away" /\ ("window" \in done \/ destroying \/ requested)
    /\ GoTo(Main, "called")
    /\ UNCHANGED <<owner, complete, requested, flags, awaited, server, session>>

\* The handler of the loop's time, request_shutdown: the first interrupt starts the thread.
Interrupt ==
    /\ pc[Main] = "away"
    /\ ~requested /\ ~complete
    /\ requested' = TRUE
    /\ GoTo(Console, "called")
    /\ UNCHANGED <<owner, complete, flags, awaited, server, session>>

\* request_quit: with an active capture the user has confirmed.
Quit(t) ==
    /\ pc[t] = "away" /\ t \in Trays /\ "tray" \notin done
    /\ GoTo(t, "called")
    /\ UNCHANGED <<owner, complete, requested, flags, awaited, server, session>>

\* stop_local_capture: what the controller holds records no more ...
StopsRecording ==
    \/ recording' = FALSE /\ escaped' = FALSE
    \/ escaped /\ UNCHANGED captures
\* ... or runs on where it is not seen: a close has raised after the controller let go of
\* the capture, or another end of the session was published over it.
Escapes == recording /\ UNCHANGED recording /\ escaped' = TRUE

\* stop_capture from the tray's menu: the local capture, then the controller, unless the
\* first raises.
TrayStopsCapture(t) ==
    /\ pc[t] = "away" /\ t \in Trays /\ "tray" \notin done
    /\ \/ StopsRecording /\ GoTo(t, "stopping")
       \/ Escapes /\ UNCHANGED pc
    /\ UNCHANGED <<owner, complete, requested, flags, awaited, server, active, startedLate>>

StopIgnored ==   \* mutant: the answer of run_coroutine is not looked at
    IF server = "closed" THEN UNCHANGED <<active, captures>>
    ELSE active' = FALSE /\ StopsRecording

\* run_coroutine: it cannot run on a closed loop, and it may fail or take too long.
StopsController == server # "closed" /\ active' = FALSE /\ StopsRecording
FailsToStop ==
    /\ UNCHANGED active
    /\ UNCHANGED captures \/ (server # "closed" /\ (StopsRecording \/ Escapes))

TrayStopsController(t) ==
    /\ pc[t] = "stopping"
    /\ StopsController \/ FailsToStop
    /\ GoTo(t, "away")
    /\ UNCHANGED <<owner, complete, requested, flags, awaited, server, startedLate>>

-----------------------------------------------------------------------------
\* shutdown: who owns the teardown.

ReturnsComplete(t) ==
    /\ pc[t] = "called" /\ complete
    /\ Returns(t)
    /\ UNCHANGED <<owner, complete, requested, flags, awaited, server, session>>

AnyState == TRUE   \* mutant: _shutdown_in_progress is not looked at
MayOwn == owner = None

Owns(t) ==
    /\ pc[t] = "called" /\ ~complete /\ MayOwn
    /\ owner' = t /\ failures' = {}
    /\ destroying' = TRUE
    /\ GoTo(t, "window")
    /\ UNCHANGED <<complete, requested, done, performed, awaited, server, session>>

Waits(t) ==
    /\ pc[t] = "called" /\ ~complete /\ ~MayOwn
    /\ awaited' = [awaited EXCEPT ![t] = owner]
    /\ GoTo(t, "waiting")
    /\ UNCHANGED <<owner, complete, requested, flags, server, session>>

\* join returns because the owner's thread has ended: look again.
LooksAgain(t) ==
    /\ pc[t] = "waiting" /\ pc[awaited[t]] \in Ends
    /\ awaited' = [awaited EXCEPT ![t] = None]
    /\ GoTo(t, "called")
    /\ UNCHANGED <<owner, complete, requested, flags, server, session>>

\* join times out: the owner's thread lives, whatever has become of its teardown.
GivesUpWaiting(t) ==
    /\ pc[t] = "waiting" /\ pc[awaited[t]] \notin Ends
    /\ awaited' = [awaited EXCEPT ![t] = None]
    /\ Returns(t)
    /\ UNCHANGED <<owner, complete, requested, flags, server, session>>

-----------------------------------------------------------------------------
\* _complete_teardown_step: a step whose flag is set is not run again.

Always(s) == TRUE   \* mutant
Runs(s) == s \notin done

Succeeds(t, s) ==
    /\ pc[t] = s /\ Runs(s)
    /\ done' = done \cup {s} /\ performed' = [performed EXCEPT ![s] = @ + 1]
    /\ GoTo(t, After[s])
    /\ UNCHANGED <<owner, complete, requested, failures, destroying, awaited, startedLate>>

FlagsIt(s) == done' = done \cup {s} /\ UNCHANGED failures   \* mutant: passed over
FlagsToo(s) == done' = done \cup {s} /\ failures' = failures \cup {s}   \* mutant: finally
RecordsFailure(s) == failures' = failures \cup {s} /\ UNCHANGED done

Fails(t, s) ==
    /\ pc[t] = s /\ Runs(s)
    /\ RecordsFailure(s)
    /\ GoTo(t, After[s])
    /\ UNCHANGED <<owner, complete, requested, performed, destroying, awaited, startedLate>>

Skips(t) ==
    /\ pc[t] \in Steps /\ ~Runs(pc[t])
    /\ GoTo(t, After[pc[t]])
    /\ UNCHANGED <<owner, complete, requested, flags, awaited, server, session>>

DestroysWindow(t) ==
    /\ Succeeds(t, "window") \/ Fails(t, "window")
    /\ UNCHANGED <<server, active, captures>>

\* It raises only where a close does.
StopsLocalCapture(t) ==
    /\ \/ Succeeds(t, "local") /\ StopsRecording
       \/ Fails(t, "local") /\ recording /\ (StopsRecording \/ Escapes)
    /\ UNCHANGED <<server, active>>

StopsSession(t) ==
    /\ \/ Succeeds(t, "capture") /\ StopsController
       \/ Fails(t, "capture") /\ FailsToStop
    /\ UNCHANGED server

\* The server is told to exit; its thread is joined, for a limited time.
StopsServer(t) ==
    /\ Succeeds(t, "server")
    /\ server' = ToldToExit
    /\ UNCHANGED <<active, captures>>

StopsTray(t) ==
    /\ Succeeds(t, "tray") \/ Fails(t, "tray")
    /\ UNCHANGED <<server, active, captures>>

\* The state is read once: nothing to stop, or the two steps that stop the session.
ReadsState(t) ==
    /\ pc[t] = "session"
    /\ IF "capture" \in done THEN GoTo(t, "server") /\ UNCHANGED done
       ELSE IF active THEN GoTo(t, "local") /\ UNCHANGED done
       ELSE GoTo(t, "server") /\ done' = done \cup {"local", "capture"}
    /\ UNCHANGED <<owner, complete, requested, failures, performed, destroying, awaited, server,
                   session>>

\* The outcome: complete without a failure, else for a later call to retry.
KeepsOwner == UNCHANGED owner   \* mutant: a failure leaves _shutdown_in_progress set
Disowned == owner' = None

Finishes(t) ==
    /\ pc[t] = "release"
    /\ IF failures = {} THEN owner' = None /\ complete' = TRUE
                        ELSE Disowned /\ UNCHANGED complete
    /\ Returns(t)
    /\ UNCHANGED <<requested, flags, awaited, server, session>>

Proceeds(t) ==
    \/ ReturnsComplete(t) \/ Owns(t) \/ Waits(t) \/ LooksAgain(t) \/ GivesUpWaiting(t)
    \/ Skips(t) \/ DestroysWindow(t) \/ ReadsState(t) \/ StopsLocalCapture(t)
    \/ StopsSession(t) \/ StopsServer(t) \/ StopsTray(t) \/ Finishes(t)
    \/ TrayStopsController(t)

-----------------------------------------------------------------------------
\* start_browser_only, after the interrupt it waits for: every step is tried, whatever has
\* become of the others.

\* There is a session to stop, or there is none: nobody has signed in.
BrowserOnlyStops ==
    /\ pc[Main] = "browsing"
    /\ GoTo(Main, "stopsLocal") \/ (~active /\ GoTo(Main, "stopsServer"))
    /\ UNCHANGED <<owner, complete, requested, flags, awaited, server, session>>

BrowserOnlyStopsLocal ==
    /\ pc[Main] = "stopsLocal"
    /\ StopsRecording \/ Escapes
    /\ GoTo(Main, "stopsController")
    /\ UNCHANGED <<owner, complete, requested, flags, awaited, server, active, startedLate>>

BrowserOnlyStopsController ==
    /\ pc[Main] = "stopsController"
    /\ StopsController \/ FailsToStop
    /\ GoTo(Main, "stopsServer")
    /\ UNCHANGED <<owner, complete, requested, flags, awaited, server, startedLate>>

BrowserOnlyStopsServer ==
    /\ pc[Main] = "stopsServer"
    /\ server' = ToldToExit
    /\ Returns(Main)
    /\ UNCHANGED <<owner, complete, requested, flags, awaited, session>>

BrowserOnlyEnds ==
    \/ BrowserOnlyStops \/ BrowserOnlyStopsLocal
    \/ BrowserOnlyStopsController \/ BrowserOnlyStopsServer

-----------------------------------------------------------------------------
\* An interrupt that nobody waits for is a KeyboardInterrupt in the main thread, which
\* no "except Exception" catches.

\* In a teardown _shutdown_in_progress stays set, and the step that is cut short may have
\* had its effect, but not its flag.
InterruptKills ==
    /\ pc[Main] \in Teardown
    /\ GoTo(Main, "killed")
    /\ \/ UNCHANGED <<server, active, captures>>
       \/ pc[Main] = "local" /\ StopsRecording /\ UNCHANGED <<server, active>>
       \/ pc[Main] = "capture" /\ (StopsController \/ FailsToStop) /\ UNCHANGED server
       \/ pc[Main] = "server" /\ server' = ToldToExit /\ UNCHANGED <<active, captures>>
    /\ UNCHANGED <<owner, complete, requested, flags, awaited, startedLate>>

InterruptEnds ==
    /\ pc[Main] \in Startup \cup (BrowserOnly \ {"browsing"}) \cup {"called", "waiting"}
    /\ GoTo(Main, "interrupted")
    /\ UNCHANGED <<owner, complete, requested, flags, awaited, server, session>>

-----------------------------------------------------------------------------
\* The loopback server and the sessions it runs.

\* uvicorn in its thread: it comes up, or fails to, and ends once it is told to.
ServerComesUp ==
    /\ server = "starting" /\ server' \in {"serving", "closed"}
    /\ UNCHANGED <<owner, complete, requested, flags, pc, awaited, session>>

ServerCloses ==
    /\ server = "exiting" /\ server' = "closed"
    /\ UNCHANGED <<owner, complete, requested, flags, pc, awaited, session>>

\* The page is in the window's loop, or in a browser, and asks for a session.
SessionStarts ==
    /\ server \in {"serving", "exiting"} /\ ~active
    /\ pc[Main] \notin Startup
    /\ active' = TRUE
    /\ UNCHANGED <<owner, complete, requested, flags, pc, awaited, server, captures, startedLate>>

\* An opening, begun at any time before, goes on to its capture and shows it, also when an end was
\* published meanwhile; a capture that runs already is overwritten.
CaptureStarts ==
    /\ server \in {"serving", "exiting"}
    /\ pc[Main] \notin Startup
    /\ active' = TRUE /\ recording' = TRUE /\ escaped' = recording
    /\ startedLate' = (startedLate \/ "capture" \in done)
    /\ UNCHANGED <<owner, complete, requested, flags, pc, awaited, server>>

\* Every end of a session: it stops the capture first and publishes the state after an
\* await, over a session that has started meanwhile; when the stop raises it publishes none.
SessionEnds ==
    /\ server # "closed" /\ (active \/ recording)
    /\ active' \in {active, FALSE}
    /\ StopsRecording \/ Escapes
    /\ UNCHANGED <<owner, complete, requested, flags, pc, awaited, server, startedLate>>

Next ==
    \/ ServerIsHealthy \/ ServerIsUnhealthy \/ WindowFails \/ StartFails
    \/ RuntimeStarts \/ LoopBegins
    \/ MainLeaves \/ BrowserOnlyEnds
    \/ Interrupt \/ InterruptKills \/ InterruptEnds
    \/ \E t \in Trays : Quit(t) \/ TrayStopsCapture(t)
    \/ \E t \in Threads : Proceeds(t)
    \/ ServerComesUp \/ ServerCloses \/ SessionStarts \/ CaptureStarts \/ SessionEnds

\* A call that can go on does; callers and sessions do what they please.
Fairness == \A t \in Threads : WF_vars(Proceeds(t))

Spec == Init /\ [][Next]_vars /\ Fairness

-----------------------------------------------------------------------------
(***************************************************************************)
(* Properties.                                                             *)
(***************************************************************************)

\* Two teardowns never run at once, whoever calls, returns or gives up waiting, and the
\* one that runs is the one the waiters join; a teardown that an interrupt has ended is never
\* given to another thread (shutdown's lock and owner).
OneTeardown == \A t \in Threads : pc[t] \in Teardown \cup {"killed"} <=> owner = t

\* No step succeeds twice, over all callers and retries ("retry only a step that
\* previously failed", shutdown's docstring).
StepsOnce == \A s \in Steps : performed[s] <= 1

\* A complete shutdown has each step's flag, and the window, the server and the tray were
\* stopped once.  Only the local stop may lack its flag: once the controller's stop has
\* succeeded, nobody comes back to a local stop that failed (line 334), although shutdown's
\* docstring says of every step that it is retried.
CompleteIsDone ==
    complete =>
        /\ owner = None /\ server \in {"exiting", "closed"}
        /\ Steps \ {"local"} \subseteq done
        /\ "local" \notin done => performed["capture"] = 1
        /\ \A s \in {"window", "server", "tray"} : performed[s] = 1

\* A complete shutdown leaves a capture running only if that started after the state had been
\* read as inactive, or the controller stopped, and before the end of the server: shutdown
\* looks once (lines 333-339).  What has escaped the controller runs on as well: the state
\* does not show it (session.py:442), an opening has overwritten it (session.py:213), or its
\* close has raised (capture.py:313).
CompleteIsSilent == complete /\ recording => startedLate \/ escaped

\* When the main thread has returned, the server has been told to exit or a teardown that
\* will tell it is under way, however far the start had come and whoever tore down ("shutdown
\* cannot leave a loopback server [...] behind", start_runtime, start_browser_only and shutdown).
ServerIsTold ==
    pc[Main] = "ended" => server \in {"exiting", "closed"} \/ owner # None

\* Every call of shutdown returns, whichever thread owns it and however that thread ends;
\* only a teardown that an interrupt has ended is awaited for ever.
CallsReturn ==
    \A t \in Threads :
        pc[t] = "called" ~> pc[t] \in Ends \cup {"away"} \/ pc[Main] = "killed"
=============================================================================
