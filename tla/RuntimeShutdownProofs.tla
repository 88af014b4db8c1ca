------------------------ MODULE RuntimeShutdownProofs ------------------------
(***************************************************************************)
(* The safety properties of RuntimeShutdown hold for any number of tray    *)
(* threads.  They follow from one inductive invariant: where the owner is  *)
(* tells which steps it has been through, and what is flagged has happened.*)
(***************************************************************************)
EXTENDS RuntimeShutdown, TLAPS

\* The steps a teardown at each place has attempted or found done ...
Behind ==
    [window |-> {}, session |-> {"window"}, local |-> {"window"}, capture |-> {"window"},
     server |-> {"window", "capture"}, tray |-> {"window", "capture", "server"},
     release |-> {"window", "capture", "server", "tray"}]

\* ... and those it may have failed at.
Before ==
    [window |-> {}, session |-> {"window"}, local |-> {"window"},
     capture |-> {"window", "local"}, server |-> {"window", "local", "capture"},
     tray |-> {"window", "local", "capture", "server"}, release |-> Steps]

\* The owner has been through the steps behind it, each flagged or recorded as failed,
\* and has failed at no step that is still to come.
Progress ==
    \A t \in Threads : pc[t] \in Teardown =>
        /\ Behind[pc[t]] \subseteq done \cup failures
        /\ failures \subseteq Before[pc[t]]

Told == server \in {"exiting", "closed"}

\* A flag is set by the one success of its step, except that a session that is not
\* active needs no stop; a step without its flag has not succeeded.  The local stop is passed
\* over only behind a stop of the controller.
FlagsAreEarned ==
    /\ \A s \in Steps : performed[s] = 0 \/ (performed[s] = 1 /\ s \in done)
    /\ \A s \in {"window", "server", "tray"} : s \in done => performed[s] = 1
    /\ "server" \in done => Told
    /\ "capture" \in done => "local" \in done \/ performed["capture"] = 1

\* The console's thread is started once.
Fresh == requested \/ pc[Console] = "away"

\* What a complete shutdown has done; it has no owner and gets none.
Completed ==
    complete => owner = None /\ {"window", "capture", "server", "tray"} \subseteq done

\* What records in a state that is not active has escaped, and once the capture is flagged as
\* stopped, only what starts late or has escaped records.
Silence ==
    /\ recording => active \/ escaped
    /\ "capture" \in done /\ recording => startedLate \/ escaped

\* Who returns or waits to return leaves a server that is told, or an owner; telling it
\* never fails, so that no owner is released before.
Telling ==
    /\ "server" \notin failures
    /\ ServerIsTold
    /\ \A t \in Threads : pc[t] = "waiting" => Told \/ owner # None

ShutdownInv ==
    /\ TypeOK /\ OneTeardown /\ Progress /\ Fresh
    /\ FlagsAreEarned /\ Completed /\ Silence /\ Telling

USE ShutdownAssumption

LEMMA ShutdownStarts == Init => ShutdownInv
<1> SUFFICES ASSUME Init PROVE ShutdownInv
  OBVIOUS
<1>1. TypeOK
  BY DEF Init, TypeOK, Threads, Startup
<1>2. OneTeardown /\ Progress
  BY DEF Init, OneTeardown, Progress, Teardown, Steps, Threads
<1>3. FlagsAreEarned
  BY DEF Init, FlagsAreEarned, Steps
<1>4. Fresh /\ Completed /\ Silence /\ Telling
  BY DEF Init, Fresh, Completed, Silence, Telling, ServerIsTold, Threads
<1> QED
  BY <1>1, <1>2, <1>3, <1>4 DEF ShutdownInv

-----------------------------------------------------------------------------
\* One lemma per part of the invariant: what each action does to it.

Outside == Startup \cup BrowserOnly \cup {"ended", "interrupted"}
             \cup {"absent", "away", "called", "waiting", "stopping"}
Owning == Teardown \cup {"killed"}
Places == Owning \cup Outside

\* The actions of the main thread that are no part of shutdown.
MainActs ==
    \/ ServerIsHealthy \/ ServerIsUnhealthy \/ WindowFails \/ StartFails \/ LoopBegins
    \/ MainLeaves \/ BrowserOnlyEnds \/ InterruptEnds

\* What a session does on its own.
SessionActs == SessionStarts \/ CaptureStarts \/ SessionEnds

LEMMA SessionActsOutside ==
  ASSUME SessionActs
  PROVE  UNCHANGED <<owner, complete, requested, done, failures, performed, destroying, pc,
                     awaited, server>>
  BY DEF SessionActs, SessionStarts, CaptureStarts, SessionEnds, flags

LEMMA TwoSides == Outside \cap Owning = {} /\ (TypeOK => pc \in [Threads -> Places])
  BY DEF Outside, Owning, Places, Teardown, Steps, Startup, BrowserOnly, Ends, TypeOK

\* They move it from one place outside the teardown to another, which is not a wait, and
\* write nothing of the teardown.
LEMMA MainActsOutside ==
  ASSUME MainActs
  PROVE  /\ pc[Main] \in Outside /\ Main \notin Trays
         /\ \E w \in Outside \ {"waiting"} : GoTo(Main, w)
         /\ UNCHANGED <<owner, complete, requested, flags, awaited, startedLate>>
<1> USE DEF Outside, Startup, BrowserOnly
<1>1. CASE ServerIsHealthy \/ StartFails \/ LoopBegins \/ MainLeaves \/ InterruptEnds
  BY <1>1 DEF ServerIsHealthy, StartFails, LoopBegins, MainLeaves, InterruptEnds, session
<1>2. CASE ServerIsUnhealthy \/ WindowFails
  BY <1>2 DEF ServerIsUnhealthy, WindowFails, Returns, session
<1>3. CASE BrowserOnlyEnds
  BY <1>3 DEF BrowserOnlyEnds, BrowserOnlyStops, BrowserOnlyStopsLocal,
              BrowserOnlyStopsController, BrowserOnlyStopsServer, Returns, session
<1> QED
  BY <1>1, <1>2, <1>3 DEF MainActs

\* What a stop of the capture, or a stop that fails, makes of it.
LEMMA StopTypes ==
  ASSUME TypeOK, UNCHANGED captures \/ StopsRecording \/ Escapes
  PROVE  recording' \in BOOLEAN /\ escaped' \in BOOLEAN
  BY DEF TypeOK, captures, StopsRecording, Escapes

\* What they do to the server and the session: it may be told, and a session may end.
LEMMA MainActsEffects ==
  ASSUME TypeOK, MainActs
  PROVE  /\ server' = server \/ server' = ToldToExit
         /\ \/ active' = active /\ (UNCHANGED captures \/ StopsRecording \/ Escapes)
            \/ active' = FALSE /\ StopsRecording
<1> USE DEF TypeOK, session
<1>1. CASE ServerIsHealthy \/ StartFails \/ LoopBegins \/ MainLeaves \/ InterruptEnds
  BY <1>1 DEF ServerIsHealthy, StartFails, LoopBegins, MainLeaves, InterruptEnds
<1>2. CASE ServerIsUnhealthy \/ WindowFails
  BY <1>2 DEF ServerIsUnhealthy, WindowFails, StopsServerOfFailedStart
<1>3. CASE BrowserOnlyStops \/ BrowserOnlyStopsServer
  BY <1>3 DEF BrowserOnlyStops, BrowserOnlyStopsServer
<1>4. CASE BrowserOnlyStopsLocal
  BY <1>4 DEF BrowserOnlyStopsLocal
<1>5. CASE BrowserOnlyStopsController
  BY <1>5 DEF BrowserOnlyStopsController, StopsController, FailsToStop
<1> QED
  BY <1>1, <1>2, <1>3, <1>4, <1>5 DEF MainActs, BrowserOnlyEnds

\* _complete_teardown_step leaves everything it writes well typed.
LEMMA StepTypes ==
  ASSUME TypeOK, Progress, NEW t \in Threads, NEW s \in Steps, Succeeds(t, s) \/ Fails(t, s)
  PROVE  /\ done' \subseteq Steps /\ failures' \subseteq Steps \ done'
         /\ pc' \in [Threads -> Places]
         /\ performed' \in [Steps -> Nat]
         /\ UNCHANGED <<owner, complete, requested, destroying, awaited, startedLate>>
<1> USE DEF TypeOK
<1>1. After[s] \in Places
  BY DEF After, Places, Owning, Teardown, Steps
<1>2. pc' \in [Threads -> Places]
  BY <1>1, TwoSides DEF Succeeds, Fails, GoTo
<1>3. performed' \in [Steps -> Nat]
  <2>1. CASE Succeeds(t, s)
    BY <2>1 DEF Succeeds
  <2>2. CASE Fails(t, s)
    BY <2>2 DEF Fails
  <2> QED
    BY <2>1, <2>2
<1>4. s \notin failures /\ s \notin done
  <2>1. pc[t] = s /\ s \notin done
    BY DEF Succeeds, Fails, Runs
  <2>2. failures \subseteq Before[s]
    BY <2>1 DEF Progress, Teardown
  <2> QED
    BY <2>1, <2>2 DEF Before, Steps
<1>5. done' \subseteq Steps /\ failures' \subseteq Steps \ done'
  <2>1. CASE Succeeds(t, s)
    BY <1>4, <2>1 DEF Succeeds
  <2>2. CASE Fails(t, s)
    BY <1>4, <2>2 DEF Fails, RecordsFailure
  <2> QED
    BY <2>1, <2>2
<1> QED
  BY <1>2, <1>3, <1>5 DEF Succeeds, Fails

\* Every action keeps the types.  Reading the state flags steps that have not failed: the
\* window's is the only step that comes before it.
LEMMA TypeStep ==
  ASSUME ShutdownInv, [Next]_vars
  PROVE  TypeOK'
<1> USE DEF ShutdownInv, TypeOK, GoTo, Returns, session, captures, flags
<1>0. \A f \in [Threads -> Places] : f \in [Threads -> Teardown \cup Startup \cup BrowserOnly \cup Ends
                            \cup {"absent", "away", "called", "waiting", "stopping"}]
  BY DEF Places, Owning, Outside, Ends
<1>1. CASE MainActs
  <2>1. PICK w \in Outside : pc' = [pc EXCEPT ![Main] = w]
    BY <1>1, MainActsOutside
  <2>2. pc' \in [Threads -> Places]
    BY <2>1, TwoSides DEF Places
  <2>3. server' \in {"starting", "serving", "exiting", "closed"}
    BY <1>1, MainActsEffects DEF ToldToExit
  <2>4. active' \in BOOLEAN /\ recording' \in BOOLEAN /\ escaped' \in BOOLEAN
    BY <1>1, MainActsEffects, StopTypes
  <2> QED
    BY <1>0, <1>1, <2>2, <2>3, <2>4, MainActsOutside
<1>2. CASE Interrupt
  BY <1>2 DEF Interrupt, Threads
<1>5. CASE InterruptKills
  <2>1. pc' \in [Threads -> Places]
    BY <1>5, TwoSides DEF InterruptKills, Places, Owning
  <2>2. server' \in {"starting", "serving", "exiting", "closed"}
    BY <1>5 DEF InterruptKills, ToldToExit
  <2>3. active' \in BOOLEAN /\ recording' \in BOOLEAN /\ escaped' \in BOOLEAN
    BY <1>5, StopTypes DEF InterruptKills, StopsController, FailsToStop
  <2> QED
    BY <1>0, <1>5, <2>1, <2>2, <2>3 DEF InterruptKills
<1>6. CASE RuntimeStarts
  <2>1. pc' \in [Threads -> Places]
    BY <1>6, TwoSides DEF RuntimeStarts, Places, Outside, Startup
  <2> QED
    BY <1>0, <1>6, <2>1 DEF RuntimeStarts
<1>7. ASSUME NEW t \in Trays, Quit(t) \/ TrayStopsCapture(t)
      PROVE  TypeOK'
  <2>1. CASE Quit(t)
    BY <1>7, <2>1 DEF Quit, Threads
  <2>2. CASE TrayStopsCapture(t)
    <3>1. recording' \in BOOLEAN /\ escaped' \in BOOLEAN
      BY <2>2, StopTypes DEF TrayStopsCapture
    <3> QED
      BY <2>2, <3>1 DEF TrayStopsCapture, Threads
  <2> QED
    BY <1>7, <2>1, <2>2
<1>3. ASSUME NEW t \in Threads, Proceeds(t)
      PROVE  TypeOK'
  <2>1. CASE ReturnsComplete(t) \/ Owns(t) \/ LooksAgain(t) \/ GivesUpWaiting(t)
    <3>1. pc' \in [Threads -> Places]
      BY <2>1, TwoSides DEF ReturnsComplete, Owns, LooksAgain, GivesUpWaiting, Places, Owning,
                            Outside, Teardown, Steps
    <3>2. owner' \in Threads \cup {None} /\ awaited' \in [Threads -> Threads \cup {None}]
      BY <2>1 DEF ReturnsComplete, Owns, LooksAgain, GivesUpWaiting
    <3> QED
      BY <1>0, <2>1, <3>1, <3>2 DEF ReturnsComplete, Owns, LooksAgain, GivesUpWaiting
  <2>2. CASE Waits(t)
    BY <2>2 DEF Waits, MayOwn
  <2>3. CASE Skips(t)
    BY <2>3 DEF Skips, After, Teardown, Steps
  <2>4. CASE DestroysWindow(t) \/ StopsTray(t)
    BY <1>0, <2>4, StepTypes DEF DestroysWindow, StopsTray, Steps
  <2>5. CASE ReadsState(t)
    <3>1. failures \subseteq {"window"}
      BY <2>5 DEF ReadsState, Progress, Teardown, Before
    <3>2. done' \subseteq Steps /\ failures' \subseteq Steps \ done'
      BY <3>1, <2>5 DEF ReadsState, Steps
    <3>3. pc' \in [Threads -> Places]
      BY <2>5, TwoSides DEF ReadsState, Places, Owning, Teardown, Steps
    <3> QED
      BY <1>0, <2>5, <3>2, <3>3 DEF ReadsState
  <2>6. CASE StopsLocalCapture(t)
    <3>1. recording' \in BOOLEAN /\ escaped' \in BOOLEAN
      BY <2>6, StopTypes DEF StopsLocalCapture
    <3> QED
      BY <1>0, <2>6, <3>1, StepTypes DEF StopsLocalCapture, Steps
  <2>7. CASE StopsSession(t)
    <3>1. active' \in BOOLEAN /\ recording' \in BOOLEAN /\ escaped' \in BOOLEAN
      BY <2>7, StopTypes DEF StopsSession, StopsController, FailsToStop
    <3> QED
      BY <1>0, <2>7, <3>1, StepTypes DEF StopsSession, Steps
  <2>8. CASE StopsServer(t)
    BY <1>0, <2>8, StepTypes DEF StopsServer, ToldToExit, Steps
  <2>9. CASE Finishes(t)
    BY <2>9 DEF Finishes, Disowned, Ends
  <2>10. CASE TrayStopsController(t)
    <3>1. active' \in BOOLEAN /\ recording' \in BOOLEAN /\ escaped' \in BOOLEAN
      BY <2>10, StopTypes DEF TrayStopsController, StopsController, FailsToStop
    <3> QED
      BY <2>10, <3>1 DEF TrayStopsController
  <2> QED
    BY <1>3, <2>1, <2>2, <2>3, <2>4, <2>5, <2>6, <2>7, <2>8, <2>9, <2>10 DEF Proceeds
<1>4. CASE ServerComesUp \/ ServerCloses \/ SessionActs
  <2>1. CASE SessionActs
    <3>1. active' \in BOOLEAN /\ startedLate' \in BOOLEAN
          /\ (UNCHANGED captures \/ StopsRecording \/ Escapes
               \/ (recording' = TRUE /\ escaped' = recording))
      BY <2>1 DEF SessionActs, SessionStarts, CaptureStarts, SessionEnds
    <3>2. recording' \in BOOLEAN /\ escaped' \in BOOLEAN
      BY <3>1, StopTypes
    <3> QED
      BY <2>1, <3>1, <3>2, SessionActsOutside
  <2>2. CASE ServerComesUp \/ ServerCloses
    BY <2>2 DEF ServerComesUp, ServerCloses, captures
  <2> QED
    BY <1>4, <2>1, <2>2
<1>8. CASE UNCHANGED vars
  BY <1>8 DEF vars
<1> QED
  BY <1>1, <1>2, <1>3, <1>4, <1>5, <1>6, <1>7, <1>8 DEF Next, MainActs, SessionActs

\* Where the threads are: a thread that moves from one place of the teardown to another,
\* or between places outside it, leaves the owner as it is.
LEMMA MovesInside ==
  ASSUME TypeOK, OneTeardown, NEW t \in Threads, NEW w \in Owning,
         pc[t] \in Owning, GoTo(t, w), UNCHANGED owner
  PROVE  OneTeardown'
  BY DEF TypeOK, OneTeardown, GoTo, Owning

LEMMA MovesOutside ==
  ASSUME TypeOK, OneTeardown, NEW t \in Threads, NEW w \in Outside,
         pc[t] \in Outside, GoTo(t, w), UNCHANGED owner
  PROVE  OneTeardown'
  BY TwoSides DEF TypeOK, OneTeardown, GoTo, Owning

\* A step goes on to the next place, whatever becomes of it.
LEMMA StepMoves ==
  ASSUME NEW t \in Threads, NEW s \in Steps, Succeeds(t, s) \/ Fails(t, s)
  PROVE  /\ pc[t] = s /\ pc[t] \in Teardown
         /\ After[s] \in Teardown /\ GoTo(t, After[s])
         /\ UNCHANGED <<owner, complete, requested>>
<1>1. After[s] \in Teardown
  BY DEF After, Steps, Teardown
<1> QED
  BY <1>1 DEF Succeeds, Fails, Teardown

\* The five actions that run a step.
LEMMA StepActions ==
  ASSUME NEW t \in Threads,
         \/ DestroysWindow(t) \/ StopsLocalCapture(t) \/ StopsSession(t)
         \/ StopsServer(t) \/ StopsTray(t)
  PROVE  \E s \in Steps : Succeeds(t, s) \/ Fails(t, s)
  BY DEF DestroysWindow, StopsLocalCapture, StopsSession, StopsServer, StopsTray, Steps

\* Only an owner that has released it and a caller that found it free change the owner.
LEMMA OwnerStep ==
  ASSUME ShutdownInv, [Next]_vars
  PROVE  OneTeardown'
<1> USE DEF ShutdownInv
<1>0. {"absent", "away", "called", "waiting", "stopping", "ended"} \subseteq Outside
  BY DEF Outside
<1>1. CASE MainActs
  BY <1>1, MainActsOutside, MovesOutside DEF Threads
<1>2. CASE Interrupt
  BY <1>0, <1>2, MovesOutside DEF Interrupt, Fresh, Threads
<1>6. CASE InterruptKills
  BY <1>6, MovesInside DEF InterruptKills, Owning, Threads
<1>7. CASE RuntimeStarts
  <2>1. \A t \in Threads : \/ pc'[t] = pc[t]
                           \/ pc'[t] \in Outside /\ pc[t] \in Outside
    BY <1>7 DEF RuntimeStarts, Outside, Startup, TypeOK, Threads
  <2> QED
    BY <1>7, <2>1, TwoSides DEF RuntimeStarts, OneTeardown, Owning
<1>3. ASSUME NEW t \in Trays, Quit(t) \/ TrayStopsCapture(t)
      PROVE  OneTeardown'
  <2>1. CASE \E w \in Outside : GoTo(t, w)
    BY <1>0, <1>3, <2>1, MovesOutside DEF Quit, TrayStopsCapture, Threads
  <2>2. CASE UNCHANGED pc
    BY <1>3, <2>2 DEF Quit, TrayStopsCapture, OneTeardown
  <2> QED
    BY <1>0, <1>3, <2>1, <2>2 DEF Quit, TrayStopsCapture
<1>4. ASSUME NEW t \in Threads, Proceeds(t)
      PROVE  OneTeardown'
  <2> DEFINE r == IF t \in Trays THEN "away" ELSE "ended"
  <2>0. r \in Outside /\ Teardown \subseteq Owning
    BY <1>0 DEF Owning
  <2>1. CASE ReturnsComplete(t) \/ GivesUpWaiting(t)
    <3>1. pc[t] \in Outside /\ GoTo(t, r) /\ UNCHANGED owner
      BY <1>0, <2>1 DEF ReturnsComplete, GivesUpWaiting, Returns
    <3> QED
      BY <2>0, <3>1, MovesOutside
  <2>2. CASE Owns(t)
    BY <1>0, <2>2 DEF Owns, MayOwn, GoTo, OneTeardown, TypeOK, Teardown, Steps
  <2>3. CASE Waits(t) \/ LooksAgain(t) \/ TrayStopsController(t)
    BY <1>0, <2>3, MovesOutside DEF Waits, LooksAgain, TrayStopsController
  <2>4. CASE Skips(t)
    <3>1. After[pc[t]] \in Teardown /\ pc[t] \in Teardown
      BY <2>4 DEF Skips, After, Steps, Teardown
    <3> QED
      BY <2>0, <2>4, <3>1, MovesInside DEF Skips
  <2>5. CASE ReadsState(t)
    <3>1. PICK w \in {"server", "local"} : GoTo(t, w)
      BY <2>5 DEF ReadsState
    <3>2. w \in Teardown /\ pc[t] \in Teardown
      BY <2>5 DEF ReadsState, Teardown, Steps
    <3> QED
      BY <2>0, <2>5, <3>1, <3>2, MovesInside DEF ReadsState
  <2>6. CASE \E s \in Steps : Succeeds(t, s) \/ Fails(t, s)
    BY <2>0, <2>6, StepMoves, MovesInside
  <2>7. CASE Finishes(t)
    <3>1. owner = t /\ owner' = None /\ GoTo(t, r)
      BY <2>7 DEF Finishes, Disowned, Returns, OneTeardown, Teardown
    <3> QED
      BY <2>0, <3>1, TwoSides DEF GoTo, OneTeardown, Owning, TypeOK, Threads
  <2> QED
    BY <1>4, <2>1, <2>2, <2>3, <2>4, <2>5, <2>6, <2>7, StepActions DEF Proceeds
<1>5. CASE ServerComesUp \/ ServerCloses \/ SessionActs \/ UNCHANGED vars
  BY <1>5, SessionActsOutside DEF ServerComesUp, ServerCloses, vars, OneTeardown
<1> QED
  BY <1>1, <1>2, <1>3, <1>4, <1>5, <1>6, <1>7 DEF Next, MainActs, SessionActs

\* What the owner has been through: it concerns only the thread in the teardown.
LEMMA ProgressKept ==
  ASSUME Progress, UNCHANGED <<done, failures>>,
         \A u \in Threads : pc'[u] \in Teardown => pc'[u] = pc[u]
  PROVE  Progress'
  BY DEF Progress

LEMMA ProgressOfOwner ==
  ASSUME TypeOK, OneTeardown, NEW t \in Threads, NEW w \in Teardown,
         pc[t] \in Teardown, GoTo(t, w),
         Behind[w] \subseteq done' \cup failures', failures' \subseteq Before[w]
  PROVE  Progress'
  BY DEF TypeOK, OneTeardown, GoTo, Progress

\* Each step is added to the flags or to the failures as the teardown passes it.
LEMMA ProgressStep ==
  ASSUME ShutdownInv, [Next]_vars
  PROVE  Progress'
<1> USE DEF ShutdownInv
<1>0. \A w \in Outside \cup {"killed"} : w \notin Teardown
  BY DEF Teardown, Steps, Outside, Startup, BrowserOnly
<1>10. {"away", "called", "waiting", "stopping", "ended"} \subseteq Outside
  BY DEF Outside
<1>1. CASE MainActs
  BY <1>0, <1>1, MainActsOutside, ProgressKept DEF GoTo, TypeOK, flags
<1>5. CASE Interrupt \/ InterruptKills
  BY <1>0, <1>10, <1>5, ProgressKept DEF Interrupt, InterruptKills, GoTo, TypeOK, flags
<1>6. CASE RuntimeStarts
  <2>1. \A u \in Threads : pc'[u] \in Teardown => pc'[u] = pc[u]
    BY <1>0, <1>6 DEF RuntimeStarts, Outside, Startup
  <2> QED
    BY <1>6, <2>1, ProgressKept DEF RuntimeStarts, flags
<1>2. ASSUME NEW t \in Trays, Quit(t) \/ TrayStopsCapture(t)
      PROVE  Progress'
  BY <1>0, <1>10, <1>2, ProgressKept DEF Quit, TrayStopsCapture, GoTo, TypeOK, flags
<1>3. ASSUME NEW t \in Threads, Proceeds(t)
      PROVE  Progress'
  <2>1. CASE \/ ReturnsComplete(t) \/ GivesUpWaiting(t) \/ Waits(t) \/ LooksAgain(t)
             \/ TrayStopsController(t) \/ Finishes(t)
    <3>1. UNCHANGED <<done, failures>>
      BY <2>1 DEF ReturnsComplete, GivesUpWaiting, Waits, LooksAgain, TrayStopsController,
                  Finishes, flags
    <3>2. PICK w \in {"away", "called", "waiting", "ended"} : GoTo(t, w)
      BY <2>1 DEF ReturnsComplete, GivesUpWaiting, Waits, LooksAgain, TrayStopsController,
                  Finishes, Returns
    <3>3. \A u \in Threads : pc'[u] \in Teardown => pc'[u] = pc[u]
      BY <1>0, <1>10, <3>2 DEF GoTo, TypeOK
    <3> QED
      BY <3>1, <3>3, ProgressKept
  <2>2. CASE Owns(t)
    <3>1. \A u \in Threads : pc[u] \notin Teardown
      BY <2>2 DEF Owns, MayOwn, OneTeardown, Owning, Threads
    <3>2. \A u \in Threads : pc'[u] \in Teardown => pc'[u] = "window"
      BY <2>2, <3>1 DEF Owns, GoTo, TypeOK
    <3>3. failures' = {} /\ Behind["window"] = {}
      BY <2>2 DEF Owns, Behind
    <3> QED
      BY <3>2, <3>3 DEF Progress
  <2>3. CASE Skips(t)
    <3>1. PICK s \in Steps : s \in done /\ pc[t] = s /\ GoTo(t, After[s])
      BY <2>3 DEF Skips, Runs
    <3>2. UNCHANGED <<done, failures>>
      BY <2>3 DEF Skips, flags
    <3>3. Behind[s] \subseteq done \cup failures /\ failures \subseteq Before[s]
      BY <3>1 DEF Progress, Teardown
    <3>4. /\ After[s] \in Teardown
          /\ Behind[After[s]] \subseteq Behind[s] \cup {s}
          /\ Before[s] \subseteq Before[After[s]]
      BY <3>1 DEF After, Behind, Before, Teardown, Steps
    <3>5. /\ pc[t] \in Teardown
          /\ Behind[After[s]] \subseteq done' \cup failures' /\ failures' \subseteq Before[After[s]]
      BY <3>1, <3>2, <3>3, <3>4 DEF Teardown
    <3> QED
      BY <3>1, <3>4, <3>5, ProgressOfOwner
  <2>4. CASE ReadsState(t)
    <3>1. PICK w \in {"server", "local"} :
            GoTo(t, w) /\ (w = "server" => "capture" \in done') /\ done \subseteq done'
      BY <2>4 DEF ReadsState
    <3>2. pc[t] = "session" /\ UNCHANGED failures
      BY <2>4 DEF ReadsState
    <3>3. {"window"} \subseteq done \cup failures /\ failures \subseteq {"window"}
      BY <3>2 DEF Progress, Teardown, Behind, Before
    <3>4. /\ w \in Teardown /\ pc[t] \in Teardown
          /\ Behind[w] \subseteq done' \cup failures' /\ failures' \subseteq Before[w]
      BY <3>1, <3>2, <3>3 DEF Behind, Before, Teardown, Steps
    <3> QED
      BY <3>1, <3>4, ProgressOfOwner
  <2>5. ASSUME NEW s \in Steps, Succeeds(t, s) \/ Fails(t, s)
        PROVE  Progress'
    <3>1. done' \cup failures' = done \cup failures \cup {s} /\ failures' \subseteq failures \cup {s}
      BY <2>5 DEF Succeeds, Fails, RecordsFailure
    <3>2. Behind[s] \subseteq done \cup failures /\ failures \subseteq Before[s]
      BY <2>5, StepMoves DEF Progress
    <3>3. /\ Behind[After[s]] \subseteq Behind[s] \cup {s}
          /\ Before[s] \cup {s} \subseteq Before[After[s]]
      BY DEF After, Behind, Before, Steps
    <3>4. Behind[After[s]] \subseteq done' \cup failures' /\ failures' \subseteq Before[After[s]]
      BY <3>1, <3>2, <3>3
    <3> QED
      BY <2>5, <3>4, StepMoves, ProgressOfOwner
  <2> QED
    BY <1>3, <2>1, <2>2, <2>3, <2>4, <2>5, StepActions DEF Proceeds
<1>4. CASE ServerComesUp \/ ServerCloses \/ SessionActs \/ UNCHANGED vars
  BY <1>4, ProgressKept, SessionActsOutside
     DEF ServerComesUp, ServerCloses, vars, flags
<1> QED
  BY <1>1, <1>2, <1>3, <1>4, <1>5, <1>6 DEF Next, MainActs, SessionActs

\* The rest of the invariant: what a call leaves alone.
LEMMA CallsLeave ==
  ASSUME NEW t \in Threads,
         \/ ReturnsComplete(t) \/ Owns(t) \/ Waits(t) \/ LooksAgain(t) \/ GivesUpWaiting(t)
         \/ Skips(t)
  PROVE  UNCHANGED <<complete, requested, done, performed, server, active, recording,
                     escaped, startedLate>>
  BY DEF ReturnsComplete, Owns, Waits, LooksAgain, GivesUpWaiting, Skips, flags, session, captures

\* Only Interrupt, which sets the mark, moves a console thread that is away.
LEMMA FreshStep ==
  ASSUME ShutdownInv, [Next]_vars
  PROVE  Fresh'
<1> USE DEF ShutdownInv, Fresh, GoTo, TypeOK
<1>1. CASE MainActs
  BY <1>1, MainActsOutside DEF Threads
<1>5. CASE Interrupt \/ InterruptKills \/ RuntimeStarts
  BY <1>5 DEF Interrupt, InterruptKills, RuntimeStarts, Threads
<1>2. ASSUME NEW t \in Trays, Quit(t) \/ TrayStopsCapture(t)
      PROVE  Fresh'
  BY <1>2 DEF Quit, TrayStopsCapture, Threads
<1>3. ASSUME NEW t \in Threads, Proceeds(t)
      PROVE  Fresh'
  <2>1. pc[t] # "away" /\ UNCHANGED requested
    BY <1>3, StepActions, StepMoves
       DEF Proceeds, ReturnsComplete, Owns, Waits, LooksAgain, GivesUpWaiting, Skips,
           ReadsState, Finishes, TrayStopsController, Steps
  <2>2. \E w : GoTo(t, w)
    BY <1>3, StepActions, StepMoves
       DEF Proceeds, ReturnsComplete, Owns, Waits, LooksAgain, GivesUpWaiting, Skips,
           ReadsState, Finishes, TrayStopsController, Returns
  <2> QED
    BY <2>1, <2>2 DEF Threads
<1>4. CASE ServerComesUp \/ ServerCloses \/ SessionActs \/ UNCHANGED vars
  BY <1>4, SessionActsOutside DEF ServerComesUp, ServerCloses, vars
<1> QED
  BY <1>1, <1>2, <1>3, <1>4, <1>5 DEF Next, MainActs, SessionActs

\* A step that succeeds had no flag, and so had not succeeded before.
LEMMA OnceMore ==
  ASSUME TypeOK, FlagsAreEarned, NEW t \in Threads, NEW s \in Steps, Succeeds(t, s)
  PROVE  /\ done' = done \cup {s} /\ performed'[s] = 1
         /\ \A r \in Steps : r # s => performed'[r] = performed[r]
<1>1. performed[s] = 0
  BY DEF Succeeds, Runs, FlagsAreEarned
<1>2. performed' = [performed EXCEPT ![s] = performed[s] + 1] /\ done' = done \cup {s}
  BY DEF Succeeds
<1>3. performed \in [Steps -> Nat]
  BY DEF TypeOK
<1> QED
  BY <1>1, <1>2, <1>3

\* A step runs only without its flag, so that its first success is its only one.
LEMMA FlagsStep ==
  ASSUME ShutdownInv, [Next]_vars
  PROVE  FlagsAreEarned'
<1> USE DEF ShutdownInv
<1>1. CASE \/ Interrupt \/ RuntimeStarts \/ ServerComesUp \/ ServerCloses \/ SessionActs
           \/ UNCHANGED vars
  BY <1>1, SessionActsOutside
     DEF Interrupt, RuntimeStarts, ServerComesUp, ServerCloses, vars, FlagsAreEarned, flags, Told
<1>4. CASE MainActs \/ InterruptKills
  <2>1. UNCHANGED <<done, performed>>
    BY <1>4, MainActsOutside DEF InterruptKills, flags
  <2>2. Told => Told'
    BY <1>4, MainActsEffects DEF InterruptKills, ToldToExit, Told
  <2> QED
    BY <2>1, <2>2 DEF FlagsAreEarned
<1>2. ASSUME NEW t \in Trays, Quit(t) \/ TrayStopsCapture(t)
      PROVE  FlagsAreEarned'
  BY <1>2 DEF Quit, TrayStopsCapture, FlagsAreEarned, flags, Told
<1>3. ASSUME NEW t \in Threads, Proceeds(t)
      PROVE  FlagsAreEarned'
  <2>1. CASE UNCHANGED <<done, performed, server>>
    BY <2>1 DEF FlagsAreEarned, Told
  <2>2. CASE Finishes(t) \/ TrayStopsController(t)
    BY <2>1, <2>2 DEF Finishes, TrayStopsController, flags
  <2>3. CASE ReadsState(t)
    BY <2>3 DEF ReadsState, FlagsAreEarned, Steps, Told
  <2>4. ASSUME NEW s \in Steps, Fails(t, s), UNCHANGED server
        PROVE  FlagsAreEarned'
    BY <2>1, <2>4 DEF Fails, RecordsFailure
  <2>5. ASSUME NEW s \in Steps, Succeeds(t, s), s # "server", UNCHANGED server
        PROVE  FlagsAreEarned'
    <3>1. /\ done' = done \cup {s} /\ performed'[s] = 1
          /\ \A r \in Steps : r # s => performed'[r] = performed[r]
      BY <2>5, OnceMore
    <3>2. \A r \in Steps : performed'[r] = 0 \/ (performed'[r] = 1 /\ r \in done')
      BY <3>1 DEF FlagsAreEarned
    <3>3. \A r \in {"window", "server", "tray"} : r \in done' => performed'[r] = 1
      BY <3>1 DEF FlagsAreEarned, Steps
    <3>4. "capture" \in done' => "local" \in done' \/ performed'["capture"] = 1
      BY <3>1 DEF FlagsAreEarned, Steps
    <3> QED
      BY <2>5, <3>1, <3>2, <3>3, <3>4 DEF FlagsAreEarned, Told
  <2>6. CASE StopsServer(t)
    <3>1. Told'
      BY <2>6 DEF StopsServer, ToldToExit, Told, TypeOK
    <3> QED
      BY <2>6, <3>1, OnceMore DEF StopsServer, FlagsAreEarned, Steps
  <2>7. CASE DestroysWindow(t) \/ StopsLocalCapture(t) \/ StopsSession(t) \/ StopsTray(t)
    BY <2>4, <2>5, <2>7
       DEF DestroysWindow, StopsLocalCapture, StopsSession, StopsTray, Steps
  <2> QED
    BY <1>3, <2>1, <2>2, <2>3, <2>6, <2>7, CallsLeave DEF Proceeds
<1> QED
  BY <1>1, <1>2, <1>3, <1>4 DEF Next, MainActs, SessionActs

\* A teardown without failures has flagged all that is behind its last place.
LEMMA CompletedStep ==
  ASSUME ShutdownInv, [Next]_vars
  PROVE  Completed'
<1> USE DEF ShutdownInv
<1>1. CASE \/ Interrupt \/ InterruptKills \/ RuntimeStarts \/ ServerComesUp \/ ServerCloses
           \/ SessionActs \/ UNCHANGED vars
  BY <1>1, SessionActsOutside
     DEF Interrupt, InterruptKills, RuntimeStarts, ServerComesUp, ServerCloses, vars, Completed,
         flags
<1>4. CASE MainActs
  BY <1>4, MainActsOutside DEF Completed, flags
<1>2. ASSUME NEW t \in Trays, Quit(t) \/ TrayStopsCapture(t)
      PROVE  Completed'
  BY <1>2 DEF Quit, TrayStopsCapture, Completed, flags
<1>3. ASSUME NEW t \in Threads, Proceeds(t)
      PROVE  Completed'
  <2>1. CASE Finishes(t)
    <3>1. Behind["release"] \subseteq done \cup failures
      BY <2>1 DEF Finishes, Progress, Teardown
    <3>2. ~complete
      BY <2>1 DEF Finishes, OneTeardown, Completed, Teardown, Threads
    <3> QED
      BY <2>1, <3>1, <3>2 DEF Finishes, Completed, Behind, flags
  <2>2. CASE Owns(t)
    BY <2>2 DEF Owns, Completed
  <2>3. CASE UNCHANGED <<complete, owner>> /\ done \subseteq done'
    BY <2>3 DEF Completed
  <2>4. CASE \/ ReturnsComplete(t) \/ Waits(t) \/ LooksAgain(t) \/ GivesUpWaiting(t)
             \/ Skips(t) \/ ReadsState(t) \/ TrayStopsController(t)
    BY <2>3, <2>4 DEF ReturnsComplete, Waits, LooksAgain, GivesUpWaiting, Skips, ReadsState,
                      TrayStopsController, flags
  <2>5. CASE \E s \in Steps : Succeeds(t, s) \/ Fails(t, s)
    BY <2>3, <2>5 DEF Succeeds, Fails, RecordsFailure
  <2> QED
    BY <1>3, <2>1, <2>2, <2>4, <2>5, StepActions DEF Proceeds
<1> QED
  BY <1>1, <1>2, <1>3, <1>4 DEF Next, MainActs, SessionActs

\* A capture that a stop meets ends or has escaped, and one that starts is shown, and late
\* once the capture is flagged.
LEMMA SilenceKept ==
  ASSUME Silence, UNCHANGED <<done, startedLate>>,
         \/ active' = active /\ (UNCHANGED captures \/ StopsRecording \/ Escapes)
         \/ StopsRecording \/ Escapes
  PROVE  Silence'
  BY DEF Silence, StopsRecording, Escapes, captures

LEMMA SilenceStep ==
  ASSUME ShutdownInv, [Next]_vars
  PROVE  Silence'
<1> USE DEF ShutdownInv
<1>1. CASE \/ Interrupt \/ RuntimeStarts \/ ServerComesUp \/ ServerCloses \/ UNCHANGED vars
  BY <1>1, SilenceKept
     DEF Interrupt, RuntimeStarts, ServerComesUp, ServerCloses, vars, flags, session, captures
<1>2. CASE MainActs
  BY <1>2, MainActsOutside, MainActsEffects, SilenceKept DEF flags
<1>3. CASE InterruptKills
  BY <1>3, SilenceKept DEF InterruptKills, StopsController, FailsToStop, flags
<1>4. CASE SessionActs
  <2>1. CASE SessionStarts
    BY <2>1, SessionActsOutside DEF SessionActs, SessionStarts, Silence, captures
  <2>2. CASE CaptureStarts
    BY <2>2, SessionActsOutside DEF SessionActs, CaptureStarts, Silence
  <2>3. CASE SessionEnds
    BY <2>3, SessionActsOutside, SilenceKept DEF SessionActs, SessionEnds
  <2> QED
    BY <1>4, <2>1, <2>2, <2>3 DEF SessionActs
<1>5. ASSUME NEW t \in Trays, Quit(t) \/ TrayStopsCapture(t)
      PROVE  Silence'
  BY <1>5, SilenceKept DEF Quit, TrayStopsCapture, flags, session
<1>6. ASSUME NEW t \in Threads, Proceeds(t)
      PROVE  Silence'
  <2>1. CASE UNCHANGED <<done, active, captures, startedLate>>
    BY <2>1, SilenceKept
  <2>2. CASE Finishes(t)
    BY <2>1, <2>2 DEF Finishes, flags, session
  <2>3. CASE TrayStopsController(t)
    BY <2>3, SilenceKept DEF TrayStopsController, StopsController, FailsToStop, flags
  <2>4. CASE ReadsState(t)
    BY <2>4 DEF ReadsState, Silence, session, captures
  <2>5. ASSUME NEW s \in Steps \ {"local", "capture"}, Succeeds(t, s) \/ Fails(t, s),
               UNCHANGED <<active, captures>>
        PROVE  Silence'
    BY <2>5 DEF Succeeds, Fails, RecordsFailure, Silence, captures
  <2>6. CASE DestroysWindow(t) \/ StopsServer(t) \/ StopsTray(t)
    BY <2>5, <2>6 DEF DestroysWindow, StopsServer, StopsTray, Steps
  <2>7. CASE StopsLocalCapture(t)
    BY <2>7 DEF StopsLocalCapture, StopsRecording, Escapes, Succeeds, Fails, RecordsFailure,
                Silence, captures
  <2>8. CASE StopsSession(t)
    BY <2>8 DEF StopsSession, StopsController, FailsToStop, StopsRecording, Escapes, Succeeds,
                Fails, RecordsFailure, Silence, captures
  <2> QED
    BY <1>6, <2>1, <2>2, <2>3, <2>4, <2>6, <2>7, <2>8, CallsLeave DEF Proceeds, captures
<1> QED
  BY <1>1, <1>2, <1>3, <1>4, <1>5, <1>6 DEF Next, MainActs, SessionActs

\* The server stays told, and telling it has not failed.
LEMMA ToldKept ==
  ASSUME ShutdownInv, [Next]_vars
  PROVE  (Told => Told') /\ "server" \notin failures'
<1> USE DEF ShutdownInv, TypeOK
<1>1. CASE MainActs
  BY <1>1, MainActsOutside, MainActsEffects DEF Told, ToldToExit, Telling, flags
<1>2. CASE \/ Interrupt \/ InterruptKills \/ RuntimeStarts \/ ServerComesUp \/ ServerCloses
           \/ SessionActs \/ UNCHANGED vars
  BY <1>2, SessionActsOutside
     DEF Interrupt, InterruptKills, RuntimeStarts, ServerComesUp, ServerCloses, vars, flags, Told,
         ToldToExit, Telling
<1>3. ASSUME NEW t \in Trays, Quit(t) \/ TrayStopsCapture(t)
      PROVE  UNCHANGED <<server, failures>>
  BY <1>3 DEF Quit, TrayStopsCapture, flags
<1>4. ASSUME NEW t \in Threads, Proceeds(t)
      PROVE  (Told => Told') /\ "server" \notin failures'
  <2>1. CASE \/ ReturnsComplete(t) \/ Owns(t) \/ Waits(t) \/ LooksAgain(t)
             \/ GivesUpWaiting(t) \/ Skips(t) \/ ReadsState(t) \/ Finishes(t)
             \/ TrayStopsController(t)
    BY <2>1 DEF ReturnsComplete, Owns, Waits, LooksAgain, GivesUpWaiting, Skips, ReadsState,
                Finishes, TrayStopsController, flags, Told, Telling
  <2>2. ASSUME NEW s \in Steps, Succeeds(t, s) \/ (s # "server" /\ Fails(t, s)),
               UNCHANGED server
        PROVE  (Told => Told') /\ "server" \notin failures'
    BY <2>2 DEF Succeeds, Fails, RecordsFailure, Told, Telling
  <2>3. CASE \/ DestroysWindow(t) \/ StopsLocalCapture(t) \/ StopsSession(t) \/ StopsTray(t)
    BY <2>2, <2>3 DEF DestroysWindow, StopsLocalCapture, StopsSession, StopsTray, Steps
  <2>4. CASE StopsServer(t)
    BY <2>4 DEF StopsServer, Succeeds, ToldToExit, Told, Telling
  <2> QED
    BY <1>4, <2>1, <2>3, <2>4 DEF Proceeds
<1> QED
  BY <1>1, <1>2, <1>3, <1>4 DEF Next, MainActs, SessionActs, Told, Telling

\* A thread comes to wait only beside an owner, and returns only beside one or when the
\* server has been told; an owner is released only when it has.
LEMMA TellingStep ==
  ASSUME ShutdownInv, [Next]_vars
  PROVE  Telling'
<1> USE DEF ShutdownInv, TypeOK
<1>0. /\ Told => Told'
      /\ "server" \notin failures'
      /\ \A t \in Threads : pc[t] = "waiting" => Told \/ owner # None
      /\ pc[Main] = "ended" => Told \/ owner # None
  BY ToldKept DEF Telling, ServerIsTold, Told
<1> SUFFICES /\ pc'[Main] = "ended" => Told' \/ owner' # None
             /\ \A t \in Threads : pc'[t] = "waiting" => Told' \/ owner' # None
  BY <1>0 DEF Telling, ServerIsTold, Told
<1>1. CASE MainActs
  <2>1. PICK w \in Outside \ {"waiting"} : GoTo(Main, w)
    BY <1>1, MainActsOutside
  <2>2. UNCHANGED owner
    BY <1>1, MainActsOutside
  <2>3. w = "ended" => Told' \/ pc[Main] = "ended"
    <3>1. CASE ServerIsUnhealthy \/ WindowFails \/ BrowserOnlyStopsServer
      BY <3>1 DEF ServerIsUnhealthy, WindowFails, BrowserOnlyStopsServer,
                  StopsServerOfFailedStart, ToldToExit, Told
    <3>2. CASE \/ ServerIsHealthy \/ StartFails \/ LoopBegins \/ MainLeaves
               \/ InterruptEnds \/ BrowserOnlyStops \/ BrowserOnlyStopsLocal
               \/ BrowserOnlyStopsController
      BY <2>1, <3>2 DEF ServerIsHealthy, StartFails, LoopBegins, MainLeaves, InterruptEnds,
                  BrowserOnlyStops, BrowserOnlyStopsLocal, BrowserOnlyStopsController, GoTo,
                  Threads
    <3> QED
      BY <1>1, <3>1, <3>2 DEF MainActs, BrowserOnlyEnds
  <2> QED
    BY <1>0, <2>1, <2>2, <2>3 DEF GoTo, Threads
<1>2. CASE Interrupt \/ InterruptKills \/ RuntimeStarts
  BY <1>0, <1>2 DEF Interrupt, InterruptKills, RuntimeStarts, GoTo, Threads
<1>3. CASE ServerComesUp \/ ServerCloses \/ SessionActs \/ UNCHANGED vars
  BY <1>0, <1>3, SessionActsOutside DEF ServerComesUp, ServerCloses, vars
<1>4. ASSUME NEW t \in Trays, Quit(t) \/ TrayStopsCapture(t)
      PROVE  /\ pc'[Main] = "ended" => Told' \/ owner' # None
             /\ \A u \in Threads : pc'[u] = "waiting" => Told' \/ owner' # None
  BY <1>0, <1>4 DEF Quit, TrayStopsCapture, GoTo, Threads
<1>5. ASSUME NEW t \in Threads, Proceeds(t)
      PROVE  /\ pc'[Main] = "ended" => Told' \/ owner' # None
             /\ \A u \in Threads : pc'[u] = "waiting" => Told' \/ owner' # None
  <2>1. CASE ReturnsComplete(t)
    <3>1. Told
      BY <2>1 DEF ReturnsComplete, Completed, FlagsAreEarned
    <3> QED
      BY <1>0, <3>1
  <2>2. CASE Finishes(t)
    <3>1. pc[t] = "release"
      BY <2>2 DEF Finishes
    <3>2. "server" \in done \cup failures
      BY <3>1 DEF Progress, Behind, Teardown
    <3>3. Told
      BY <3>2 DEF Telling, FlagsAreEarned
    <3> QED
      BY <1>0, <3>3
  <2>3. CASE Owns(t)
    BY <2>3 DEF Owns, Threads
  <2>4. CASE Waits(t)
    BY <1>0, <2>4 DEF Waits, MayOwn
  <2>5. CASE GivesUpWaiting(t)
    BY <1>0, <2>5 DEF GivesUpWaiting
  <2>6. ASSUME NEW w \in Places \ {"waiting", "ended"}, GoTo(t, w), UNCHANGED owner
        PROVE  /\ pc'[Main] = "ended" => Told' \/ owner' # None
               /\ \A u \in Threads : pc'[u] = "waiting" => Told' \/ owner' # None
    BY <1>0, <2>6 DEF GoTo, Threads
  <2>7. CASE Skips(t)
    <3>1. After[pc[t]] \in Places \ {"waiting", "ended"}
      BY <2>7 DEF Skips, After, Steps, Places, Owning, Teardown
    <3> QED
      BY <2>6, <2>7, <3>1 DEF Skips
  <2>8. CASE \E s \in Steps : Succeeds(t, s) \/ Fails(t, s)
    <3>1. PICK s \in Steps : GoTo(t, After[s]) /\ UNCHANGED owner
      BY <2>8, StepMoves
    <3>2. After[s] \in Places \ {"waiting", "ended"}
      BY DEF After, Steps, Places, Owning, Teardown
    <3> QED
      BY <2>6, <3>1, <3>2
  <2>9. CASE LooksAgain(t) \/ ReadsState(t) \/ TrayStopsController(t)
    <3>1. PICK w \in {"called", "server", "local", "away"} : GoTo(t, w)
      BY <2>9 DEF LooksAgain, ReadsState, TrayStopsController
    <3>2. w \in Places \ {"waiting", "ended"} /\ UNCHANGED owner
      BY <2>9 DEF LooksAgain, ReadsState, TrayStopsController, Places, Owning, Outside,
                  Teardown, Steps
    <3> QED
      BY <2>6, <3>1, <3>2
  <2> QED
    BY <1>5, <2>1, <2>2, <2>3, <2>4, <2>5, <2>7, <2>8, <2>9, StepActions DEF Proceeds
<1> QED
  BY <1>1, <1>2, <1>3, <1>4, <1>5 DEF Next, MainActs, SessionActs

-----------------------------------------------------------------------------
\* The invariant holds in every behaviour.
LEMMA ShutdownHolds == Spec => []ShutdownInv
<1>1. ShutdownInv /\ [Next]_vars => ShutdownInv'
  BY TypeStep, OwnerStep, ProgressStep, FreshStep, FlagsStep, CompletedStep, SilenceStep,
     TellingStep
     DEF ShutdownInv
<1> QED
  BY <1>1, ShutdownStarts, PTL DEF Spec

\* The variables keep their types, and no step is both flagged and to be retried.
THEOREM ShutdownTypes == Spec => []TypeOK
<1>1. ShutdownInv => TypeOK
  BY DEF ShutdownInv
<1> QED
  BY <1>1, ShutdownHolds, PTL

\* However many threads call shutdown, one of them tears down (shutdown's lock and owner).
THEOREM OnlyOneTearsDown == Spec => []OneTeardown
<1>1. ShutdownInv => OneTeardown
  BY DEF ShutdownInv
<1> QED
  BY <1>1, ShutdownHolds, PTL

\* Over all calls and retries no teardown step succeeds twice (_complete_teardown_step).
THEOREM NoStepTwice == Spec => []StepsOnce
<1>1. ShutdownInv => StepsOnce
  BY DEF ShutdownInv, FlagsAreEarned, StepsOnce
<1> QED
  BY <1>1, ShutdownHolds, PTL

\* A shutdown that is marked complete has the flag of each step, but perhaps of a local stop
\* that failed before the controller was stopped (shutdown's last branch, lines 333-344).
THEOREM CompletionIsEarned == Spec => []CompleteIsDone
<1>1. ShutdownInv => CompleteIsDone
  BY DEF ShutdownInv, Completed, FlagsAreEarned, CompleteIsDone, Told, Steps
<1> QED
  BY <1>1, ShutdownHolds, PTL

\* A complete shutdown leaves no capture but one that started late or has escaped the
\* controller (shutdown, session.py:442, capture.py:313).
THEOREM CompletionIsSilent == Spec => []CompleteIsSilent
<1>1. ShutdownInv => CompleteIsSilent
  BY DEF ShutdownInv, Completed, Silence, CompleteIsSilent
<1> QED
  BY <1>1, ShutdownHolds, PTL

\* Whatever start and teardown come to, the main thread leaves a server that is told to exit
\* or a teardown under way (start_runtime, start_browser_only, shutdown).
THEOREM ServerStaysTold == Spec => []ServerIsTold
<1>1. ShutdownInv => ServerIsTold
  BY DEF ShutdownInv, Telling
<1> QED
  BY <1>1, ShutdownHolds, PTL

=============================================================================
