----------------------- MODULE SessionSequentialProofs -----------------------
(***************************************************************************)
(* What SessionController guarantees, for every value of its constants,    *)
(* when requests do not overlap, no device is lost and no send fails: the  *)
(* streams may still fail, end, be denied and be resumed at any moment.    *)
(***************************************************************************)
EXTENDS SessionControllerProofs

USE ConstantsAssumption

Sequential == Overlap = FALSE /\ Losses = {} /\ Forwards = {}

Requests == Openers \cup Stoppers

\* One task at a time holds the session: a request, or else the reader of
\* _reader_task, which runs the recovery.  What it holds is what is recorded.
OneHolder ==
    /\ \A t, r \in Requests : pc[t] # "idle" /\ pc[r] # "idle" => t = r
    /\ \A s \in Streams : pc[s] # "idle" => s = readerTask
    /\ readerTask # None => /\ \A t \in Requests : pc[t] = "idle"
                            /\ state \in {"streaming", "reconnecting"}
                            /\ sessionUuid # None
                            /\ pc[readerTask] = "reading" => state = "streaming"
    /\ \A o \in Openers : pc[o] # "idle" => state = "starting"
    /\ rec.pc # "idle" => /\ readerTask # None /\ rec.owner = readerTask
                          /\ pc[readerTask] = "recovering"
                          /\ state = "reconnecting"

\* The holder knows the stream it waits for.
StreamKnown ==
    /\ \A o \in Openers : pc[o] = "awaiting" => opening[o].stream # None
    /\ rec.pc \in {"awaiting", "replaying"} => rec.stream # None

\* Only what the holder holds is recorded, and nothing once it gives it up.
RecordingHeld ==
    /\ running \subseteq {capture}
    /\ running # {} => readerTask # None
    /\ \A s \in Streams : pc[s] \in Terminal => running = {}
    /\ rec.pc = "failing" => running = {}

SequentialInv == TypeInv /\ OneHolder /\ StreamKnown /\ RecordingHeld

-----------------------------------------------------------------------------
LEMMA SequentialInit == Init => SequentialInv
<1> SUFFICES ASSUME Init PROVE SequentialInv
    OBVIOUS
<1>1. \A t \in Tasks : pc[t] = "idle"
    BY DEF Init
<1> QED
    BY <1>1, TypeInit DEF Init, SequentialInv, OneHolder, StreamKnown, RecordingHeld,
                          Requests, Tasks, NoRecovery, Terminal

\* While a request is in progress nothing else is, ...
LEMMA RequestAlone ==
    ASSUME Sequential, SequentialInv, NEW t \in Requests, pc[t] # "idle"
    PROVE  /\ readerTask = None /\ rec.pc = "idle" /\ running = {}
           /\ \A r \in Tasks : r # t => pc[r] = "idle"
<1> USE DEF SequentialInv, OneHolder, RecordingHeld, Sequential, Requests, Tasks
<1>1. readerTask = None /\ \A r \in Requests : r # t => pc[r] = "idle"
    OBVIOUS
<1>2. \A s \in Streams : pc[s] = "idle"
    BY <1>1
<1> QED
    BY <1>1, <1>2

\* ... and a step that leaves no more than one request in progress is a good one.
LEMMA RequestLeft ==
    ASSUME Sequential, NEW t \in Requests,
           readerTask' = None, rec'.pc = "idle", running' = {},
           \A r \in Tasks : r # t => pc'[r] = "idle",
           t \in Openers => /\ pc'[t] # "idle" => state' = "starting"
                            /\ pc'[t] = "awaiting" => opening'[t].stream # None
    PROVE  OneHolder' /\ StreamKnown' /\ RecordingHeld'
<1> USE DEF Sequential, Requests, Tasks
<1>1. \A s \in Streams : pc'[s] = "idle"
    OBVIOUS
<1>2. \A o \in Openers : pc'[o] # "idle" => o = t
    OBVIOUS
<1>3. OneHolder'
    BY <1>1, <1>2 DEF OneHolder
<1>4. StreamKnown'
    BY <1>2 DEF StreamKnown
<1>5. RecordingHeld'
    BY <1>1 DEF RecordingHeld, Terminal
<1> QED
    BY <1>3, <1>4, <1>5

\* A reader that alone holds a session is a good state, too.
LEMMA ReaderLeft ==
    ASSUME NEW s \in Streams,
           readerTask' = s, sessionUuid' # None, running' \subseteq {capture'},
           \A r \in Tasks : r # s => pc'[r] = "idle",
           state' \in {"streaming", "reconnecting"},
           pc'[s] = "reading" => state' = "streaming",
           pc'[s] \in Terminal => running' = {},
           rec'.pc # "idle" => /\ rec'.owner = s /\ pc'[s] = "recovering"
                               /\ state' = "reconnecting",
           rec'.pc \in {"awaiting", "replaying"} => rec'.stream # None,
           rec'.pc = "failing" => running' = {}
    PROVE  OneHolder' /\ StreamKnown' /\ RecordingHeld'
<1>1. \A t \in Requests : pc'[t] = "idle"
    BY DEF Requests, Tasks
<1>2. \A r \in Streams : r # s => pc'[r] = "idle"
    BY DEF Tasks
<1>3. OneHolder'
  <2>1. s # None /\ \A o \in Openers : pc'[o] = "idle"
    BY <1>1 DEF Requests, Tasks
  <2> QED
    BY <1>1, <1>2, <2>1 DEF OneHolder
<1>4. StreamKnown'
    BY <1>1 DEF StreamKnown, Requests
<1>5. RecordingHeld'
    BY <1>2, <1>3 DEF RecordingHeld, OneHolder, Tasks, Terminal
<1> QED
    BY <1>3, <1>4, <1>5

\* Moving the program counter of one task leaves the others where they are.
LEMMA GoToOthers ==
    ASSUME SequentialInv, NEW t \in Tasks, NEW where, GoTo(t, where)
    PROVE  pc'[t] = where /\ \A r \in Tasks : r # t => pc'[r] = pc[r]
    BY DEF SequentialInv, TypeInv, TypeOK, GoTo

\* The steps of requests preserve the parts of SequentialInv.
LEMMA RequestStep ==
    ASSUME Sequential, SequentialInv, NEW t \in Requests,
           \/ t \in Openers /\ (OpenBegins(t) \/ OpenProceeds(t))
           \/ t \in Stoppers /\ (StopBegins(t) \/ StopProceeds(t))
    PROVE  OneHolder' /\ StreamKnown' /\ RecordingHeld'
<1> USE DEF streams, audio, fields, locals
<1>a. t \in Tasks /\ (t \in Openers <=> t \notin Stoppers)
    BY DEF Requests, Tasks
<1>b. pc \in [Tasks -> Places] /\ rec \in Recoveries /\ readerTask \in Streams \cup {None}
      /\ opening \in [Openers -> [stream : Streams \cup {None}, resume : Uuids \cup {None}]]
    BY DEF SequentialInv, TypeInv, TypeOK
<1>1. CASE t \in Openers /\ OpenBegins(t)
  <2>1. \A r \in Requests : pc[r] = "idle"
    BY <1>1 DEF OpenBegins, MayRequest, Sequential, Requests
  <2>2. readerTask = None /\ rec.pc = "idle" /\ running = {}
    BY <1>1 DEF OpenBegins, SequentialInv, OneHolder, RecordingHeld, Active
  <2>3. \A r \in Tasks : pc[r] = "idle"
    BY <2>1, <2>2 DEF SequentialInv, OneHolder, Sequential, Requests, Tasks
  <2>4. pc'[t] = "connecting" /\ \A r \in Tasks : r # t => pc'[r] = "idle"
    BY <1>1, <1>a, <2>3, GoToOthers DEF OpenBegins
  <2> QED
    BY <1>1, <2>2, <2>4, RequestLeft DEF OpenBegins
<1>2. CASE t \in Openers /\ OpenConnects(t)
  <2>1. pc[t] # "idle"
    BY <1>2 DEF OpenConnects
  <2>2. state = "starting"
    BY <1>2, <2>1 DEF SequentialInv, OneHolder
  <2>3. \A r \in Tasks : r # t => pc'[r] = "idle"
    BY <1>2, <1>a, <2>1, RequestAlone, GoToOthers DEF OpenConnects
  <2>4. opening'[t].stream # None
    BY <1>2, <1>b DEF OpenConnects, Tasks
  <2> QED
    BY <1>2, <2>1, <2>2, <2>3, <2>4, RequestAlone, RequestLeft DEF OpenConnects
<1>3. CASE t \in Openers /\ (OpenIsRefused(t) \/ \E u \in Uuids : OpenCaptureFails(t, u))
  <2>1. /\ pc[t] # "idle" /\ state' = state
        /\ readerTask' = readerTask /\ rec' = rec /\ running' = running
    BY <1>3 DEF OpenIsRefused, OpenCaptureFails, AdoptStarted
  <2>2. state = "starting"
    BY <1>3, <2>1 DEF SequentialInv, OneHolder
  <2>3. pc'[t] # "awaiting" /\ \A r \in Tasks : r # t => pc'[r] = "idle"
    BY <1>3, <1>a, <2>1, RequestAlone, GoToOthers DEF OpenIsRefused, OpenCaptureFails
  <2> QED
    BY <2>1, <2>2, <2>3, RequestAlone, RequestLeft
<1>4. ASSUME NEW u \in Uuids, t \in Openers, OpenSucceeds(t, u)
      PROVE  OneHolder' /\ StreamKnown' /\ RecordingHeld'
  <2>1. pc[t] = "awaiting"
    BY <1>4 DEF OpenSucceeds, AdoptStarted
  <2>2. opening[t].stream \in Streams
    BY <1>4, <1>b, <2>1 DEF SequentialInv, StreamKnown
  <2>3. readerTask = None /\ rec.pc = "idle" /\ running = {}
        /\ \A r \in Tasks : r # t => pc[r] = "idle"
    BY <2>1, RequestAlone
  <2>4. /\ pc'[opening[t].stream] = "reading"
        /\ \A r \in Tasks : r # opening[t].stream => pc'[r] = "idle"
    BY <1>4, <1>a, <1>b, <2>2, <2>3 DEF OpenSucceeds, StartReader, Tasks
  <2>5. running' \subseteq {capture'} /\ rec' = rec /\ state' = "streaming"
        /\ sessionUuid' # None /\ readerTask' = opening[t].stream
    BY <1>4, <2>3 DEF OpenSucceeds, AdoptStarted, StartReader
  <2> QED
    BY <2>2, <2>3, <2>4, <2>5, ReaderLeft DEF Terminal
<1>5. CASE t \in Openers /\ OpenFails(t)
  <2>1. pc[t] # "idle"
    BY <1>5 DEF OpenFails, Terminal
  <2>2. \A r \in Tasks : pc'[r] = "idle"
    BY <1>5, <1>a, <2>1, RequestAlone, GoToOthers DEF OpenFails
  <2>3. readerTask' = readerTask /\ rec' = rec /\ running' = running \ {capture}
    BY <1>5 DEF OpenFails, StopCapture
  <2> QED
    BY <1>a, <2>1, <2>2, <2>3, RequestAlone, RequestLeft
<1>6. CASE t \in Stoppers /\ StopBegins(t)
  <2>1. \A r \in Requests : pc[r] = "idle"
    BY <1>6 DEF StopBegins, MayRequest, Sequential, Requests
  <2>2. readerTask' = None /\ running' = {}
    BY <1>6 DEF StopBegins, TearDown, StopCapture, SequentialInv, RecordingHeld
  <2>3. rec'.pc = "idle"
    BY <1>6 DEF StopBegins, CancelReader, NoRecovery, SequentialInv, OneHolder
  <2>4. WithoutReader \in [Tasks -> Places] /\ \A r \in Tasks : WithoutReader[r] = "idle"
    BY <1>b, <2>1 DEF WithoutReader, SequentialInv, OneHolder, Sequential, Requests, Tasks,
                      Places
  <2>5. \A r \in Tasks : r # t => pc'[r] = "idle"
    BY <1>6, <2>4 DEF StopBegins
  <2> QED
    BY <1>a, <1>6, <2>2, <2>3, <2>5, RequestLeft
<1>7. CASE t \in Stoppers /\ StopProceeds(t)
  <2>1. /\ pc[t] # "idle"
        /\ readerTask' = readerTask /\ rec' = rec /\ running' = running
    BY <1>7 DEF StopProceeds, StopConnects, StopFindsNoStream
  <2>2. \A r \in Tasks : r # t => pc'[r] = "idle"
    BY <1>7, <1>a, <2>1, RequestAlone, GoToOthers
       DEF StopProceeds, StopConnects, StopFindsNoStream
  <2> QED
    BY <1>a, <1>7, <2>1, <2>2, RequestAlone, RequestLeft
<1> QED
    BY <1>1, <1>2, <1>3, <1>4, <1>5, <1>6, <1>7 DEF OpenProceeds

\* A reader at work is the one of _reader_task, and nothing else is in progress.
LEMMA ReaderAlone ==
    ASSUME Sequential, SequentialInv, NEW s \in Streams, pc[s] # "idle"
    PROVE  /\ readerTask = s /\ sessionUuid # None
           /\ state \in {"streaming", "reconnecting"}
           /\ \A r \in Tasks : r # s => pc[r] = "idle"
<1> USE DEF SequentialInv, OneHolder, Sequential, Requests, Tasks
<1>1. readerTask = s /\ s # None
    OBVIOUS
<1> QED
    BY <1>1

\* When the holder is gone, nothing is in progress at all.
LEMMA NobodyLeft ==
    ASSUME Sequential, readerTask' = None, rec'.pc = "idle", running' = {},
           \A r \in Tasks : pc'[r] = "idle"
    PROVE  OneHolder' /\ StreamKnown' /\ RecordingHeld'
<1>1. \A s \in Streams : pc'[s] = "idle" /\ pc'[s] \notin Terminal
    BY DEF Tasks, Terminal
<1>2. \A t \in Requests : pc'[t] = "idle"
    BY DEF Tasks, Requests
<1> QED
    BY <1>1, <1>2 DEF OneHolder, StreamKnown, RecordingHeld, Requests

\* So do the steps of readers, ...
LEMMA ReaderStep ==
    ASSUME Sequential, SequentialInv, NEW s \in Streams,
           ReaderTearsDown(s) \/ ReaderRecovers(s) \/ ReaderStops(s)
    PROVE  OneHolder' /\ StreamKnown' /\ RecordingHeld'
<1> USE DEF streams, audio, fields, locals
<1>0. /\ pc[s] = "reading" /\ s \in Tasks
      /\ readerTask = s /\ sessionUuid # None /\ state = "streaming" /\ rec.pc = "idle"
      /\ running \subseteq {capture}
      /\ \A r \in Tasks : r # s => pc[r] = "idle"
  <2>1. pc[s] = "reading" /\ s \in Tasks
    BY DEF ReaderTearsDown, ReaderRecovers, ReaderStops, Tasks
  <2> QED
    BY <2>1, ReaderAlone DEF SequentialInv, OneHolder, RecordingHeld
<1>1. CASE ReaderTearsDown(s)
  <2>1. running' = {} /\ rec' = rec /\ sessionUuid' = sessionUuid
    BY <1>0, <1>1 DEF ReaderTearsDown, TearDown, StopCapture
  <2>2. PICK outcome \in Terminal : ThenPublishes(s, outcome)
    BY <1>1 DEF ReaderTearsDown, Terminal
  <2>3. CASE Taken = None
    <3>1. readerTask' = None /\ \A r \in Tasks : pc'[r] = "idle"
      BY <1>0, <2>2, <2>3, GoToOthers DEF ThenPublishes, ForgetReader
    <3> QED
      BY <1>0, <2>1, <3>1, NobodyLeft
  <2>4. CASE Taken # None
    <3>1. /\ readerTask' = s /\ state' = "streaming" /\ pc'[s] = outcome
          /\ \A r \in Tasks : r # s => pc'[r] = "idle"
      BY <1>0, <2>2, <2>4, GoToOthers DEF ThenPublishes
    <3> QED
      BY <1>0, <2>1, <3>1, ReaderLeft
  <2> QED
    BY <2>3, <2>4
<1>2. CASE ReaderRecovers(s)
  <2>1. /\ pc'[s] = "recovering" /\ \A r \in Tasks : r # s => pc'[r] = "idle"
        /\ state' = "reconnecting" /\ rec'.pc = "sleeping" /\ rec'.owner = s
        /\ UNCHANGED <<readerTask, sessionUuid, running, capture>>
    BY <1>0, <1>2, GoToOthers DEF ReaderRecovers, RecoveryBegins, NoRecovery
  <2> QED
    BY <1>0, <2>1, ReaderLeft DEF Terminal
<1>3. ~ReaderStops(s)
    BY <1>0 DEF ReaderStops, ShouldRecover, MayRecover
<1> QED
    BY <1>1, <1>2, <1>3

\* ... of the recovery, ...
LEMMA RecoveryStep ==
    ASSUME Sequential, SequentialInv, RecoverProceeds
    PROVE  OneHolder' /\ StreamKnown' /\ RecordingHeld'
<1> USE DEF streams, audio, fields, locals
<1> DEFINE s == readerTask
<1>a. rec.pc # "idle"
    BY DEF RecoverProceeds, RecoverWakes, RecoverIsObsolete, RecoverConnects, RecoverStarts,
           RecoverCompletes, RecoverDiscards, RecoverRetries, RecoverExhausts, RecoverFails,
           RecoverIsDenied, RecoverDenialCompletes, AttemptIsOver, AttemptRuns
<1>b. /\ s \in Streams /\ s \in Tasks /\ sessionUuid # None
      /\ rec.owner = s /\ state = "reconnecting" /\ running \subseteq {capture}
      /\ \A r \in Tasks : r # s => pc[r] = "idle"
      /\ pc[s] = "recovering"
      /\ rec.pc \in {"awaiting", "replaying"} => rec.stream # None
      /\ rec.pc = "failing" => running = {}
  <2>1. readerTask # None /\ readerTask \in Streams \cup {None}
    BY <1>a DEF SequentialInv, TypeInv, TypeOK, OneHolder
  <2> QED
    BY <1>a, <2>1 DEF SequentialInv, OneHolder, StreamKnown, RecordingHeld, Sequential,
                      Requests, Tasks
<1>c. pc \in [Tasks -> Places] /\ rec \in Recoveries
    BY DEF SequentialInv, TypeInv, TypeOK
<1> HIDE DEF s
\* A step that only moves the recovery on.
<1>d. ASSUME UNCHANGED <<state, sessionUuid, pc, readerTask, capture>>, running' = running,
             rec'.owner = rec.owner,
             rec'.pc \in {"awaiting", "replaying"} => rec'.stream # None,
             rec'.pc = "failing" => running' = {}
      PROVE  OneHolder' /\ StreamKnown' /\ RecordingHeld'
    BY <1>b, <1>d, ReaderLeft DEF s, Terminal
\* A step that ends the recovery together with the capture.
<1>e. ASSUME RecoveryEnds, running' = {}
      PROVE  OneHolder' /\ StreamKnown' /\ RecordingHeld'
  <2>1. readerTask' = None /\ rec'.pc = "idle" /\ \A r \in Tasks : pc'[r] = "idle"
    BY <1>b, <1>e, GoToOthers DEF RecoveryEnds, NoRecovery, ForgetReader, s
  <2> QED
    BY <1>e, <2>1, NobodyLeft
<1>1. CASE RecoverWakes
    BY <1>1, <1>b, <1>c, <1>d DEF RecoverWakes, Recoveries
<1>2. ~RecoverIsObsolete
    BY <1>b DEF RecoverIsObsolete
<1>3. CASE RecoverConnects
  <2>1. PICK n \in Streams : rec' = [rec EXCEPT !.pc = "awaiting", !.stream = n]
    BY <1>3 DEF RecoverConnects
  <2>2. rec'.owner = rec.owner /\ rec'.pc = "awaiting" /\ rec'.stream # None
    BY <1>c, <2>1 DEF Recoveries, Tasks
  <2> QED
    BY <1>3, <1>d, <2>2 DEF RecoverConnects
<1>4. ASSUME NEW u \in Uuids, RecoverStarts(u)
      PROVE  OneHolder' /\ StreamKnown' /\ RecordingHeld'
    BY <1>4, <1>b, <1>c, <1>d DEF RecoverStarts, Recoveries
<1>5. CASE RecoverCompletes
  <2>1. rec.stream \in Streams
    BY <1>5, <1>b, <1>c DEF RecoverCompletes, Recoveries
  <2>2. pc'[rec.stream] = "reading" /\ \A r \in Tasks : r # rec.stream => pc'[r] = "idle"
    BY <1>5, <1>b, <1>c, <2>1 DEF RecoverCompletes, StartReader, Tasks
  <2>3. /\ rec'.pc = "idle" /\ state' = "streaming" /\ readerTask' = rec.stream
        /\ UNCHANGED <<sessionUuid, capture, running>>
    BY <1>5 DEF RecoverCompletes, StartReader, NoRecovery
  <2> QED
    BY <1>b, <2>1, <2>2, <2>3, ReaderLeft DEF Terminal
<1>6. ASSUME NEW failure \in Failures, RecoverDiscards(failure)
      PROVE  OneHolder' /\ StreamKnown' /\ RecordingHeld'
    BY <1>6, <1>c, <1>d DEF RecoverDiscards, Discard, Recoveries
<1>7. CASE RecoverRetries
    BY <1>7, <1>c, <1>d DEF RecoverRetries, Recoveries
<1>8. CASE RecoverExhausts
    BY <1>8, <1>c, <1>d DEF RecoverExhausts, Discard, Recoveries
<1>9. CASE RecoverFails
    BY <1>9, <1>b, <1>e DEF RecoverFails, GiveUp, StopCapture
<1>10. CASE RecoverIsDenied
  <2>1. running' = {} /\ UNCHANGED sessionUuid
    BY <1>10, <1>b DEF RecoverIsDenied, TearDown, StopCapture
  <2>2. CASE Taken = None
    BY <1>10, <1>e, <2>1, <2>2 DEF RecoverIsDenied
  <2>3. CASE Taken # None
    <3>1. /\ rec'.pc = "failing" /\ rec'.owner = rec.owner
          /\ UNCHANGED <<state, readerTask, pc>>
      BY <1>10, <1>c, <2>3 DEF RecoverIsDenied, Recoveries
    <3> QED
      BY <1>b, <2>1, <3>1, ReaderLeft DEF s, Terminal
  <2> QED
    BY <2>2, <2>3
<1>11. CASE RecoverDenialCompletes
    BY <1>11, <1>b, <1>e DEF RecoverDenialCompletes
<1> QED
    BY <1>1, <1>2, <1>3, <1>4, <1>5, <1>6, <1>7, <1>8, <1>9, <1>10, <1>11 DEF RecoverProceeds

\* ... and of the other tasks.
LEMMA SequentialStep == Sequential /\ SequentialInv /\ [Next]_vars => SequentialInv'
<1> SUFFICES ASSUME Sequential, SequentialInv, [Next]_vars
             PROVE  OneHolder' /\ StreamKnown' /\ RecordingHeld'
    BY TypeStep DEF SequentialInv
<1>1. ASSUME NEW t \in Tasks, Publishes(t) PROVE OneHolder' /\ StreamKnown' /\ RecordingHeld'
  <2> USE DEF streams, audio, locals
  <2>1. pc[t] # "idle" /\ UNCHANGED <<rec, running>>
    BY <1>1 DEF Publishes, Terminal
  <2>2. CASE t \in Stoppers
    <3>1. readerTask' = None /\ \A r \in Tasks : pc'[r] = "idle"
      BY <1>1, <2>1, <2>2, RequestAlone, GoToOthers
         DEF Publishes, ForgetReader, Requests
    <3> QED
      BY <2>1, <2>2, <3>1, RequestAlone, NobodyLeft DEF Requests
  <2>3. CASE t \in Streams
    <3>1. readerTask' = None /\ \A r \in Tasks : pc'[r] = "idle"
      BY <1>1, <2>1, <2>3, ReaderAlone, GoToOthers DEF Publishes, ForgetReader
    <3>2. running = {} /\ rec.pc = "idle"
      BY <1>1, <2>1, <2>3 DEF Publishes, SequentialInv, OneHolder, RecordingHeld, Terminal
    <3> QED
      BY <2>1, <3>1, <3>2, NobodyLeft DEF Publishes
  <2> QED
    BY <1>1, <2>2, <2>3 DEF Publishes, Tasks, Sequential
<1>2. CASE FrameIsBuffered
    BY <1>2 DEF FrameIsBuffered, streams, locals, SequentialInv, OneHolder, StreamKnown,
                RecordingHeld
<1>3. CASE UNCHANGED vars
    BY <1>3 DEF vars, streams, audio, fields, locals, SequentialInv, OneHolder, StreamKnown,
                RecordingHeld
<1>4. ~StopLocalCapture
    BY DEF StopLocalCapture, Sequential
<1> QED
    BY <1>1, <1>2, <1>3, <1>4, RequestStep, ReaderStep, RecoveryStep
       DEF Next, TaskProceeds, Sequential, Requests

LEMMA SequentialHolds == Sequential /\ Spec => []SequentialInv
<1> SUFFICES ASSUME Sequential PROVE Spec => []SequentialInv
    OBVIOUS
<1>1. SequentialInv /\ [Next]_vars => SequentialInv'
    BY SequentialStep
<1> QED
    BY <1>1, SequentialInit, PTL DEF Spec

-----------------------------------------------------------------------------
\* The microphone is recorded only while the published state shows a session (the
\* order _stop_capture before _set_state of every ending in session.py).
THEOREM RecordingIsShown == Sequential /\ Spec => []CaptureImpliesActive
<1>1. SequentialInv => CaptureImpliesActive
    BY DEF SequentialInv, OneHolder, RecordingHeld, CaptureImpliesActive, Active
<1> QED
    BY <1>1, SequentialHolds, PTL

\* No capture is orphaned: _capture names the only one that runs.
THEOREM RecordingIsStoppable == Sequential /\ Spec => []RunningIsOwned
<1>1. SequentialInv => RunningIsOwned
    BY DEF SequentialInv, RecordingHeld, RunningIsOwned
<1> QED
    BY <1>1, SequentialHolds, PTL

\* A session that is over stays over until start_new or resume is called again.
THEOREM OverUntilOpened == Sequential /\ Spec => TerminalLeftByOpen
<1> SUFFICES ASSUME Sequential PROVE Spec => TerminalLeftByOpen
    OBVIOUS
<1>1. SequentialInv /\ [Next]_vars
        => ((state \in Terminal /\ state' \notin Terminal) => state' = "starting")
  <2> SUFFICES ASSUME SequentialInv, Next, state \in Terminal, state' \notin Terminal
               PROVE  state' = "starting"
      BY DEF vars, fields
  <2> USE DEF SequentialInv, Sequential, OneHolder, Requests, Terminal, streams, audio, fields
  <2>1. readerTask = None /\ rec.pc = "idle"
    OBVIOUS
  <2>2. ASSUME NEW o \in Openers, OpenBegins(o) \/ OpenProceeds(o) PROVE state' = "starting"
    BY <2>2 DEF OpenBegins, OpenProceeds, OpenConnects, OpenIsRefused, OpenSucceeds,
                OpenCaptureFails, AdoptStarted, OpenFails, OutcomeOf
  <2>3. ASSUME NEW p \in Stoppers PROVE ~(StopBegins(p) \/ StopProceeds(p))
    BY DEF StopBegins, StopProceeds, StopConnects, StopFindsNoStream
  <2>4. ASSUME NEW s \in Streams
        PROVE  ~(ReaderTearsDown(s) \/ ReaderRecovers(s) \/ ReaderStops(s))
    <3>1. pc[s] = "idle"
      BY <2>1 DEF Tasks
    <3> QED
      BY <3>1 DEF ReaderTearsDown, ReaderRecovers, ReaderStops
  <2>5. ~RecoverProceeds
    BY <2>1 DEF RecoverProceeds, RecoverWakes, RecoverIsObsolete, RecoverConnects,
           RecoverStarts, RecoverCompletes, RecoverDiscards, RecoverRetries, RecoverExhausts,
           RecoverFails, RecoverIsDenied, RecoverDenialCompletes, AttemptIsOver, AttemptRuns
  <2>6. ~(StopLocalCapture \/ FrameIsBuffered \/ \E t \in Tasks : Publishes(t))
    BY DEF StopLocalCapture, FrameIsBuffered, Publishes
  <2> QED
    BY <2>2, <2>3, <2>4, <2>5, <2>6 DEF Next, TaskProceeds
<1> QED
    BY <1>1, SequentialHolds, PTL DEF Spec, TerminalLeftByOpen
=============================================================================
