----------------------- MODULE SessionControllerProofs -----------------------
(***************************************************************************)
(* Theorems about SessionController, for every value of its constants.     *)
(***************************************************************************)
EXTENDS SessionController, TLAPS

\* The inductive strengthening of TypeOK: whoever records, or sends a frame, does
\* it for a session, so that only sessions enter the buffer.
SessionKnown ==
    /\ running # {} => sessionUuid # None
    /\ \A f \in Forwards : pc[f] = "sending" => sending[f] # None

TypeInv == TypeOK /\ SessionKnown

USE ConstantsAssumption

-----------------------------------------------------------------------------
\* Moving one program counter keeps their type, ...
LEMMA GoToType ==
    ASSUME pc \in [Tasks -> Places], NEW t, NEW where \in Places, GoTo(t, where)
    PROVE  pc' \in [Tasks -> Places]
    BY DEF GoTo

\* ... and makes nobody send unless it says so.
LEMMA GoToSenders ==
    ASSUME pc \in [Tasks -> Places], NEW t, NEW where \in Places \ {"sending"}, GoTo(t, where),
           NEW f \in Forwards, pc'[f] = "sending"
    PROVE  pc[f] = "sending"
    BY DEF GoTo, Tasks

\* Starting a reader moves two of them.
LEMMA StartReaderType ==
    ASSUME pc \in [Tasks -> Places], NEW t, NEW s \in Streams \cup {None}, StartReader(t, s)
    PROVE  /\ pc' \in [Tasks -> Places]
           /\ readerTask' \in Streams \cup {None}
           /\ \A f \in Forwards : pc'[f] = "sending" => pc[f] = "sending"
<1> DEFINE one == [pc EXCEPT ![t] = "idle"]
<1>1. one \in [Tasks -> Places] /\ pc' = [one EXCEPT ![s] = "reading"]
    BY DEF StartReader, Places, Terminal
<1>2. \A f \in Forwards : /\ one[f] = "sending" => pc[f] = "sending"
                          /\ pc'[f] = "sending" => one[f] = "sending"
    BY <1>1 DEF Tasks
<1> QED
    BY <1>1, <1>2 DEF StartReader, Places

LEMMA ForgetReaderType ==
    ASSUME readerTask \in Streams \cup {None}, NEW r, ForgetReader(r)
    PROVE  readerTask' \in Streams \cup {None}
    BY DEF ForgetReader

\* A recovery that ends or begins, and a publication, keep the types they touch.
LEMMA RecoveryEndsType ==
    ASSUME TypeInv, RecoveryEnds
    PROVE  /\ rec' \in Recoveries
           /\ pc' \in [Tasks -> Places]
           /\ readerTask' \in Streams \cup {None}
           /\ \A f \in Forwards : pc'[f] = "sending" => pc[f] = "sending"
<1>1. "idle" \in Places \ {"sending"}
    BY DEF Places
<1>2. NoRecovery \in Recoveries
    BY DEF NoRecovery, Recoveries, Failures
<1> QED
    BY <1>1, <1>2, GoToType, GoToSenders, ForgetReaderType
       DEF RecoveryEnds, TypeInv, TypeOK

LEMMA RecoveryBeginsType ==
    ASSUME TypeInv, NEW owner \in Streams \cup Forwards, RecoveryBegins(owner)
    PROVE  /\ rec' \in Recoveries
           /\ pc' \in [Tasks -> Places]
           /\ {stream', recoveryStream'} \subseteq Streams \cup {None}
           /\ state' \in States
           /\ \A f \in Forwards : pc'[f] = "sending" => pc[f] = "sending"
<1>1. "recovering" \in Places \ {"sending"}
    BY DEF Places, Terminal
<1>2. rec' = [pc |-> "sleeping", owner |-> owner, attempt |-> 1, stream |-> None,
              failure |-> "retry"]
    BY DEF RecoveryBegins, NoRecovery
<1>3. rec' \in Recoveries
    BY <1>2 DEF Recoveries, Failures
<1> QED
    BY <1>1, <1>3, GoToType, GoToSenders
       DEF RecoveryBegins, TypeInv, TypeOK, States, Active

LEMMA ThenPublishesType ==
    ASSUME TypeInv, NEW t, NEW outcome \in Terminal, ThenPublishes(t, outcome)
    PROVE  /\ state' \in States
           /\ pc' \in [Tasks -> Places]
           /\ readerTask' \in Streams \cup {None}
           /\ \A f \in Forwards : pc'[f] = "sending" => pc[f] = "sending"
<1>1. {"idle", outcome} \subseteq Places \ {"sending"}
    BY DEF Places, Terminal
<1> QED
    BY <1>1, GoToType, GoToSenders, ForgetReaderType
       DEF ThenPublishes, TypeInv, TypeOK, States

LEMMA TearDownType ==
    ASSUME TypeInv, TearDown
    PROVE  /\ {stream', recoveryStream'} \subseteq Streams \cup {None}
           /\ capture' \in Captures \cup {None}
           /\ buffered' \subseteq Uuids
           /\ live' \subseteq Streams
           /\ running' \subseteq running
    BY DEF TypeInv, TypeOK, TearDown, StopCapture

-----------------------------------------------------------------------------
\* TypeInv is inductive.
LEMMA TypeStep == TypeInv /\ [Next]_vars => TypeInv'
<1> SUFFICES ASSUME TypeInv, [Next]_vars PROVE TypeInv'
    OBVIOUS
<1> DEFINE Waits == {"idle", "connecting", "awaiting", "posted", "failed", "stopped",
                     "device_selection_required"}
<1>a. Waits \subseteq Places \ {"sending"}
    BY DEF Places, Terminal
<1>b. pc \in [Tasks -> Places]
    BY DEF TypeInv, TypeOK
<1>c. ASSUME NEW t, NEW where \in Waits, GoTo(t, where)
      PROVE  /\ pc' \in [Tasks -> Places]
             /\ \A f \in Forwards : pc'[f] = "sending" => pc[f] = "sending"
    BY <1>a, <1>b, <1>c, GoToType, GoToSenders
<1> HIDE DEF Waits
<1>d. /\ {"idle", "connecting", "awaiting", "posted", "failed", "stopped",
          "device_selection_required"} = Waits
      /\ Active \subseteq States /\ Terminal \subseteq States \cap Waits
    BY DEF Waits, States, Active, Terminal
<1> USE DEF TypeInv, TypeOK, SessionKnown, streams, audio, fields, locals
<1>1. ASSUME NEW o \in Openers, OpenBegins(o) PROVE TypeInv'
    BY <1>1, <1>c, <1>d DEF OpenBegins, Active
<1>2. ASSUME NEW o \in Openers, OpenConnects(o) PROVE TypeInv'
    BY <1>2, <1>c, <1>d DEF OpenConnects
<1>3. ASSUME NEW o \in Openers, OpenIsRefused(o) PROVE TypeInv'
    BY <1>3, <1>c, <1>d DEF OpenIsRefused
<1>4. ASSUME NEW o \in Openers, NEW u \in Uuids, OpenSucceeds(o, u) PROVE TypeInv'
  <2>1. opening[o].stream \in Streams \cup {None}
    OBVIOUS
  <2> QED
    BY <1>4, <2>1, StartReaderType, <1>d DEF OpenSucceeds, AdoptStarted, Active, NotOpening
<1>5. ASSUME NEW o \in Openers, NEW u \in Uuids, OpenCaptureFails(o, u) PROVE TypeInv'
    BY <1>5, <1>c, <1>d DEF OpenCaptureFails, AdoptStarted
<1>6. ASSUME NEW o \in Openers, OpenFails(o) PROVE TypeInv'
    BY <1>6, <1>c, <1>d DEF OpenFails, StopCapture, OutcomeOf, NotOpening, Terminal
<1>7. ASSUME NEW p \in Stoppers, StopBegins(p) PROVE TypeInv'
  <2>1. /\ WithoutReader \in [Tasks -> Places]
        /\ \A f \in Forwards : WithoutReader[f] = "sending" => pc[f] = "sending"
    BY <1>a, <1>d DEF WithoutReader, Tasks
  <2>2. /\ pc' \in [Tasks -> Places]
        /\ \A f \in Forwards : pc'[f] = "sending" => pc[f] = "sending"
    BY <1>7, <1>a, <1>d, <2>1 DEF StopBegins, Tasks
  <2>3. rec' \in Recoveries
    BY <1>7 DEF StopBegins, CancelReader, NoRecovery, Recoveries, Failures
  <2>4. state' \in States
    BY <1>7, <1>d DEF StopBegins, Terminal
  <2> QED
    BY <1>7, <2>2, <2>3, <2>4, TearDownType DEF StopBegins
<1>8. ASSUME NEW p \in Stoppers, StopConnects(p) PROVE TypeInv'
    BY <1>8, <1>c, <1>d DEF StopConnects
<1>9. ASSUME NEW p \in Stoppers, StopFindsNoStream(p) PROVE TypeInv'
    BY <1>9, <1>c, <1>d DEF StopFindsNoStream, Terminal
<1>10. ASSUME StopLocalCapture PROVE TypeInv'
    BY <1>10 DEF StopLocalCapture, StopCapture
<1>11. ASSUME NEW l \in Losses, DeviceIsLost(l) PROVE TypeInv'
    BY <1>11, <1>c, <1>d DEF DeviceIsLost
<1>12. ASSUME NEW l \in Losses, LossIsIgnored(l) PROVE TypeInv'
    BY <1>12, <1>c, <1>d DEF LossIsIgnored
<1>13. ASSUME NEW l \in Losses, LossIsHandled(l) PROVE TypeInv'
  <2>1. "device_selection_required" \in Terminal
    BY DEF Terminal
  <2> QED
    BY <1>13, <2>1, TearDownType, ThenPublishesType DEF LossIsHandled
<1>14. ASSUME NEW t \in Tasks, Publishes(t) PROVE TypeInv'
    BY <1>14, <1>c, <1>d, ForgetReaderType DEF Publishes
<1>15. ASSUME NEW s \in Streams, ReaderTearsDown(s) PROVE TypeInv'
  <2>1. {"stopped", "failed"} \subseteq Terminal
    BY DEF Terminal
  <2> QED
    BY <1>15, <2>1, TearDownType, ThenPublishesType DEF ReaderTearsDown
<1>16. ASSUME NEW s \in Streams, ReaderRecovers(s) PROVE TypeInv'
    BY <1>16, RecoveryBeginsType DEF ReaderRecovers
<1>17. ASSUME NEW s \in Streams, ReaderStops(s) PROVE TypeInv'
    BY <1>17, <1>c, <1>d, ForgetReaderType DEF ReaderStops
<1>18. ASSUME NEW f \in Forwards, FrameIsSent(f) PROVE TypeInv'
  <2>1. pc' \in [Tasks -> Places]
    BY <1>18, GoToType DEF FrameIsSent, Places
  <2>2. \A g \in Forwards : pc'[g] = "sending" => g = f \/ pc[g] = "sending"
    BY <1>18 DEF FrameIsSent, GoTo, Tasks
  <2> QED
    BY <1>18, <2>1, <2>2 DEF FrameIsSent
<1>19. ASSUME FrameIsBuffered PROVE TypeInv'
    BY <1>19 DEF FrameIsBuffered
<1>20. ASSUME NEW f \in Forwards, SendCompletes(f) PROVE TypeInv'
  <2>1. pc'[f] # "sending"
    BY <1>20 DEF SendCompletes, GoTo, Tasks
  <2> QED
    BY <1>20, <2>1, <1>c, <1>d DEF SendCompletes
<1>21. ASSUME NEW f \in Forwards, SendFails(f) PROVE TypeInv'
  <2>1. pc'[f] # "sending"
    BY <1>21 DEF SendFails, RecoveryBegins, GoTo, Tasks
  <2>2. CASE MayRecover
    BY <1>21, <2>1, <2>2, RecoveryBeginsType DEF SendFails
  <2>3. CASE ~MayRecover
    BY <1>21, <2>1, <2>3, <1>c, <1>d DEF SendFails
  <2> QED
    BY <2>2, <2>3
<1>22. ASSUME RecoverProceeds PROVE TypeInv'
  <2>1. CASE RecoverWakes
    BY <2>1 DEF RecoverWakes, Recoveries
  <2>2. CASE RecoverIsObsolete
    BY <2>2, RecoveryEndsType DEF RecoverIsObsolete
  <2>3. CASE RecoverConnects
    <3>1. PICK s \in Streams : /\ Supersedes(s)
                               /\ rec' = [rec EXCEPT !.pc = "awaiting", !.stream = s]
      BY <2>3 DEF RecoverConnects
    <3>2. rec' \in Recoveries
      BY <3>1 DEF Recoveries
    <3> QED
      BY <2>3, <3>1, <3>2 DEF RecoverConnects, Supersedes
  <2>4. ASSUME NEW u \in Uuids, RecoverStarts(u) PROVE TypeInv'
    <3>1. rec' \in Recoveries /\ rec.stream \in Streams \cup {None}
      BY <2>4 DEF RecoverStarts, Recoveries
    <3> QED
      BY <2>4, <3>1 DEF RecoverStarts
  <2>5. CASE RecoverCompletes
    <3>1. NoRecovery \in Recoveries /\ rec.stream \in Streams \cup {None}
      BY DEF NoRecovery, Recoveries, Failures
    <3> QED
      BY <2>5, <3>1, <1>d, StartReaderType DEF RecoverCompletes, Active
  <2>6. ASSUME NEW failure \in Failures, RecoverDiscards(failure) PROVE TypeInv'
    <3>1. rec' \in Recoveries
      BY <2>6 DEF RecoverDiscards, Recoveries
    <3> QED
      BY <2>6, <3>1 DEF RecoverDiscards, Discard
  <2>7. CASE RecoverRetries
    <3>1. rec.attempt + 1 \in 1..MaxAttempts
      BY <2>7 DEF RecoverRetries, DelaysRemain, Recoveries
    <3>2. rec' \in Recoveries
      BY <2>7, <3>1 DEF RecoverRetries, NextDelay, Recoveries
    <3> QED
      BY <2>7, <3>2 DEF RecoverRetries
  <2>8. CASE RecoverExhausts
    <3>1. rec' \in Recoveries
      BY <2>8 DEF RecoverExhausts, Recoveries
    <3> QED
      BY <2>8, <3>1 DEF RecoverExhausts, Discard
  <2>9. CASE RecoverFails
    BY <2>9, <1>d, RecoveryEndsType DEF RecoverFails, GiveUp, StopCapture, Terminal
  <2>10. CASE RecoverIsDenied
    <3>1. rec' \in Recoveries /\ state' \in States /\ readerTask' \in Streams \cup {None}
      BY <2>10, <1>d, RecoveryEndsType DEF RecoverIsDenied, Recoveries, Terminal
    <3>2. /\ pc' \in [Tasks -> Places]
          /\ \A f \in Forwards : pc'[f] = "sending" => pc[f] = "sending"
      BY <2>10, RecoveryEndsType DEF RecoverIsDenied
    <3> QED
      BY <2>10, <3>1, <3>2, TearDownType DEF RecoverIsDenied
  <2>11. CASE RecoverDenialCompletes
    BY <2>11, <1>d, RecoveryEndsType DEF RecoverDenialCompletes, Terminal
  <2> QED
    BY <1>22, <2>1, <2>2, <2>3, <2>4, <2>5, <2>6, <2>7, <2>8, <2>9, <2>10, <2>11
       DEF RecoverProceeds
<1>23. CASE UNCHANGED vars
    BY <1>23 DEF vars
<1> QED
    BY <1>1, <1>2, <1>3, <1>4, <1>5, <1>6, <1>7, <1>8, <1>9, <1>10, <1>11, <1>12, <1>13,
       <1>14, <1>15, <1>16, <1>17, <1>18, <1>19, <1>20, <1>21, <1>22, <1>23
       DEF Next, TaskProceeds, OpenProceeds, StopProceeds

LEMMA TypeInit == Init => TypeInv
<1> SUFFICES ASSUME Init PROVE TypeInv
    OBVIOUS
<1>1. NoRecovery \in Recoveries
    BY DEF NoRecovery, Recoveries, Failures
<1>2. pc \in [Tasks -> Places] /\ \A f \in Forwards : pc[f] # "sending"
    BY DEF Init, Places, Tasks
<1>3. opening \in [Openers -> [stream : Streams \cup {None}, resume : Uuids \cup {None}]]
    BY DEF Init, NotOpening
<1> QED
    BY <1>1, <1>2, <1>3 DEF Init, TypeInv, TypeOK, SessionKnown, States

\* Every variable of the controller keeps its type in every behaviour.
THEOREM TypeCorrect == Spec => []TypeOK
<1>1. TypeInv => TypeOK
    BY DEF TypeInv
<1> QED
    BY <1>1, TypeInit, TypeStep, PTL DEF Spec

-----------------------------------------------------------------------------
\* The stream in use serves the current session, however openings, stops, losses
\* and recoveries interleave: _open assigns session and stream together, _recover
\* compares the session it was answered with the current one, not the one it asked for.
THEOREM SessionServed == Spec => []StreamServesSession
<1>1. Init => StreamServesSession
    BY DEF Init, StreamServesSession
<1>2. StreamServesSession /\ [Next]_vars => StreamServesSession'
  <2> SUFFICES ASSUME StreamServesSession, [Next]_vars PROVE StreamServesSession'
    OBVIOUS
  <2> USE DEF StreamServesSession, streams, audio, fields, locals
  <2>1. ASSUME NEW o \in Openers, OpenBegins(o) \/ OpenProceeds(o)
        PROVE StreamServesSession'
    BY <2>1 DEF OpenBegins, OpenProceeds, OpenConnects, OpenIsRefused, OpenSucceeds,
                OpenCaptureFails, AdoptStarted, OpenFails
  <2>2. ASSUME NEW p \in Stoppers, StopBegins(p) \/ StopProceeds(p)
        PROVE StreamServesSession'
    BY <2>2 DEF StopBegins, TearDown, StopProceeds, StopConnects, StopFindsNoStream
  <2>3. ASSUME NEW l \in Losses, DeviceIsLost(l) \/ LossIsIgnored(l) \/ LossIsHandled(l)
        PROVE StreamServesSession'
    BY <2>3 DEF DeviceIsLost, LossIsIgnored, LossIsHandled, TearDown
  <2>4. ASSUME NEW s \in Streams, ReaderTearsDown(s) \/ ReaderRecovers(s) \/ ReaderStops(s)
        PROVE StreamServesSession'
    BY <2>4 DEF ReaderTearsDown, TearDown, ReaderRecovers, RecoveryBegins, ReaderStops
  <2>5. ASSUME NEW f \in Forwards, FrameIsSent(f) \/ SendCompletes(f) \/ SendFails(f)
        PROVE StreamServesSession'
    BY <2>5 DEF FrameIsSent, SendCompletes, SendFails, RecoveryBegins
  <2>6. CASE StopLocalCapture \/ FrameIsBuffered \/ \E t \in Tasks : Publishes(t)
    BY <2>6 DEF StopLocalCapture, FrameIsBuffered, Publishes
  <2>7. CASE \E u \in Uuids : RecoverStarts(u)
    BY <2>7 DEF RecoverStarts, IsCurrent
  <2>8. CASE \/ \E failure \in Failures : RecoverDiscards(failure)
             \/ RecoverExhausts \/ RecoverIsDenied
    BY <2>8 DEF RecoverDiscards, RecoverExhausts, Discard, RecoverIsDenied, TearDown
  <2>9. CASE \/ RecoverWakes \/ RecoverIsObsolete \/ RecoverConnects \/ RecoverCompletes
             \/ RecoverRetries \/ RecoverFails \/ RecoverDenialCompletes
    BY <2>9 DEF RecoverWakes, RecoverIsObsolete, RecoverConnects, RecoverCompletes,
                RecoverRetries, RecoverFails, RecoverDenialCompletes
  <2>10. CASE UNCHANGED vars
    BY <2>10 DEF vars
  <2> QED
    BY <2>1, <2>2, <2>3, <2>4, <2>5, <2>6, <2>7, <2>8, <2>9, <2>10
       DEF Next, TaskProceeds, RecoverProceeds
<1> QED
    BY <1>1, <1>2, PTL DEF Spec
=============================================================================
