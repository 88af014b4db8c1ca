------------------------ MODULE SessionPromiseProofs ------------------------
(***************************************************************************)
(* Who holds the streams and the capture in a sequential SessionController *)
(* (no overlapping requests, device losses or failing sends), and that it  *)
(* keeps the safety part of ListeningPromise, for every value of its       *)
(* constants.                                                              *)
(***************************************************************************)
EXTENDS SessionSequentialProofs, SessionRefinement

USE ConstantsAssumption

\* A session that is shown as going on has a reader, or a stop is about to end it.
HolderKnown ==
    /\ state \in {"streaming", "reconnecting"} =>
          \/ readerTask # None
          \/ \E p \in Stoppers : pc[p] # "idle"
    /\ readerTask # None =>
          /\ pc[readerTask] \in {"reading", "recovering"} \cup Terminal
          /\ pc[readerTask] = "recovering" => rec.pc # "idle"

\* At each place of a recovery, the fields that hold its streams.
RecoveryHolds ==
    /\ rec.pc \notin {"awaiting", "replaying"} => rec.stream = None
    /\ rec.pc \in {"sleeping", "connecting"} => stream = None
    /\ rec.pc = "awaiting" => stream = None /\ recoveryStream = rec.stream
    /\ rec.pc = "replaying" => stream = rec.stream /\ recoveryStream = None
    /\ rec.pc \in {"discarding", "exhausted", "failing"} =>
          stream = None /\ recoveryStream = None

\* An open stream is held by a request, or else by the fields of the session.
StreamsHeld ==
    /\ \A o \in Openers : pc[o] \in {"idle", "connecting"} => opening[o].stream = None
    /\ readerTask = None =>
          /\ recoveryStream = None
          /\ \A s \in live : \E o \in Openers : pc[o] = "awaiting" /\ opening[o].stream = s
    /\ readerTask # None =>
          /\ live \subseteq {stream, recoveryStream}
          /\ pc[readerTask] = "reading" => stream = readerTask /\ recoveryStream = None
          /\ pc[readerTask] \in Terminal => stream = None /\ recoveryStream = None

\* The capture runs until its session is given up.
RecordingKept ==
    /\ readerTask # None /\ pc[readerTask] \notin Terminal /\ rec.pc # "failing"
    => running = {capture}

Held == HolderKnown /\ RecoveryHolds /\ StreamsHeld /\ RecordingKept
HeldInv == SequentialInv /\ Held

-----------------------------------------------------------------------------
LEMMA HeldInit == Init => HeldInv
<1> SUFFICES ASSUME Init PROVE Held
    BY SequentialInit DEF HeldInv
<1> USE DEF Init
<1>1. HolderKnown /\ RecordingKept
    BY DEF HolderKnown, RecordingKept
<1>2. RecoveryHolds
    BY DEF RecoveryHolds, NoRecovery
<1>3. StreamsHeld
    BY DEF StreamsHeld, NotOpening
<1> QED
    BY <1>1, <1>2, <1>3 DEF Held

\* While a request is in progress, or nothing, only the request may hold a stream.
LEMMA RequestHolds ==
    ASSUME readerTask' = None, recoveryStream' = None, rec'.pc = "idle", rec'.stream = None,
           \A o \in Openers : pc'[o] \in {"idle", "connecting"} => opening'[o].stream = None,
           \A s \in live' : \E o \in Openers : pc'[o] = "awaiting" /\ opening'[o].stream = s,
           state' \in {"streaming", "reconnecting"} => \E p \in Stoppers : pc'[p] # "idle"
    PROVE  Held'
<1>1. HolderKnown' /\ RecordingKept'
    BY DEF HolderKnown, RecordingKept
<1>2. RecoveryHolds'
    BY DEF RecoveryHolds
<1>3. StreamsHeld'
    BY DEF StreamsHeld
<1> QED
    BY <1>1, <1>2, <1>3 DEF Held

\* While a reader holds the session no request holds a stream, and at most one is held.
LEMMA ReaderHolds ==
    ASSUME Sequential, HeldInv, readerTask # None
    PROVE  /\ readerTask \in Streams /\ readerTask \in Tasks
           /\ \A o \in Openers : pc[o] = "idle" /\ opening[o].stream = None
           /\ stream = None \/ recoveryStream = None
           /\ live \subseteq {Taken}
<1> USE DEF HeldInv, SequentialInv
<1>1. readerTask \in Streams /\ readerTask \in Tasks
    BY DEF TypeInv, TypeOK, Tasks
<1>2. \A o \in Openers : pc[o] = "idle" /\ opening[o].stream = None
    BY DEF OneHolder, Requests, Held, StreamsHeld
<1>3. stream = None \/ recoveryStream = None
  <2>1. CASE pc[readerTask] = "recovering"
    <3>1. rec.pc \in {"sleeping", "connecting", "awaiting", "replaying", "discarding",
                      "exhausted", "failing"}
      BY <2>1 DEF Held, HolderKnown, TypeInv, TypeOK, Recoveries
    <3> QED
      BY <3>1 DEF Held, RecoveryHolds
  <2> QED
    BY <2>1 DEF Held, HolderKnown, StreamsHeld
<1>4. live \subseteq {Taken}
  <2>1. live \subseteq Streams /\ live \subseteq {stream, recoveryStream}
    BY DEF Held, StreamsHeld, TypeInv, TypeOK
  <2> QED
    BY <1>3, <2>1 DEF Taken, Tasks
<1> QED
    BY <1>1, <1>2, <1>3, <1>4

\* A reader that alone holds the session, or hands it to a recovery, is a good state.
LEMMA ReaderKeeps ==
    ASSUME NEW s \in Streams, readerTask' = s,
           \A o \in Openers : opening'[o].stream = None,
           live' \subseteq {stream', recoveryStream'},
           \/ /\ pc'[s] = "reading" /\ stream' = s /\ recoveryStream' = None
              /\ running' = {capture'} /\ rec'.pc = "idle"
           \/ pc'[s] = "recovering" /\ rec'.pc # "idle"
           \/ /\ pc'[s] \in Terminal /\ rec'.pc = "idle"
              /\ stream' = None /\ recoveryStream' = None,
           pc'[s] = "recovering" /\ rec'.pc # "failing" => running' = {capture'},
           RecoveryHolds'
    PROVE  Held'
<1>0. s # None
    BY DEF Tasks
<1>1. HolderKnown'
    BY <1>0 DEF HolderKnown, Terminal
<1>2. StreamsHeld'
    BY <1>0 DEF StreamsHeld, Terminal
<1>3. RecordingKept'
    BY <1>0 DEF RecordingKept, Terminal
<1> QED
    BY <1>1, <1>2, <1>3 DEF Held

\* The steps of requests preserve Held, ...
LEMMA RequestHeld ==
    ASSUME Sequential, HeldInv, NEW t \in Requests,
           \/ t \in Openers /\ (OpenBegins(t) \/ OpenProceeds(t))
           \/ t \in Stoppers /\ (StopBegins(t) \/ StopProceeds(t))
    PROVE  Held'
<1> USE DEF streams, audio, fields, locals
<1>a. t \in Tasks /\ (t \in Openers <=> t \notin Stoppers) /\ \A o \in Openers : o \in Tasks
    BY DEF Requests, Tasks
<1>b. /\ pc \in [Tasks -> Places] /\ rec \in Recoveries /\ live \subseteq Streams
      /\ readerTask \in Streams \cup {None}
      /\ opening \in [Openers -> [stream : Streams \cup {None}, resume : Uuids \cup {None}]]
    BY DEF HeldInv, SequentialInv, TypeInv, TypeOK
<1>c. SequentialInv /\ Held
    BY DEF HeldInv
\* What a request in progress finds.
<1>d. ASSUME pc[t] # "idle"
      PROVE  /\ readerTask = None /\ recoveryStream = None
             /\ rec.pc = "idle" /\ rec.stream = None
             /\ \A o \in Openers : o # t => pc[o] = "idle" /\ opening[o].stream = None
             /\ t \in Openers => /\ state = "starting"
                                 /\ live \subseteq {opening[t].stream}
             /\ pc[t] # "awaiting" => live = {}
  <2>1. /\ readerTask = None /\ rec.pc = "idle"
        /\ \A o \in Openers : o # t => pc[o] = "idle"
    BY <1>a, <1>c, <1>d, RequestAlone
  <2>2. rec.stream = None /\ recoveryStream = None
    BY <1>c, <2>1 DEF Held, RecoveryHolds, StreamsHeld
  <2>3. \A o \in Openers : o # t => opening[o].stream = None
    BY <1>c, <2>1 DEF Held, StreamsHeld
  <2>4. \A s \in live : s # None /\ \E o \in Openers : pc[o] = "awaiting" /\ opening[o].stream = s
    BY <1>b, <1>c, <2>1 DEF Held, StreamsHeld, Tasks
  <2>5. t \in Openers => state = "starting"
    BY <1>c, <1>d DEF SequentialInv, OneHolder
  <2> QED
    BY <1>a, <2>1, <2>2, <2>3, <2>4, <2>5
<1>1. CASE t \in Openers /\ OpenBegins(t)
  <2>1. \A r \in Requests : pc[r] = "idle"
    BY <1>1 DEF OpenBegins, MayRequest, Sequential, Requests
  <2>2. readerTask = None /\ rec.pc = "idle"
    BY <1>1, <1>c DEF OpenBegins, SequentialInv, OneHolder, Active
  <2>3. rec.stream = None /\ recoveryStream = None
    BY <1>c, <2>2 DEF Held, RecoveryHolds, StreamsHeld
  <2>4. \A o \in Openers : opening'[o].stream = opening[o].stream /\ opening[o].stream = None
    BY <1>1, <1>b, <1>c, <2>1 DEF OpenBegins, Held, StreamsHeld, Requests
  <2>5. live' = {}
    BY <1>1, <1>c, <2>1, <2>2 DEF OpenBegins, Held, StreamsHeld, Requests
  <2> QED
    BY <1>1, <2>2, <2>3, <2>4, <2>5, RequestHolds DEF OpenBegins
<1>2. CASE t \in Openers /\ OpenConnects(t)
  <2>1. pc[t] = "connecting" /\ opening[t].stream = None
    BY <1>2, <1>c DEF OpenConnects, Held, StreamsHeld
  <2>2. PICK s \in Streams : live' = live \cup {s}
                             /\ opening' = [opening EXCEPT ![t].stream = s]
    BY <1>2 DEF OpenConnects
  <2>3. opening'[t].stream = s /\ \A o \in Openers : o # t => opening'[o] = opening[o]
    BY <1>2, <1>b, <2>2
  <2>4. live' \subseteq {s}
    BY <1>b, <1>d, <1>2, <2>1, <2>2 DEF Tasks
  <2>5. pc'[t] = "awaiting"
    BY <1>2, <1>a, <1>c, GoToOthers DEF OpenConnects
  <2> QED
    BY <1>2, <1>d, <2>1, <2>3, <2>4, <2>5, RequestHolds DEF OpenConnects
<1>3. CASE t \in Openers /\ (OpenIsRefused(t) \/ \E u \in Uuids : OpenCaptureFails(t, u))
  <2>1. /\ pc[t] = "awaiting" /\ live' = live \ {opening[t].stream}
        /\ UNCHANGED <<state, readerTask, recoveryStream, rec, opening>>
    BY <1>3 DEF OpenIsRefused, OpenCaptureFails, AdoptStarted
  <2>2. pc'[t] \notin {"idle", "connecting"} /\ \A o \in Openers : o # t => pc'[o] = pc[o]
    BY <1>3, <1>a, <1>c, GoToOthers DEF OpenIsRefused, OpenCaptureFails
  <2>3. live' = {}
    BY <1>3, <1>d, <2>1
  <2> QED
    BY <1>3, <1>d, <2>1, <2>2, <2>3, RequestHolds
<1>4. ASSUME NEW u \in Uuids, t \in Openers, OpenSucceeds(t, u) PROVE Held'
  <2>1. pc[t] = "awaiting" /\ stream' = opening[t].stream /\ UNCHANGED <<rec, live>>
        /\ recoveryStream' = recoveryStream
    BY <1>4 DEF OpenSucceeds, AdoptStarted
  <2>2. opening[t].stream \in Streams
    BY <1>4, <1>b, <1>c, <2>1 DEF SequentialInv, StreamKnown
  <2>3. pc'[stream'] = "reading" /\ readerTask' = stream'
    BY <1>4, <1>b, <2>1, <2>2 DEF OpenSucceeds, StartReader, Tasks
  <2>4. \A o \in Openers : opening'[o].stream = None
    BY <1>4, <1>b, <1>d, <2>1 DEF OpenSucceeds, NotOpening
  <2>5. running = {}
    BY <1>c, <1>d, <2>1 DEF SequentialInv, RecordingHeld
  <2>6. running' = {capture'}
    BY <1>4, <2>5 DEF OpenSucceeds
  <2>7. RecoveryHolds'
    BY <1>d, <2>1 DEF RecoveryHolds
  <2> QED
    BY <1>4, <1>d, <2>1, <2>2, <2>3, <2>4, <2>6, <2>7, ReaderKeeps DEF Terminal
<1>5. CASE t \in Openers /\ OpenFails(t)
  <2>1. pc[t] # "idle" /\ state' \in Terminal
    BY <1>5 DEF OpenFails, Terminal, OutcomeOf
  <2>2. \A o \in Openers : opening'[o].stream = None
    BY <1>5, <1>b, <1>d, <2>1 DEF OpenFails, NotOpening
  <2>3. live' = {}
    BY <1>5, <1>d, <2>1 DEF OpenFails, Terminal
  <2> QED
    BY <1>5, <1>d, <2>1, <2>2, <2>3, RequestHolds DEF OpenFails, Terminal
<1>6. CASE t \in Stoppers /\ StopBegins(t)
  <2>1. \A r \in Requests : pc[r] = "idle"
    BY <1>6 DEF StopBegins, MayRequest, Sequential, Requests
  <2>2. readerTask' = None /\ recoveryStream' = None /\ opening' = opening
    BY <1>6 DEF StopBegins, TearDown
  <2>3. rec'.pc = "idle" /\ rec'.stream = None
    BY <1>6, <1>c DEF StopBegins, CancelReader, NoRecovery, SequentialInv, OneHolder, Held,
                      RecoveryHolds
  <2>4. live' = {}
    <3>1. CASE readerTask = None
      BY <1>6, <1>c, <2>1, <3>1 DEF StopBegins, TearDown, Held, StreamsHeld, Requests
    <3>2. CASE readerTask # None
      BY <1>6, <3>2, ReaderHolds DEF StopBegins, TearDown
    <3> QED
      BY <3>1, <3>2
  <2>5. \A o \in Openers : opening[o].stream = None
    BY <1>c, <2>1 DEF Held, StreamsHeld, Requests
  <2>6. state' \in {"streaming", "reconnecting"} => pc'[t] # "idle"
    <3>1. WithoutReader \in [Tasks -> Places]
      BY <1>b DEF WithoutReader, Places
    <3> QED
      BY <1>6, <1>a, <3>1 DEF StopBegins
  <2> QED
    BY <1>6, <2>2, <2>3, <2>4, <2>5, <2>6, RequestHolds
<1>7. CASE t \in Stoppers /\ StopProceeds(t)
  <2>1. pc[t] = "connecting" /\ UNCHANGED <<readerTask, recoveryStream, rec, opening, live>>
    BY <1>7 DEF StopProceeds, StopConnects, StopFindsNoStream
  <2>2. \A o \in Openers : pc'[o] = pc[o]
    BY <1>7, <1>a, <1>c, GoToOthers DEF StopProceeds, StopConnects, StopFindsNoStream
  <2>3. state' = "stopped" \/ pc'[t] # "idle"
    BY <1>7, <1>a, <1>c, GoToOthers DEF StopProceeds, StopConnects, StopFindsNoStream
  <2> QED
    BY <1>7, <1>a, <1>d, <2>1, <2>2, <2>3, RequestHolds
<1> QED
    BY <1>1, <1>2, <1>3, <1>4, <1>5, <1>6, <1>7 DEF OpenProceeds

\* So do those of readers, ...
LEMMA ReaderHeld ==
    ASSUME Sequential, HeldInv, NEW s \in Streams,
           ReaderTearsDown(s) \/ ReaderRecovers(s) \/ ReaderStops(s)
    PROVE  Held'
<1> USE DEF streams, audio, fields, locals
<1>a. SequentialInv /\ Held /\ pc[s] = "reading" /\ s \in Tasks
    BY DEF HeldInv, ReaderTearsDown, ReaderRecovers, ReaderStops, Tasks
<1>b. readerTask = s /\ readerTask # None /\ sessionUuid # None /\ state = "streaming"
      /\ rec.pc = "idle" /\ rec.stream = None
  <2>1. readerTask = s /\ s # None /\ sessionUuid # None
    BY <1>a, ReaderAlone DEF Tasks
  <2>2. state = "streaming" /\ rec.pc = "idle"
    BY <1>a, <2>1 DEF SequentialInv, OneHolder
  <2> QED
    BY <1>a, <2>1, <2>2 DEF Held, RecoveryHolds
<1>c. /\ stream = s /\ recoveryStream = None /\ live \subseteq {s} /\ running = {capture}
      /\ \A o \in Openers : pc[o] = "idle" /\ opening[o].stream = None
  <2>1. stream = s /\ recoveryStream = None
    BY <1>a, <1>b DEF Held, StreamsHeld
  <2>2. running = {capture}
    BY <1>a, <1>b DEF Held, RecordingKept, Terminal
  <2> QED
    BY <1>b, <2>1, <2>2, ReaderHolds DEF Taken
<1>1. CASE ReaderTearsDown(s)
  <2>1. PICK outcome \in Terminal : ThenPublishes(s, outcome)
    BY <1>1 DEF ReaderTearsDown, Terminal
  <2>2. Taken = s /\ s # None
    BY <1>b, <1>c DEF Taken
  <2>3. pc'[s] = outcome /\ readerTask' = s
    BY <1>a, <1>b, <2>1, <2>2, GoToOthers DEF ThenPublishes
  <2>4. live' = {} /\ stream' = None /\ recoveryStream' = None /\ rec' = rec
        /\ opening' = opening
    BY <1>1, <1>c, <2>2 DEF ReaderTearsDown, TearDown
  <2>5. RecoveryHolds'
    BY <1>b, <2>4 DEF RecoveryHolds
  <2> QED
    BY <1>b, <1>c, <2>3, <2>4, <2>5, ReaderKeeps DEF Terminal
<1>2. CASE ReaderRecovers(s)
  <2>1. /\ pc'[s] = "recovering" /\ readerTask' = s
        /\ stream' = None /\ recoveryStream' = s
        /\ UNCHANGED <<live, running, capture, opening>>
    BY <1>a, <1>b, <1>c, <1>2, GoToOthers DEF ReaderRecovers, RecoveryBegins
  <2>2. rec'.pc = "sleeping" /\ rec'.stream = None
    BY <1>2 DEF ReaderRecovers, RecoveryBegins, NoRecovery
  <2>3. RecoveryHolds'
    BY <2>1, <2>2 DEF RecoveryHolds
  <2> QED
    BY <1>c, <2>1, <2>2, <2>3, ReaderKeeps
<1>3. ~ReaderStops(s)
    BY <1>b DEF ReaderStops, ShouldRecover, MayRecover
<1> QED
    BY <1>1, <1>2, <1>3

\* ... and of the recovery.
LEMMA RecoveryHeld ==
    ASSUME Sequential, HeldInv, RecoverProceeds
    PROVE  Held'
<1> USE DEF streams, audio, fields, locals
<1> DEFINE s == readerTask
<1>a. SequentialInv /\ Held
    BY DEF HeldInv
<1>b. /\ s \in Streams /\ s # None /\ s \in Tasks /\ rec.owner = s /\ rec.pc # "idle"
      /\ pc[s] = "recovering" /\ state = "reconnecting"
  <2>1. rec.pc # "idle"
    BY DEF RecoverProceeds, RecoverWakes, RecoverIsObsolete, RecoverConnects, RecoverStarts,
           RecoverCompletes, RecoverDiscards, RecoverRetries, RecoverExhausts, RecoverFails,
           RecoverIsDenied, RecoverDenialCompletes, AttemptIsOver, AttemptRuns
  <2> QED
    BY <1>a, <2>1, ReaderHolds DEF SequentialInv, OneHolder
<1>c. /\ live \subseteq {Taken} /\ (stream = None \/ recoveryStream = None)
      /\ \A o \in Openers : pc[o] = "idle" /\ opening[o].stream = None
      /\ rec.pc # "failing" => running = {capture}
    BY <1>a, <1>b, ReaderHolds DEF Held, RecordingKept, Terminal
<1>d. /\ pc \in [Tasks -> Places] /\ rec \in Recoveries /\ live \subseteq Streams
      /\ {stream, recoveryStream} \subseteq Streams \cup {None} /\ None \notin Streams
    BY <1>a DEF SequentialInv, TypeInv, TypeOK, Tasks
<1>e. RecoveryHolds
    BY <1>a DEF Held
<1> HIDE DEF s
\* A step that only moves the recovery on.
<1>f. ASSUME UNCHANGED <<pc, readerTask, opening>>, rec'.pc # "idle",
             live' \subseteq {stream', recoveryStream'},
             rec'.pc # "failing" => running' = {capture'},
             RecoveryHolds'
      PROVE  Held'
    BY <1>b, <1>c, <1>f, ReaderKeeps DEF s
\* A step that ends the recovery, the streams given up.
<1>g. ASSUME RecoveryEnds, live' = {}, recoveryStream' = None, opening' = opening,
             state' \in Terminal
      PROVE  Held'
  <2>1. readerTask' = None /\ rec'.pc = "idle" /\ rec'.stream = None
    BY <1>b, <1>g DEF RecoveryEnds, NoRecovery, ForgetReader, s
  <2> QED
    BY <1>c, <1>g, <2>1, RequestHolds DEF Terminal
<1>1. CASE RecoverWakes
  <2>1. rec'.pc = "connecting" /\ rec'.stream = rec.stream
    BY <1>1, <1>d DEF RecoverWakes, Recoveries
  <2>2. RecoveryHolds' /\ live' \subseteq {stream', recoveryStream'}
    BY <1>1, <1>c, <1>e, <2>1 DEF RecoverWakes, RecoveryHolds, Taken
  <2> QED
    BY <1>1, <1>c, <1>f, <2>1, <2>2 DEF RecoverWakes
<1>2. ~RecoverIsObsolete
    BY <1>b DEF RecoverIsObsolete
<1>3. CASE RecoverConnects
  <2>1. PICK n \in Streams : Supersedes(n) /\ rec' = [rec EXCEPT !.pc = "awaiting", !.stream = n]
    BY <1>3 DEF RecoverConnects
  <2>2. rec'.pc = "awaiting" /\ rec'.stream = n
    BY <1>d, <2>1 DEF Recoveries
  <2>3. stream = None /\ stream' = stream /\ recoveryStream' = n
    BY <1>3, <1>e, <2>1 DEF RecoverConnects, RecoveryHolds, Supersedes
  <2>4. live' \subseteq {n}
    BY <1>c, <2>1, <2>3 DEF Supersedes, Taken
  <2>5. RecoveryHolds'
    BY <2>2, <2>3 DEF RecoveryHolds
  <2> QED
    BY <1>3, <1>c, <1>f, <2>2, <2>3, <2>4, <2>5 DEF RecoverConnects
<1>4. ASSUME NEW u \in Uuids, RecoverStarts(u) PROVE Held'
  <2>1. rec'.pc = "replaying" /\ rec'.stream = rec.stream
    BY <1>4, <1>d DEF RecoverStarts, Recoveries
  <2>2. stream' = recoveryStream /\ recoveryStream' = None /\ live' = live /\ stream = None
    BY <1>4, <1>e DEF RecoverStarts, RecoveryHolds
  <2>3. RecoveryHolds'
    BY <1>4, <2>1, <2>2 DEF RecoverStarts, RecoveryHolds
  <2> QED
    BY <1>4, <1>c, <1>f, <2>1, <2>2, <2>3 DEF RecoverStarts, Taken
<1>5. CASE RecoverCompletes
  <2>1. stream = rec.stream /\ recoveryStream = None
    BY <1>5, <1>e DEF RecoverCompletes, RecoveryHolds
  <2>2. rec.stream \in Streams
    BY <1>5, <1>a, <1>d DEF RecoverCompletes, SequentialInv, StreamKnown, Recoveries
  <2>3. pc'[rec.stream] = "reading" /\ readerTask' = rec.stream
    BY <1>5, <1>d, <2>2 DEF RecoverCompletes, StartReader, Tasks
  <2>4. rec'.pc = "idle" /\ rec'.stream = None
    BY <1>5 DEF RecoverCompletes, NoRecovery
  <2>5. RecoveryHolds'
    BY <2>4 DEF RecoveryHolds
  <2> QED
    BY <1>5, <1>c, <2>1, <2>2, <2>3, <2>4, <2>5, ReaderKeeps DEF RecoverCompletes, Taken
<1>6. ASSUME NEW failure \in Failures, RecoverDiscards(failure) PROVE Held'
  <2>1. rec'.pc = "discarding" /\ rec'.stream = None
    BY <1>6, <1>d DEF RecoverDiscards, Recoveries
  <2>2. Discarded(failure) = Taken /\ Taken # None
    BY <1>6, <1>c, <1>e
       DEF RecoverDiscards, AttemptRuns, Discarded, RecoveryHolds, Taken
  <2>3. stream' = None /\ recoveryStream' = None /\ live' = {}
    BY <1>6, <1>c, <2>2 DEF RecoverDiscards, Discard, Taken
  <2>4. RecoveryHolds'
    BY <2>1, <2>3 DEF RecoveryHolds
  <2> QED
    BY <1>6, <1>c, <1>f, <2>1, <2>3, <2>4 DEF RecoverDiscards, Discard, AttemptRuns
<1>7. CASE RecoverRetries
  <2>1. rec'.pc = "sleeping" /\ rec'.stream = rec.stream
    BY <1>7, <1>d DEF RecoverRetries, Recoveries
  <2>2. rec.stream = None /\ stream = None
    BY <1>7, <1>e DEF RecoverRetries, AttemptIsOver, AttemptRuns, Discarded, RecoveryHolds
  <2>3. RecoveryHolds'
    BY <1>7, <2>1, <2>2 DEF RecoverRetries, RecoveryHolds
  <2>4. rec.pc # "failing"
    BY <1>7 DEF RecoverRetries, AttemptIsOver, AttemptRuns
  <2> QED
    BY <1>7, <1>c, <1>f, <2>1, <2>2, <2>3, <2>4 DEF RecoverRetries, Taken
<1>8. CASE RecoverExhausts
  <2>1. rec'.pc = "exhausted" /\ rec'.stream = rec.stream
    BY <1>8, <1>d DEF RecoverExhausts, Recoveries
  <2>2. rec.pc # "failing" /\ rec.stream = None /\ stream = None
    BY <1>8, <1>e DEF RecoverExhausts, AttemptIsOver, AttemptRuns, Discarded, RecoveryHolds
  <2>3. stream' = None /\ recoveryStream' = None /\ live' = {}
    BY <1>8, <1>c, <2>2 DEF RecoverExhausts, Discard, Taken
  <2>4. RecoveryHolds'
    BY <2>1, <2>2, <2>3 DEF RecoveryHolds
  <2> QED
    BY <1>8, <1>c, <1>f, <2>1, <2>2, <2>3, <2>4 DEF RecoverExhausts, Discard
<1>9. CASE RecoverFails
  <2>1. stream = None /\ recoveryStream = None
    BY <1>9, <1>e DEF RecoverFails, AttemptIsOver, AttemptRuns, Discarded, RecoveryHolds
  <2> QED
    BY <1>9, <1>c, <1>d, <1>g, <2>1 DEF RecoverFails, GiveUp, Taken, Terminal
<1>10. CASE RecoverIsDenied
  <2>1. live' = {} /\ stream' = None /\ recoveryStream' = None /\ opening' = opening
    BY <1>10, <1>c DEF RecoverIsDenied, TearDown
  <2>2. CASE Taken = None
    BY <1>10, <1>g, <2>1, <2>2 DEF RecoverIsDenied, Terminal
  <2>3. CASE Taken # None
    <3>1. rec'.pc = "failing" /\ rec'.stream = rec.stream /\ UNCHANGED <<readerTask, pc>>
      BY <1>10, <1>d, <2>3 DEF RecoverIsDenied, Recoveries
    <3>2. rec.stream = None
      BY <1>10, <1>e DEF RecoverIsDenied, AttemptIsOver, AttemptRuns, Discarded, RecoveryHolds
    <3>3. RecoveryHolds'
      BY <2>1, <3>1, <3>2 DEF RecoveryHolds
    <3> QED
      BY <1>f, <2>1, <3>1, <3>3
  <2> QED
    BY <2>2, <2>3
<1>11. CASE RecoverDenialCompletes
  <2>1. stream = None /\ recoveryStream = None
    BY <1>11, <1>e DEF RecoverDenialCompletes, RecoveryHolds
  <2> QED
    BY <1>11, <1>c, <1>d, <1>g, <2>1 DEF RecoverDenialCompletes, Taken, Terminal
<1> QED
    BY <1>1, <1>2, <1>3, <1>4, <1>5, <1>6, <1>7, <1>8, <1>9, <1>10, <1>11 DEF RecoverProceeds

\* The other tasks publish, or only fill the buffer.
LEMMA HeldStep == Sequential /\ HeldInv /\ [Next]_vars => HeldInv'
<1> SUFFICES ASSUME Sequential, HeldInv, [Next]_vars PROVE Held'
    BY SequentialStep DEF HeldInv
<1>a. SequentialInv /\ Held
    BY DEF HeldInv
<1>1. ASSUME NEW t \in Tasks, Publishes(t) PROVE Held'
  <2> USE DEF streams, audio, locals
  <2>1. /\ pc[t] \in Terminal /\ pc[t] # "idle" /\ state' \in Terminal /\ t \notin Openers
        /\ UNCHANGED <<stream, recoveryStream, rec, live, opening>>
    BY <1>1 DEF Publishes, Terminal
  <2>2. \A o \in Openers : pc'[o] = pc[o] /\ pc[o] = "idle"
    <3>1. \A o \in Openers : o \in Tasks /\ o # t
      BY <2>1 DEF Tasks
    <3>2. CASE t \in Stoppers
      BY <1>a, <1>1, <2>1, <3>1, <3>2, RequestAlone, GoToOthers DEF Publishes, Requests
    <3>3. CASE t \in Streams
      BY <1>a, <1>1, <2>1, <3>1, <3>3, ReaderAlone, GoToOthers DEF Publishes
    <3> QED
      BY <2>1, <3>2, <3>3 DEF Tasks, Sequential
  <2>3. readerTask' = None /\ rec.pc = "idle" /\ rec.stream = None
        /\ recoveryStream = None /\ live = {}
    <3>1. CASE t \in Stoppers
      <4>1. readerTask = None /\ rec.pc = "idle"
        BY <1>a, <2>1, <3>1, RequestAlone DEF Requests
      <4> QED
        BY <1>1, <1>a, <2>2, <4>1
           DEF Publishes, ForgetReader, Held, RecoveryHolds, StreamsHeld
    <3>2. CASE t \in Streams
      <4>1. readerTask = t /\ t # None
        BY <1>a, <2>1, <3>2, ReaderAlone DEF Tasks
      <4>2. rec.pc = "idle" /\ stream = None /\ recoveryStream = None
        BY <1>a, <2>1, <4>1 DEF SequentialInv, OneHolder, Held, StreamsHeld, Terminal
      <4>3. live = {}
        BY <2>1, <4>1, <4>2, ReaderHolds
           DEF HeldInv, SequentialInv, TypeInv, TypeOK, Taken, Tasks
      <4> QED
        BY <1>1, <1>a, <4>1, <4>2, <4>3 DEF Publishes, ForgetReader, Held, RecoveryHolds
    <3> QED
      BY <2>1, <3>1, <3>2 DEF Tasks, Sequential
  <2>4. \A o \in Openers : opening[o].stream = None
    BY <1>a, <2>2 DEF Held, StreamsHeld
  <2> QED
    BY <2>1, <2>2, <2>3, <2>4, RequestHolds DEF Terminal
<1> USE DEF Held, HolderKnown, RecoveryHolds, StreamsHeld, RecordingKept
<1>2. CASE FrameIsBuffered
    BY <1>2, <1>a DEF FrameIsBuffered, streams, locals
<1>3. CASE UNCHANGED vars
    BY <1>3, <1>a DEF vars, streams, audio, fields, locals
<1>4. ~StopLocalCapture
    BY DEF StopLocalCapture, Sequential
<1> QED
    BY <1>1, <1>2, <1>3, <1>4, RequestHeld, ReaderHeld, RecoveryHeld
       DEF Next, TaskProceeds, Sequential, Requests

LEMMA HeldHolds == Sequential /\ Spec => []HeldInv
<1> SUFFICES ASSUME Sequential PROVE Spec => []HeldInv
    OBVIOUS
<1>1. HeldInv /\ [Next]_vars => HeldInv'
    BY HeldStep
<1> QED
    BY <1>1, HeldInit, PTL DEF Spec

-----------------------------------------------------------------------------
\* No websocket is left open without a field or a local that will close it, however
\* attempts of a recovery fail and are given up (_discard_recovery_stream and the
\* assignments of _stream and _recovery_stream in session.py).
THEOREM NoStreamIsLeaked == Sequential /\ Spec => []StreamsAreOwned
<1>1. HeldInv => StreamsAreOwned
    BY DEF HeldInv, Held, StreamsHeld, StreamsAreOwned
<1> QED
    BY <1>1, HeldHolds, PTL

\* "streaming" is published for a session that is complete (the order of the assignments
\* in _open and _recover), unless somebody gives it up.
THEOREM StreamingStaysComplete == Sequential /\ Spec => []StreamingIsComplete
<1>1. HeldInv => StreamingIsComplete
  <2> SUFFICES ASSUME HeldInv, state = "streaming", ~Finalising
               PROVE  stream # None /\ pc[stream] = "reading" /\ running = {capture}
      BY DEF StreamingIsComplete
  <2>1. readerTask # None
    BY DEF HeldInv, Held, HolderKnown, Finalising, Tasks
  <2>2. readerTask \in Tasks
    BY <2>1 DEF HeldInv, SequentialInv, TypeInv, TypeOK, Tasks
  <2>3. rec.pc = "idle" /\ pc[readerTask] = "reading"
    BY <2>1, <2>2 DEF HeldInv, SequentialInv, OneHolder, Held, HolderKnown, Finalising
  <2> QED
    BY <2>1, <2>3 DEF HeldInv, Held, StreamsHeld, RecordingKept, Terminal
<1> QED
    BY <1>1, HeldHolds, PTL

-----------------------------------------------------------------------------
\* The phase of the promise that each state of the controller stands for.
LEMMA PhaseOfState ==
    ASSUME state \in States
    PROVE  /\ state = "idle" => phase = "none"
           /\ state = "starting" => phase = "opening"
           /\ state \in {"streaming", "reconnecting"} => phase = "listening"
           /\ state \in Terminal => phase = "over"
    BY DEF phase, States, Active, Terminal

LEMMA PhaseOfNextState ==
    ASSUME state' \in States
    PROVE  /\ state' = "starting" => phase' = "opening"
           /\ state' \in {"streaming", "reconnecting"} => phase' = "listening"
           /\ state' \in Terminal => phase' = "over"
    BY DEF phase, States, Active, Terminal

PromiseStep == [Promise!Next]_(Promise!vars)

\* Nothing that is promised changes, ...
LEMMA Unnoticed ==
    ASSUME state' = state, (running' = {}) <=> (running = {})
    PROVE  PromiseStep
<1>1. phase' = phase
    BY DEF phase
<1> QED
    BY <1>1 DEF PromiseStep, Promise!vars

\* ... a session goes on, with its recording or without, ...
LEMMA GoesOn ==
    ASSUME {state, state'} \subseteq {"streaming", "reconnecting"},
           running' = running \/ running' = {}
    PROVE  PromiseStep
<1>1. phase = "listening" /\ phase' = "listening"
    BY PhaseOfState, PhaseOfNextState DEF States, Active
<1> QED
    BY <1>1 DEF PromiseStep, Promise!vars, Promise!Next, Promise!FallSilent

\* ... or everything is over.
LEMMA IsOver ==
    ASSUME state' \in Terminal, running' = {}
    PROVE  PromiseStep
<1>1. phase' = "over"
    BY PhaseOfNextState DEF States
<1> QED
    BY <1>1 DEF PromiseStep, Promise!Next, Promise!Finish

LEMMA RequestPromise ==
    ASSUME Sequential, HeldInv, NEW t \in Requests,
           \/ t \in Openers /\ (OpenBegins(t) \/ OpenProceeds(t))
           \/ t \in Stoppers /\ (StopBegins(t) \/ StopProceeds(t))
    PROVE  PromiseStep
<1> USE DEF streams, audio, fields, locals
<1>a. SequentialInv /\ state \in States /\ running \subseteq {capture}
    BY DEF HeldInv, SequentialInv, TypeInv, TypeOK, RecordingHeld
<1>b. ASSUME pc[t] # "idle" PROVE running = {} /\ (t \in Openers => state = "starting")
    BY <1>a, <1>b, RequestAlone DEF SequentialInv, OneHolder
<1>1. CASE t \in Openers /\ OpenBegins(t)
  <2>1. phase \in {"none", "over"} /\ running' = running
    BY <1>1, <1>a, PhaseOfState DEF OpenBegins, States
  <2>2. phase' = "opening"
    BY <1>1, PhaseOfNextState DEF OpenBegins, States, Active
  <2> QED
    BY <2>1, <2>2 DEF PromiseStep, Promise!Next, Promise!Open
<1>2. CASE /\ t \in Openers
           /\ \/ OpenConnects(t) \/ OpenIsRefused(t)
              \/ \E u \in Uuids : OpenCaptureFails(t, u)
  <2>1. state' = state /\ running' = running
    BY <1>2 DEF OpenConnects, OpenIsRefused, OpenCaptureFails
  <2> QED
    BY <2>1, Unnoticed
<1>3. ASSUME NEW u \in Uuids, t \in Openers, OpenSucceeds(t, u) PROVE PromiseStep
  <2>1. phase = "opening"
    BY <1>3, <1>a, <1>b, PhaseOfState DEF OpenSucceeds, AdoptStarted
  <2>2. phase' = "listening" /\ running' # {}
    BY <1>3, PhaseOfNextState DEF OpenSucceeds, States, Active
  <2> QED
    BY <2>1, <2>2 DEF PromiseStep, Promise!Next, Promise!Listen
<1>4. CASE t \in Openers /\ OpenFails(t)
    BY <1>4, <1>a, IsOver DEF OpenFails, StopCapture, OutcomeOf, Terminal
<1>5. CASE t \in Stoppers /\ StopBegins(t)
  <2>1. running' = {} /\ (state' = "stopped" \/ state' = state)
    BY <1>5, <1>a DEF StopBegins, TearDown, StopCapture
  <2>2. running # {} => state \in {"streaming", "reconnecting"}
    BY <1>a DEF SequentialInv, RecordingHeld, OneHolder
  <2> QED
    BY <2>1, <2>2, Unnoticed, GoesOn, IsOver DEF Terminal
<1>6. CASE t \in Stoppers /\ StopProceeds(t)
  <2>1. running = {} /\ running' = running /\ state' \in {state, "stopped"}
    BY <1>6, <1>b DEF StopProceeds, StopConnects, StopFindsNoStream
  <2> QED
    BY <2>1, Unnoticed, IsOver DEF Terminal
<1> QED
    BY <1>1, <1>2, <1>3, <1>4, <1>5, <1>6 DEF OpenProceeds

LEMMA ReaderPromise ==
    ASSUME Sequential, HeldInv, NEW s \in Streams,
           ReaderTearsDown(s) \/ ReaderRecovers(s) \/ ReaderStops(s)
    PROVE  PromiseStep
<1>1. state = "streaming" /\ running \subseteq {capture}
  <2>1. pc[s] = "reading" /\ SequentialInv
    BY DEF HeldInv, ReaderTearsDown, ReaderRecovers, ReaderStops
  <2>2. readerTask = s /\ s # None
    BY <2>1, ReaderAlone DEF Tasks
  <2> QED
    BY <2>1, <2>2 DEF SequentialInv, OneHolder, RecordingHeld
<1>2. CASE ReaderTearsDown(s)
  <2>1. running' = {} /\ state' \in {state, "stopped", "failed"}
    BY <1>1, <1>2 DEF ReaderTearsDown, TearDown, StopCapture, ThenPublishes
  <2> QED
    BY <1>1, <2>1, GoesOn, IsOver DEF Terminal
<1>3. CASE ReaderRecovers(s)
  <2>1. running' = running /\ state' = "reconnecting"
    BY <1>3 DEF ReaderRecovers, RecoveryBegins, audio
  <2> QED
    BY <1>1, <2>1, GoesOn
<1>4. CASE ReaderStops(s)
    BY <1>4, Unnoticed DEF ReaderStops, audio
<1> QED
    BY <1>2, <1>3, <1>4

LEMMA RecoveryPromise ==
    ASSUME Sequential, HeldInv, RecoverProceeds
    PROVE  PromiseStep
<1> USE DEF streams, audio, fields, locals
<1>a. state = "reconnecting" /\ running \subseteq {capture}
      /\ (rec.pc = "failing" => running = {})
  <2>1. rec.pc # "idle"
    BY DEF RecoverProceeds, RecoverWakes, RecoverIsObsolete, RecoverConnects, RecoverStarts,
           RecoverCompletes, RecoverDiscards, RecoverRetries, RecoverExhausts, RecoverFails,
           RecoverIsDenied, RecoverDenialCompletes, AttemptIsOver, AttemptRuns
  <2> QED
    BY <2>1 DEF HeldInv, SequentialInv, OneHolder, RecordingHeld
<1>1. CASE \/ RecoverWakes \/ RecoverConnects \/ (\E u \in Uuids : RecoverStarts(u))
           \/ (\E failure \in Failures : RecoverDiscards(failure))
           \/ RecoverRetries \/ RecoverExhausts
  <2>1. state' = state /\ running' = running
    BY <1>1 DEF RecoverWakes, RecoverConnects, RecoverStarts, RecoverDiscards, Discard,
                RecoverRetries, RecoverExhausts
  <2> QED
    BY <2>1, Unnoticed
<1>2. ~RecoverIsObsolete
    BY <1>a DEF RecoverIsObsolete
<1>3. CASE RecoverCompletes
  <2>1. state' = "streaming" /\ running' = running
    BY <1>3 DEF RecoverCompletes
  <2> QED
    BY <1>a, <2>1, GoesOn
<1>4. CASE RecoverFails \/ RecoverIsDenied \/ RecoverDenialCompletes
  <2>1. running' = {} /\ state' \in {state, "failed"}
    BY <1>4, <1>a DEF RecoverFails, GiveUp, RecoverIsDenied, RecoverDenialCompletes, TearDown,
                      StopCapture
  <2> QED
    BY <1>a, <2>1, GoesOn, IsOver DEF Terminal
<1> QED
    BY <1>1, <1>2, <1>3, <1>4 DEF RecoverProceeds

\* Every step of the sequential controller (session.py) is a step of the promise or
\* hidden from it: recording starts only with a session that was opened, stops before or
\* with its end, and never resumes by itself.
THEOREM PromiseIsKept == Sequential /\ Spec => Promise!Init /\ [][Promise!Next]_(Promise!vars)
<1> SUFFICES ASSUME Sequential PROVE Spec => Promise!Init /\ [][Promise!Next]_(Promise!vars)
    OBVIOUS
<1>1. Init => Promise!Init
  <2> SUFFICES ASSUME Init PROVE phase = "none" /\ running = {}
      BY DEF Promise!Init
  <2> QED
      BY PhaseOfState DEF Init, States
<1>2. HeldInv /\ [Next]_vars => PromiseStep
  <2> SUFFICES ASSUME HeldInv, [Next]_vars PROVE PromiseStep
      OBVIOUS
  <2>1. ASSUME NEW t \in Tasks, Publishes(t) PROVE PromiseStep
    <3>1. state' \in Terminal /\ running' = running /\ t \notin Openers /\ pc[t] # "idle"
      BY <2>1 DEF Publishes, audio, Terminal
    <3>2. running = {}
      <4>1. CASE t \in Stoppers
        BY <3>1, <4>1, RequestAlone DEF HeldInv, Requests
      <4>2. CASE t \in Streams
        BY <2>1, <4>2 DEF Publishes, HeldInv, SequentialInv, RecordingHeld
      <4> QED
        BY <3>1, <4>1, <4>2 DEF Tasks, Sequential
    <3> QED
      BY <3>1, <3>2, IsOver
  <2>2. CASE FrameIsBuffered
    BY <2>2, Unnoticed DEF FrameIsBuffered
  <2>3. CASE UNCHANGED vars
    BY <2>3, Unnoticed DEF vars, fields
  <2>4. ~StopLocalCapture
    BY DEF StopLocalCapture, Sequential
  <2> QED
    BY <2>1, <2>2, <2>3, <2>4, RequestPromise, ReaderPromise, RecoveryPromise
       DEF Next, TaskProceeds, Sequential, Requests
<1> QED
    BY <1>1, <1>2, HeldHolds, PTL DEF Spec, PromiseStep
=============================================================================
