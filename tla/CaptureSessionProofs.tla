------------------------- MODULE CaptureSessionProofs -------------------------
(***************************************************************************)
(* No source of a CaptureSession runs without an owner, and a start that   *)
(* raises leaves none running, unless a close has raised, whatever the     *)
(* number of stopping threads and the length of the queues.  The argument  *)
(* is the lock: start holds it from its first step to its last, so that    *)
(* until it has succeeded nobody else finds a source to take; and the      *)
(* sources are taken once, so that whoever took them answers for a loss.   *)
(***************************************************************************)
EXTENDS CaptureSession, TLAPS

\* The parts of TypeOK that the argument needs; the queues play no part in it.
ThreadTypes ==
    /\ handles \subseteq Sources
    /\ stream \in [Sources -> Running \cup {"none", "closed"}]
    /\ opening \in Sources
    /\ DOMAIN pc = Threads
    /\ pc[Starter] \in {"idle", "opening", "installing", "closing", "started", "raised"}
    /\ closing \in [Threads -> SUBSET Sources]

StarterHolds == pc[Starter] \in {"opening", "installing", "closing"} => lock = Starter

\* Until start has succeeded, no other thread has sources to close.
OnlyStarterCloses ==
    pc[Starter] # "started" => \A t \in Threads \ {Starter} : closing[t] = {}

\* What start has installed at each of its places; a thread closes only in its loop.
Installed ==
    /\ pc[Starter] \in {"idle", "closing", "raised"} => handles = {}
    /\ \A t \in Threads : pc[t] # "closing" => closing[t] = {}

OwnershipInv ==
    ThreadTypes /\ StarterHolds /\ OnlyStarterCloses /\ Installed /\ SourcesAreOwned

USE CaptureAssumption

\* What the PortAudio callback of a source does.
Callback(h) == BlockArrives(h) \/ DeviceFails(h) \/ CallbackProceeds(h)

\* It takes no lock and moves no thread: a source that runs when it is over ran before it.
LEMMA CallbackOnlyOffers ==
  ASSUME stream \in [Sources -> Running \cup {"none", "closed"}],
         NEW h \in Sources, Callback(h)
  PROVE  /\ lock' = lock /\ handles' = handles /\ handled' = handled /\ pending' = pending
         /\ failure' = failure /\ opening' = opening /\ pc' = pc /\ closing' = closing
         /\ takenBy' = takenBy /\ unclosed' = unclosed /\ events' = events
         /\ stream' \in [Sources -> Running \cup {"none", "closed"}]
         /\ \A g \in Sources : stream'[g] \in Running => stream[g] \in Running
<1> USE DEF Running, Aborting
<1>1. CASE BlockArrives(h)
  BY <1>1 DEF BlockArrives, reports, threads, taking
<1>2. CASE DeviceFails(h)
  <2>1. \E now \in {"failed", "replacing"} : stream' = [stream EXCEPT ![h] = now]
    BY <1>2 DEF DeviceFails
  <2> QED
    BY <1>2, <2>1 DEF DeviceFails, reports, threads, taking
<1>3. CASE OldestIsTaken(h)
  <2>1. \E now \in {"putting", "unheard"} : stream' = [stream EXCEPT ![h] = now]
    BY <1>3 DEF OldestIsTaken
  <2> QED
    BY <1>3, <2>1 DEF OldestIsTaken, reports, threads, taking
<1>4. CASE FailureIsPut(h)
  BY <1>4 DEF FailureIsPut, reports, threads, taking
<1> QED
  BY <1>1, <1>2, <1>3, <1>4 DEF Callback, CallbackProceeds

LEMMA OwnershipStarts == Init => OwnershipInv
<1> SUFFICES ASSUME Init PROVE OwnershipInv
  OBVIOUS
<1>1. ThreadTypes
  BY DEF Init, ThreadTypes, Sources, Threads
<1>2. StarterHolds /\ OnlyStarterCloses /\ Installed
  BY DEF Init, StarterHolds, OnlyStarterCloses, Installed, Threads
<1>3. SourcesAreOwned
  BY DEF Init, SourcesAreOwned, Running, Aborting
<1> QED
  BY <1>1, <1>2, <1>3 DEF OwnershipInv

-----------------------------------------------------------------------------
\* A thread other than the starter moves and no source changes hands.
LEMMA OwnershipKept ==
  ASSUME OwnershipInv, UNCHANGED <<handles, opening, closing, lock, unclosed>>,
         NEW t \in Threads \ {Starter}, closing[t] = {},
         UNCHANGED pc \/ \E w : GoTo(t, w),
         stream' \in [Sources -> Running \cup {"none", "closed"}],
         \A h \in Sources : stream'[h] \in Running => stream[h] \in Running
  PROVE  OwnershipInv'
<1> USE DEF OwnershipInv
<1>1. DOMAIN pc' = Threads /\ \A u \in Threads : pc'[u] = pc[u] \/ u = t
  BY DEF GoTo, ThreadTypes
<1>2. ThreadTypes' /\ pc'[Starter] = pc[Starter]
  BY <1>1 DEF ThreadTypes, Threads
<1>3. StarterHolds' /\ OnlyStarterCloses' /\ Installed'
  BY <1>1, <1>2 DEF StarterHolds, OnlyStarterCloses, Installed
<1>4. SourcesAreOwned'
  BY <1>2 DEF SourcesAreOwned, Owned
<1> QED
  BY <1>2, <1>3, <1>4

\* A thread that takes the installed sources answers for them; while start holds the lock
\* nobody takes any, and before and after a start that raised there are none.
LEMMA OwnershipTaken ==
  ASSUME OwnershipInv, NEW t \in Threads \ {Starter}, lock = None, pc[t] # "closing",
         TakeHandles(t), GoTo(t, "closing"), UNCHANGED <<lock, stream, opening>>
  PROVE  OwnershipInv'
<1> USE DEF OwnershipInv, TakeHandles
<1>1. ThreadTypes' /\ pc'[Starter] = pc[Starter]
  BY DEF ThreadTypes, GoTo, Threads
<1>2. /\ closing[t] = {} /\ closing'[t] = handles
      /\ \A u \in Threads : u # t => closing'[u] = closing[u] /\ pc'[u] = pc[u]
  BY DEF ThreadTypes, Installed, GoTo
<1>3. pc[Starter] \notin {"opening", "installing", "closing"}
  BY DEF StarterHolds, Threads
<1>4. StarterHolds'
  BY <1>1, <1>3 DEF StarterHolds
<1>5. OnlyStarterCloses'
  <2>1. CASE pc[Starter] = "started"
    BY <1>1, <2>1 DEF OnlyStarterCloses
  <2>2. CASE handles = {}
    BY <1>1, <1>2, <2>2 DEF OnlyStarterCloses
  <2> QED
    BY <2>1, <2>2, <1>3 DEF ThreadTypes, Installed
<1>6. Installed'
  BY <1>1, <1>2 DEF Installed, ThreadTypes, GoTo
<1>7. SourcesAreOwned'
  BY <1>1, <1>2, <1>3 DEF SourcesAreOwned, Owned
<1> QED
  BY <1>1, <1>4, <1>5, <1>6, <1>7

\* Closing a source ends its run; until then its owner keeps it.
LEMMA OwnershipClosed ==
  ASSUME OwnershipInv, NEW t \in Threads, CloseNext(t)
  PROVE  OwnershipInv'
<1> USE DEF OwnershipInv
<1>1. PICK h \in closing[t] :
        /\ stream' = [stream EXCEPT ![h] = "closed"]
        /\ closing' = [closing EXCEPT ![t] = @ \ {h}]
  BY DEF CloseNext, CloseHandle
<1>2. UNCHANGED <<lock, handles, opening, pc>> /\ h \in Sources /\ UNCHANGED unclosed
  BY <1>1 DEF CloseNext, ThreadTypes, taking
<1>3. ThreadTypes'
  BY <1>1, <1>2 DEF ThreadTypes
<1>4. \A u \in Threads : closing'[u] \subseteq closing[u] /\ closing[u] \subseteq closing'[u] \cup {h}
  BY <1>1, <1>2 DEF ThreadTypes
<1>5. StarterHolds' /\ OnlyStarterCloses' /\ Installed'
  BY <1>2, <1>4 DEF StarterHolds, OnlyStarterCloses, Installed
<1>6. SourcesAreOwned'
  BY <1>1, <1>2, <1>4 DEF SourcesAreOwned, Owned, ThreadTypes, Running, Aborting
<1> QED
  BY <1>3, <1>5, <1>6

\* A close that raises gives up all that its thread had still to close.
LEMMA OwnershipGivenUp ==
  ASSUME OwnershipInv, NEW t \in Threads, CloseRaises(t)
  PROVE  OwnershipInv'
<1> USE DEF OwnershipInv
<1>1. PICK h \in closing[t] : stream' = [stream EXCEPT ![h] = "closed"]
  BY DEF CloseRaises
<1>2. PICK w \in {"raised", "idle", "ended"} : GoTo(t, w) /\ (t = Starter => w = "raised")
  BY DEF CloseRaises, Over
<1>3. /\ UNCHANGED <<handles, opening>> /\ h \in Sources /\ pc[t] = "closing"
      /\ unclosed' = unclosed \cup closing[t] /\ closing' = [closing EXCEPT ![t] = {}]
      /\ t # Starter => UNCHANGED lock
  BY <1>1 DEF CloseRaises, Over, ThreadTypes
<1>4. /\ DOMAIN pc' = Threads /\ pc'[t] = w /\ closing'[t] = {}
      /\ \A u \in Threads : u # t => pc'[u] = pc[u] /\ closing'[u] = closing[u]
  BY <1>2, <1>3 DEF ThreadTypes, GoTo
<1>5. ThreadTypes'
  BY <1>1, <1>2, <1>3, <1>4 DEF ThreadTypes, Threads
<1>6. StarterHolds' /\ OnlyStarterCloses'
  BY <1>2, <1>3, <1>4 DEF StarterHolds, OnlyStarterCloses, Threads
<1>7. Installed'
  BY <1>2, <1>3, <1>4 DEF Installed, Threads
<1>8. SourcesAreOwned'
  BY <1>1, <1>2, <1>3, <1>4 DEF SourcesAreOwned, Owned, ThreadTypes, Running, Threads
<1> QED
  BY <1>5, <1>6, <1>7, <1>8

-----------------------------------------------------------------------------
\* The steps of start.
LEMMA OwnershipOfStart ==
  ASSUME OwnershipInv, StartBegins \/ StartProceeds
  PROVE  OwnershipInv'
<1> USE DEF OwnershipInv, ThreadTypes, GoTo, reports, taking, Owned
<1>0. Starter \in Threads /\ Sources \subseteq Threads \ {Starter}
  BY DEF Threads
<1>1. CASE StartBegins
  <2>1. ThreadTypes' /\ StarterHolds' /\ OnlyStarterCloses' /\ Installed'
    BY <1>0, <1>1 DEF StartBegins, StarterHolds, OnlyStarterCloses, Installed
  <2>2. SourcesAreOwned'
    BY <1>0, <1>1 DEF StartBegins, SourcesAreOwned
  <2> QED
    BY <2>1, <2>2
<1>2. CASE SourceOpens
  <2>1. ThreadTypes'
    BY <1>0, <1>2 DEF SourceOpens, Running
  <2>2. StarterHolds' /\ OnlyStarterCloses' /\ Installed'
    BY <1>0, <1>2 DEF SourceOpens, StarterHolds, OnlyStarterCloses, Installed
  <2>3. SourcesAreOwned'
    BY <1>0, <1>2 DEF SourceOpens, SourcesAreOwned
  <2> QED
    BY <2>1, <2>2, <2>3
<1>3. CASE SourceDoesNotOpen
  <2> USE DEF SourceDoesNotOpen, StartFails, TakeHandles
  <2>1. ThreadTypes'
    BY <1>0, <1>3
  <2>2. StarterHolds' /\ OnlyStarterCloses' /\ Installed'
    BY <1>0, <1>3 DEF StarterHolds, OnlyStarterCloses, Installed
  <2>3. SourcesAreOwned'
    BY <1>0, <1>3 DEF SourcesAreOwned, OnlyStarterCloses, Installed
  <2> QED
    BY <2>1, <2>2, <2>3
<1>4. CASE InstallHandle
  <2>1. ThreadTypes'
    BY <1>0, <1>4 DEF InstallHandle, Sources
  <2>2. StarterHolds' /\ OnlyStarterCloses' /\ Installed'
    BY <1>0, <1>4 DEF InstallHandle, StarterHolds, OnlyStarterCloses, Installed
  <2>3. SourcesAreOwned'
    BY <1>0, <1>4 DEF InstallHandle, SourcesAreOwned
  <2> QED
    BY <2>1, <2>2, <2>3
<1>5. CASE InstallFindsError
  <2>1. ThreadTypes'
    BY <1>0, <1>5 DEF InstallFindsError
  <2>2. StarterHolds' /\ OnlyStarterCloses' /\ Installed'
    BY <1>0, <1>5 DEF InstallFindsError, StarterHolds, OnlyStarterCloses, Installed
  <2>3. SourcesAreOwned'
    BY <1>0, <1>5 DEF InstallFindsError, SourcesAreOwned, OnlyStarterCloses, Installed
  <2> QED
    BY <2>1, <2>2, <2>3
<1>6. CASE CloseNext(Starter) \/ CloseRaises(Starter)
  BY <1>0, <1>6, OwnershipClosed, OwnershipGivenUp
<1>7. CASE StartRaises
  <2>1. ThreadTypes' /\ StarterHolds' /\ OnlyStarterCloses' /\ Installed'
    BY <1>0, <1>7 DEF StartRaises, StarterHolds, OnlyStarterCloses, Installed
  <2>2. SourcesAreOwned'
    BY <1>0, <1>7 DEF StartRaises, SourcesAreOwned
  <2> QED
    BY <2>1, <2>2
<1> QED
  BY <1>1, <1>2, <1>3, <1>4, <1>5, <1>6, <1>7 DEF StartProceeds

\* Callbacks, stops and workers.
LEMMA OwnershipOfOthers ==
  ASSUME OwnershipInv, NEW t \in Threads \ {Starter},
         \/ t \in Stoppers /\ (StopBegins(t) \/ CloseNext(t) \/ CloseRaises(t) \/ StopReturns(t))
         \/ t \in Sources /\ WorkerProceeds(t)
  PROVE  OwnershipInv'
<1> USE DEF threads, reports, taking
<1>0. pc[t] # "closing" => closing[t] = {}
  BY DEF OwnershipInv, Installed
<1>1. CASE StopBegins(t)
  BY <1>1, OwnershipTaken DEF StopBegins
<1>2. CASE CloseNext(t) \/ CloseRaises(t)
  BY <1>2, OwnershipClosed, OwnershipGivenUp
<1>3. CASE StopReturns(t)
  BY <1>3, OwnershipKept DEF StopReturns, OwnershipInv, ThreadTypes
<1>4. CASE WorkerStops(t)
  BY <1>4, OwnershipTaken DEF WorkerStops
<1>5. CASE \/ WorkerConsumes(t) \/ (\E kind \in Kinds : WorkerFails(t, kind))
           \/ WorkerIsStopped(t) \/ WorkerIsEarly(t) \/ WorkerReports(t)
           \/ WorkerHandles(t) \/ WorkerTells(t)
  <2>1. /\ UNCHANGED <<handles, opening, closing, lock, stream, unclosed>> /\ closing[t] = {}
        /\ UNCHANGED pc \/ \E w : GoTo(t, w)
    BY <1>0, <1>5 DEF WorkerConsumes, WorkerFails, WorkerIsStopped, WorkerIsEarly,
                      WorkerReports, WorkerHandles, WorkerTells, Took
  <2> QED
    BY <2>1, OwnershipKept DEF OwnershipInv, ThreadTypes
<1> QED
  BY <1>1, <1>2, <1>3, <1>4, <1>5 DEF WorkerProceeds

LEMMA OwnershipStep ==
  ASSUME OwnershipInv, [Next]_vars
  PROVE  OwnershipInv'
<1>1. CASE StartBegins \/ StartProceeds
  BY <1>1, OwnershipOfStart
<1>2. ASSUME NEW p \in Stoppers,
             StopBegins(p) \/ CloseNext(p) \/ CloseRaises(p) \/ StopReturns(p)
      PROVE  OwnershipInv'
  BY <1>2, OwnershipOfOthers DEF Threads
<1>3. ASSUME NEW h \in Sources, WorkerProceeds(h)
      PROVE  OwnershipInv'
  BY <1>3, OwnershipOfOthers DEF Threads
<1>4. ASSUME NEW h \in Sources, Callback(h)
      PROVE  OwnershipInv'
  <2>1. /\ UNCHANGED <<handles, opening, closing, lock, pc, unclosed>>
        /\ stream' \in [Sources -> Running \cup {"none", "closed"}]
        /\ \A g \in Sources : stream'[g] \in Running => stream[g] \in Running
    BY <1>4, CallbackOnlyOffers DEF OwnershipInv, ThreadTypes
  <2> QED
    BY <2>1 DEF OwnershipInv, ThreadTypes, StarterHolds, OnlyStarterCloses, Installed,
                SourcesAreOwned, Owned
<1>5. CASE UNCHANGED vars
  BY <1>5 DEF vars, threads, OwnershipInv, ThreadTypes, StarterHolds, OnlyStarterCloses,
              Installed, SourcesAreOwned, Owned
<1> QED
  BY <1>1, <1>2, <1>3, <1>4, <1>5 DEF Next, Callback

LEMMA OwnershipHolds == Spec => []OwnershipInv
  BY OwnershipStarts, OwnershipStep, PTL DEF Spec

-----------------------------------------------------------------------------
\* What put_nowait leaves is a queue within its bound; callback and worker take from the front.
LEMMA PutTyped ==
  ASSUME NEW q \in Seq(Items), Len(q) <= QueueBlocks, NEW item \in Items
  PROVE  PutNowait(q, item) \in Seq(Items) /\ Len(PutNowait(q, item)) <= QueueBlocks
  BY DEF PutNowait

LEMMA TailTyped ==
  ASSUME NEW q \in Seq(Items), Len(q) <= QueueBlocks, q # <<>>
  PROVE  Tail(q) \in Seq(Items) /\ Len(Tail(q)) <= QueueBlocks
  OBVIOUS

LEMMA TookTyped ==
  ASSUME TypeOK, NEW h \in Sources, NEW item, Took(h, item)
  PROVE  /\ queue' \in [Sources -> Seq(Items)]
         /\ \A g \in Sources : Len(queue'[g]) <= QueueBlocks
<1>1. Tail(queue[h]) \in Seq(Items) /\ Len(Tail(queue[h])) <= QueueBlocks
  BY TailTyped DEF Took, TypeOK
<1> QED
  BY <1>1 DEF Took, TypeOK

LEMMA TypesStart == Init => TypeOK
<1> SUFFICES ASSUME Init PROVE TypeOK
  OBVIOUS
<1>1. queue \in [Sources -> Seq(Items)] /\ \A h \in Sources : Len(queue[h]) <= QueueBlocks
  BY DEF Init
<1> QED
  BY <1>1 DEF Init, TypeOK, Sources, Threads

\* The steps any thread can make in its stop.
LEMMA TypesOfStop ==
  ASSUME TypeOK, NEW t \in Threads,
         CloseNext(t) \/ CloseRaises(t) \/ (TakeHandles(t) /\ GoTo(t, "closing") /\
             UNCHANGED <<lock, stream, queue, reports, opening, events>>)
  PROVE  TypeOK'
<1> USE DEF TypeOK
<1>1. CASE CloseNext(t)
  <2>1. PICK h \in closing[t] :
          CloseHandle(h) /\ closing' = [closing EXCEPT ![t] = @ \ {h}]
    BY <1>1 DEF CloseNext
  <2>2. <<>> \in Seq(Items) /\ Len(<<>>) <= QueueBlocks /\ "stop" \in Items
    BY DEF Items
  <2>3. PutNowait(<<>>, "stop") \in Seq(Items) /\ Len(PutNowait(<<>>, "stop")) <= QueueBlocks
    BY <2>2, PutTyped
  <2>4. /\ queue' \in [Sources -> Seq(Items)]
        /\ \A g \in Sources : Len(queue'[g]) <= QueueBlocks
    BY <2>1, <2>3 DEF CloseHandle
  <2> QED
    BY <1>1, <2>1, <2>4 DEF CloseNext, CloseHandle, reports, taking
<1>2. CASE CloseRaises(t)
  BY <1>2 DEF CloseRaises, Over, GoTo, reports, Threads
<1>3. CASE TakeHandles(t) /\ GoTo(t, "closing") /\
             UNCHANGED <<lock, stream, queue, reports, opening, events>>
  BY <1>3 DEF TakeHandles, GoTo, reports
<1> QED
  BY <1>1, <1>2, <1>3

LEMMA TypesOfStart ==
  ASSUME TypeOK, StartBegins \/ StartProceeds
  PROVE  TypeOK'
<1> USE DEF TypeOK, GoTo, reports, taking, threads
<1>0. Starter \in Threads /\ Sources \subseteq Threads
  BY DEF Threads
<1>1. CASE StartBegins \/ StartRaises
  BY <1>0, <1>1 DEF StartBegins, StartRaises
<1>2. CASE SourceOpens
  BY <1>0, <1>2 DEF SourceOpens, Running
<1>3. CASE SourceDoesNotOpen
  BY <1>0, <1>3, TypesOfStop DEF SourceDoesNotOpen, StartFails
<1>4. CASE InstallHandle
  BY <1>0, <1>4 DEF InstallHandle, Sources
<1>5. CASE InstallFindsError
  BY <1>0, <1>5 DEF InstallFindsError
<1>6. CASE CloseNext(Starter) \/ CloseRaises(Starter)
  BY <1>0, <1>6, TypesOfStop
<1> QED
  BY <1>1, <1>2, <1>3, <1>4, <1>5, <1>6 DEF StartProceeds

LEMMA TypesOfWorker ==
  ASSUME TypeOK, NEW h \in Sources, WorkerProceeds(h)
  PROVE  TypeOK'
<1> USE DEF GoTo, reports, taking, threads
<1>0. h \in Threads
  BY DEF Threads
<1>1. CASE WorkerConsumes(h)
  BY <1>1, TookTyped DEF WorkerConsumes, TypeOK
<1>2. ASSUME NEW kind \in Kinds, WorkerFails(h, kind)
      PROVE  TypeOK'
  <2>1. \E item : Took(h, item)
    BY <1>2 DEF WorkerFails
  <2> QED
    BY <1>0, <1>2, <2>1, TookTyped DEF WorkerFails, TypeOK
<1>3. CASE WorkerIsStopped(h)
  BY <1>0, <1>3, TookTyped DEF WorkerIsStopped, TypeOK
<1>4. CASE WorkerIsEarly(h) \/ WorkerReports(h) \/ WorkerHandles(h)
  BY <1>0, <1>4 DEF WorkerIsEarly, WorkerReports, WorkerHandles, KeepsError, TypeOK
<1>6. CASE WorkerTells(h)
  <2>1. events' \in Nat
    BY <1>6 DEF WorkerTells, Tells, TypeOK
  <2> QED
    BY <1>0, <1>6, <2>1 DEF WorkerTells, TypeOK
<1>5. CASE WorkerStops(h) \/ CloseNext(h) \/ CloseRaises(h)
  BY <1>0, <1>5, TypesOfStop DEF WorkerStops
<1> QED
  BY <1>1, <1>2, <1>3, <1>4, <1>5, <1>6 DEF WorkerProceeds

LEMMA TypesStep ==
  ASSUME TypeOK, [Next]_vars
  PROVE  TypeOK'
<1>1. CASE StartBegins \/ StartProceeds
  BY <1>1, TypesOfStart
<1>2. ASSUME NEW p \in Stoppers,
             StopBegins(p) \/ CloseNext(p) \/ CloseRaises(p) \/ StopReturns(p)
      PROVE  TypeOK'
  <2>0. p \in Threads
    BY DEF Threads
  <2>1. CASE StopReturns(p)
    BY <2>0, <2>1 DEF StopReturns, GoTo, reports, taking, TypeOK
  <2> QED
    BY <1>2, <2>0, <2>1, TypesOfStop DEF StopBegins
<1>3. ASSUME NEW h \in Sources, WorkerProceeds(h)
      PROVE  TypeOK'
  BY <1>3, TypesOfWorker
<1>4. ASSUME NEW h \in Sources, Callback(h)
      PROVE  TypeOK'
  <2>1. /\ stream' \in [Sources -> Running \cup {"none", "closed"}]
        /\ lock' = lock /\ handles' = handles /\ handled' = handled /\ pending' = pending
        /\ failure' = failure /\ opening' = opening /\ pc' = pc /\ closing' = closing
        /\ takenBy' = takenBy /\ unclosed' = unclosed /\ events' = events
    BY <1>4, CallbackOnlyOffers DEF TypeOK
  <2>2. queue[h] \in Seq(Items) /\ Len(queue[h]) <= QueueBlocks /\ {"pcm", "lost"} \subseteq Items
    BY DEF TypeOK, Items
  <2>3. PICK q \in Seq(Items) : Len(q) <= QueueBlocks /\ queue' = [queue EXCEPT ![h] = q]
    <3>1. \A item \in {"pcm", "lost"} : /\ PutNowait(queue[h], item) \in Seq(Items)
                                       /\ Len(PutNowait(queue[h], item)) <= QueueBlocks
      BY <2>2, PutTyped
    <3>2. CASE BlockArrives(h) \/ DeviceFails(h) \/ FailureIsPut(h)
      BY <3>1, <3>2 DEF BlockArrives, DeviceFails, FailureIsPut
    <3>3. CASE OldestIsTaken(h) /\ queue[h] # <<>>
      BY <2>2, <3>3, TailTyped DEF OldestIsTaken
    <3>4. CASE OldestIsTaken(h) /\ queue[h] = <<>>
      BY <2>2, <3>4 DEF OldestIsTaken, TypeOK
    <3> QED
      BY <1>4, <3>2, <3>3, <3>4 DEF Callback, CallbackProceeds
  <2>4. /\ queue' \in [Sources -> Seq(Items)]
        /\ \A g \in Sources : Len(queue'[g]) <= QueueBlocks
    BY <2>3 DEF TypeOK
  <2> QED
    BY <2>1, <2>4 DEF TypeOK
<1>5. CASE UNCHANGED vars
  BY <1>5 DEF vars, threads, reports, taking, TypeOK
<1> QED
  BY <1>1, <1>2, <1>3, <1>4, <1>5 DEF Next, Callback

-----------------------------------------------------------------------------
\* Who has taken the sources, and what became of what a worker had to tell.

\* A worker has a failure once it has left its loop with one, and start opens each source once.
WorkersInOrder ==
    /\ \A h \in Sources :
        /\ pc[h] \in {"idle", "getting", "reporting", "handling", "stopping", "closing", "ended"}
        /\ pc[h] \in {"idle", "getting"} => failure[h] = None
        /\ pc[h] \in {"reporting", "handling", "stopping", "closing"} => failure[h] # None
        /\ pc[h] \in {"handling", "stopping"} => h \in handled
    /\ pc[Starter] = "idle" => opening = "mic" /\ pc["mic"] = "idle"
    /\ pc[Starter] = "opening" => pc[opening] = "idle"
    /\ opening = "mic" => pc["system"] = "idle"

\* The sources are taken once: nothing is installed afterwards.
TakenOnce ==
    /\ takenBy # None => handles = {} /\ pc[Starter] \in {"closing", "raised", "started"}
    /\ handled \subseteq handles \/ takenBy # None

\* A worker that has taken them tells of its failure before it ends.
TakerTells ==
    takenBy \in Sources =>
        /\ pc[takenBy] \in {"closing", "ended"}
        /\ failure[takenBy] # None
        /\ pc[takenBy] = "ended" => failure[takenBy] = "consumer" \/ events > 0 \/ unclosed # {}

TellingInv == TypeOK /\ OwnershipInv /\ WorkersInOrder /\ TakenOnce /\ TakerTells /\ LossIsTold

LEMMA SourcesKnown ==
  "mic" \in Sources /\ "system" \in Sources /\ "mic" # "system"
    /\ (TypeOK => opening \in Sources) /\ \A h \in Sources : h = "mic" \/ h = "system"
  BY DEF Sources, TypeOK

LEMMA TellingStarts == Init => TellingInv
<1> SUFFICES ASSUME Init PROVE TellingInv
  OBVIOUS
<1>1. WorkersInOrder /\ TakenOnce /\ TakerTells /\ LossIsTold
  BY DEF Init, WorkersInOrder, TakenOnce, TakerTells, LossIsTold, Sources, Threads
<1> QED
  BY <1>1, TypesStart, OwnershipStarts DEF TellingInv

\* What it takes for a step to leave no loss untold.
Answered == events > 0 \/ GivenUp

LEMMA LossStep ==
  ASSUME TellingInv, TakerTells', events' \in Nat, events' >= events,
         unclosed \subseteq unclosed', takenBy # None => takenBy' = takenBy,
         \A h \in Sources : failure[h] # None => failure'[h] = failure[h],
         \A h \in Sources : pending'[h] = pending[h] \/ pending'[h] # None \/ takenBy' = Starter,
         \A h \in Sources : pc'[h] = "ended" /\ failure'[h] = "lost" =>
             Answered' \/ pending'[h] # None \/ (pc[h] = "ended" /\ failure[h] = "lost")
  PROVE  LossIsTold'
<1>1. Answered => Answered'
  <2>1. CASE events > 0 \/ unclosed # {}
    BY <2>1 DEF Answered, GivenUp, TellingInv, TypeOK
  <2>2. CASE takenBy \in Stoppers \cup {Starter}
    BY <2>2 DEF Answered, GivenUp, Threads
  <2>3. CASE takenBy \in Sources /\ (failure[takenBy] = "consumer" \/ pc[takenBy] = "closing")
    <3>1. takenBy' = takenBy /\ failure'[takenBy] = failure[takenBy]
      BY <2>3 DEF TellingInv, TakerTells, Threads
    <3> QED
      BY <2>3, <3>1 DEF Answered, GivenUp, TakerTells
  <2> QED
    BY <2>1, <2>2, <2>3 DEF Answered, GivenUp
<1>2. ASSUME NEW h \in Sources, pc'[h] = "ended", failure'[h] = "lost"
      PROVE  events' > 0 \/ pending'[h] # None \/ GivenUp'
  <2>1. CASE pc[h] = "ended" /\ failure[h] = "lost"
    <3>1. pending[h] # None \/ Answered
      BY <2>1 DEF TellingInv, LossIsTold, Answered
    <3> QED
      BY <1>1, <3>1 DEF Answered, GivenUp
  <2> QED
    BY <1>2, <2>1 DEF Answered
<1> QED
  BY <1>2 DEF LossIsTold

\* A thread that stops the session: the sources, if there are any, are now its own.
LEMMA TellingTaken ==
  ASSUME TellingInv, NEW t \in Threads \ {Starter}, lock = None,
         TakeHandles(t), GoTo(t, "closing"), UNCHANGED <<reports, opening, events>>,
         t \in Stoppers \/ (t \in Sources /\ pc[t] = "stopping")
  PROVE  WorkersInOrder' /\ TakenOnce' /\ TakerTells' /\ LossIsTold'
<1> USE DEF TellingInv, TakeHandles, reports
<1>1. /\ pc'[Starter] = pc[Starter] /\ pc'[t] = "closing"
      /\ \A u \in Threads : u # t => pc'[u] = pc[u]
      /\ UNCHANGED <<handled, pending, failure, unclosed>>
  BY DEF GoTo, TypeOK, Threads
<1>2. t \in Sources => failure[t] # None
  BY DEF WorkersInOrder
<1>3. handles # {} => takenBy = None /\ pc[Starter] = "started"
  BY DEF TakenOnce, OwnershipInv, ThreadTypes, StarterHolds, Installed, Threads
<1>4. WorkersInOrder'
  BY <1>1, <1>2, SourcesKnown DEF WorkersInOrder, Threads
<1>5. TakenOnce'
  BY <1>1, <1>3, CaptureAssumption DEF TakenOnce, Threads
<1>6. TakerTells'
  <2>1. CASE takenBy' = t
    BY <1>1, <1>2, <2>1 DEF TakerTells
  <2>2. CASE takenBy' = takenBy
    BY <1>1, <2>2 DEF TakerTells, Threads
  <2> QED
    BY <2>1, <2>2
<1>7. LossIsTold'
  BY <1>1, <1>3, <1>6, LossStep DEF TypeOK, Threads
<1> QED
  BY <1>4, <1>5, <1>6, <1>7

\* A thread that closes what it has taken, or gives it up.
LEMMA TellingClosed ==
  ASSUME TellingInv, NEW t \in Threads, CloseNext(t) \/ CloseRaises(t)
  PROVE  WorkersInOrder' /\ TakenOnce' /\ TakerTells' /\ LossIsTold'
<1> USE DEF TellingInv, reports, taking
<1>1. CASE CloseNext(t)
  <2>1. UNCHANGED <<handles, handled, pending, failure, opening, pc, takenBy, unclosed, events>>
    BY <1>1 DEF CloseNext
  <2> QED
    BY <2>1 DEF WorkersInOrder, TakenOnce, TakerTells, LossIsTold, GivenUp
<1>2. CASE CloseRaises(t)
  <2>1. /\ UNCHANGED <<handles, handled, pending, failure, opening, takenBy, events>>
        /\ pc[t] = "closing" /\ closing[t] # {} /\ unclosed' = unclosed \cup closing[t]
    BY <1>2 DEF CloseRaises
  <2>2. /\ \A u \in Threads : u # t => pc'[u] = pc[u]
        /\ t = Starter => pc'[t] = "raised"
        /\ t \in Sources => pc'[t] = "ended"
    BY <1>2 DEF CloseRaises, Over, GoTo, TypeOK, Threads
  <2>3. WorkersInOrder'
    BY <2>1, <2>2, SourcesKnown DEF WorkersInOrder, Threads
  <2>4. TakenOnce'
    BY <2>1, <2>2 DEF TakenOnce, Threads
  <2>5. TakerTells'
    BY <2>1, <2>2 DEF TakerTells, Threads
  <2>6. unclosed' # {}
    BY <2>1
  <2>7. LossIsTold'
    BY <2>6 DEF LossIsTold, GivenUp
  <2> QED
    BY <2>3, <2>4, <2>5, <2>7
<1> QED
  BY <1>1, <1>2

LEMMA TellingOfStart ==
  ASSUME TellingInv, StartBegins \/ StartProceeds
  PROVE  WorkersInOrder' /\ TakenOnce' /\ TakerTells' /\ LossIsTold'
<1> USE DEF TellingInv, GoTo, reports, taking
<1>0. Starter \in Threads /\ Sources \subseteq Threads \ {Starter}
  BY DEF Threads
<1>1. CASE StartBegins \/ StartRaises
  <2>1. /\ UNCHANGED <<handles, handled, pending, failure, opening, takenBy, unclosed, events>>
        /\ \A h \in Sources : pc'[h] = pc[h]
        /\ \/ pc[Starter] = "idle" /\ pc'[Starter] = "opening"
           \/ pc[Starter] = "closing" /\ pc'[Starter] = "raised"
    BY <1>0, <1>1 DEF StartBegins, StartRaises, TypeOK
  <2>2. WorkersInOrder' /\ TakenOnce'
    BY <2>1, SourcesKnown DEF WorkersInOrder, TakenOnce
  <2>3. TakerTells' /\ LossIsTold'
    BY <2>1 DEF TakerTells, LossIsTold, GivenUp
  <2> QED
    BY <2>2, <2>3
<1>2. CASE SourceOpens
  <2>1. /\ UNCHANGED <<handles, handled, pending, failure, opening, takenBy, unclosed, events>>
        /\ \A h \in Sources : h # opening => pc'[h] = pc[h]
        /\ pc[opening] = "idle" /\ pc'[opening] = "getting" /\ opening \in Sources
        /\ pc[Starter] = "opening" /\ pc'[Starter] = "installing"
    BY <1>0, <1>2 DEF SourceOpens, WorkersInOrder, TypeOK
  <2>2. WorkersInOrder'
    BY <2>1, SourcesKnown DEF WorkersInOrder
  <2>3. takenBy = None /\ TakenOnce'
    BY <2>1 DEF TakenOnce
  <2>4. TakerTells' /\ LossIsTold'
    BY <2>1, <2>3, CaptureAssumption DEF TakerTells, LossIsTold, GivenUp, Threads
  <2> QED
    BY <2>2, <2>3, <2>4
<1>3. CASE SourceDoesNotOpen \/ InstallFindsError
  <2>1. /\ UNCHANGED <<failure, opening, unclosed, events>>
        /\ \A h \in Sources : pc'[h] = pc[h]
        /\ pc[Starter] \in {"opening", "installing"} /\ pc'[Starter] = "closing"
        /\ handles' = {} /\ handled \subseteq handled'
    BY <1>0, <1>3 DEF SourceDoesNotOpen, StartFails, TakeHandles, InstallFindsError, TypeOK
  <2>2. takenBy = None /\ handled \subseteq handles
    BY <2>1 DEF TakenOnce
  <2>3. /\ takenBy' \in {None, Starter} /\ (handled' \subseteq {} \/ takenBy' = Starter)
        /\ pending' = pending \/ takenBy' = Starter
    BY <1>3, <2>2 DEF SourceDoesNotOpen, StartFails, TakeHandles, InstallFindsError
  <2>4. WorkersInOrder'
    BY <2>1, SourcesKnown DEF WorkersInOrder
  <2>5. TakenOnce' /\ TakerTells'
    BY <1>0, <2>1, <2>3, CaptureAssumption DEF TakenOnce, TakerTells, Threads
  <2>6. LossIsTold'
    BY <2>1, <2>2, <2>3, <2>5, LossStep DEF TypeOK
  <2> QED
    BY <2>4, <2>5, <2>6
<1>4. CASE InstallHandle
  <2>1. /\ UNCHANGED <<pending, failure, takenBy, unclosed, events>>
        /\ handles' = handles \cup {opening} /\ handled' = handled \cup {opening}
        /\ \A h \in Sources : pc'[h] = pc[h]
        /\ \/ opening = "mic" /\ opening' = "system" /\ pc'[Starter] = "opening"
           \/ opening # "mic" /\ opening' = opening /\ pc'[Starter] = "started"
        /\ pc[Starter] = "installing"
    BY <1>0, <1>4 DEF InstallHandle, TypeOK
  <2>2. WorkersInOrder'
    BY <2>1, SourcesKnown DEF WorkersInOrder
  <2>3. TakenOnce'
    BY <2>1 DEF TakenOnce
  <2>4. TakerTells' /\ LossIsTold'
    BY <2>1 DEF TakerTells, LossIsTold, GivenUp
  <2> QED
    BY <2>2, <2>3, <2>4
<1>5. CASE CloseNext(Starter) \/ CloseRaises(Starter)
  BY <1>0, <1>5, TellingClosed
<1> QED
  BY <1>1, <1>2, <1>3, <1>4, <1>5 DEF StartProceeds

\* A worker moves, nobody takes anything.
LEMMA WorkerMoves ==
  ASSUME TellingInv, NEW h \in Sources, NEW w, GoTo(h, w),
         UNCHANGED <<handles, handled, opening, takenBy, unclosed>>,
         takenBy # h, pc[h] # "idle"
  PROVE  /\ TakenOnce' /\ pc'[h] = w /\ pc'[Starter] = pc[Starter]
         /\ \A g \in Sources : g # h => pc'[g] = pc[g]
  BY DEF GoTo, TellingInv, TypeOK, TakenOnce, Threads

LEMMA TellingOfWorker ==
  ASSUME TellingInv, NEW h \in Sources, WorkerProceeds(h)
  PROVE  WorkersInOrder' /\ TakenOnce' /\ TakerTells' /\ LossIsTold'
<1> USE DEF TellingInv, reports, taking, threads
<1>0. /\ h \in Threads \ {Starter}
      /\ takenBy = h => pc[h] \in {"closing", "ended"}
  BY DEF TakerTells, Threads
<1>1. CASE WorkerConsumes(h)
  BY <1>1 DEF WorkerConsumes, WorkersInOrder, TakenOnce, TakerTells, LossIsTold, GivenUp
<1>2. ASSUME NEW kind \in Kinds, WorkerFails(h, kind)
      PROVE  WorkersInOrder' /\ TakenOnce' /\ TakerTells' /\ LossIsTold'
  <2>1. /\ UNCHANGED <<handles, handled, pending, opening, takenBy, unclosed, events>>
        /\ pc[h] = "getting" /\ failure[h] = None
        /\ failure'[h] = kind /\ \A g \in Sources : g # h => failure'[g] = failure[g]
        /\ GoTo(h, "reporting") /\ takenBy # h
    BY <1>0, <1>2 DEF WorkerFails, Took, WorkersInOrder, TypeOK
  <2>2. /\ TakenOnce' /\ pc'[h] = "reporting" /\ pc'[Starter] = pc[Starter]
        /\ \A g \in Sources : g # h => pc'[g] = pc[g]
    BY <2>1, WorkerMoves
  <2>3. WorkersInOrder'
    BY <2>1, <2>2, SourcesKnown DEF WorkersInOrder
  <2>4. TakerTells'
    BY <2>1, <2>2 DEF TakerTells
  <2>5. LossIsTold'
    BY <2>1, <2>2, <2>4, LossStep DEF TypeOK
  <2> QED
    BY <2>2, <2>3, <2>4, <2>5
<1>3. ASSUME NEW w \in {"handling", "stopping", "ended"}, GoTo(h, w), takenBy # h, pc[h] # "idle",
             UNCHANGED <<handles, handled, failure, opening, takenBy, unclosed, events>>,
             failure[h] # None \/ w = "ended", w # "ended" => h \in handled,
             \A g \in Sources : pending'[g] = pending[g] \/ pending'[g] # None,
             w = "ended" /\ failure[h] = "lost" => Answered \/ pending'[h] # None
      PROVE  WorkersInOrder' /\ TakenOnce' /\ TakerTells' /\ LossIsTold'
  <2>1. /\ TakenOnce' /\ pc'[h] = w /\ pc'[Starter] = pc[Starter]
        /\ \A g \in Sources : g # h => pc'[g] = pc[g]
    BY <1>3, WorkerMoves
  <2>2. WorkersInOrder'
    BY <1>3, <2>1, SourcesKnown DEF WorkersInOrder
  <2>3. TakerTells'
    BY <1>3, <2>1 DEF TakerTells
  <2>4. Answered => Answered'
    BY <1>3, <2>1 DEF Answered, GivenUp
  <2>5. \A g \in Sources : pc'[g] = "ended" /\ failure'[g] = "lost" =>
          Answered' \/ pending'[g] # None \/ (pc[g] = "ended" /\ failure[g] = "lost")
    BY <1>3, <2>1, <2>4
  <2>6. events \in Nat
    BY DEF TypeOK
  <2>7. LossIsTold'
    BY <1>3, <2>3, <2>5, <2>6, LossStep
  <2> QED
    BY <2>1, <2>2, <2>3, <2>7
<1>4. CASE WorkerIsStopped(h)
  <2>1. pc[h] = "getting" /\ failure[h] = None
    BY <1>4 DEF WorkerIsStopped, Took, WorkersInOrder
  <2> QED
    BY <1>0, <1>3, <1>4, <2>1 DEF WorkerIsStopped, Kinds
<1>5. CASE WorkerIsEarly(h)
  <2>1. failure[h] # None /\ pending'[h] = failure[h]
        /\ \A g \in Sources : g # h => pending'[g] = pending[g]
    BY <1>5 DEF WorkerIsEarly, KeepsError, WorkersInOrder, TypeOK
  <2> QED
    BY <1>0, <1>3, <1>5, <2>1 DEF WorkerIsEarly
<1>6. CASE WorkerReports(h)
  <2>1. failure[h] # None
    BY <1>6 DEF WorkerReports, WorkersInOrder
  <2> QED
    BY <1>0, <1>3, <1>6, <2>1 DEF WorkerReports
<1>7. CASE WorkerHandles(h)
  <2>1. pc[h] = "handling" /\ failure[h] # None /\ h \in handled /\ takenBy # h
    BY <1>0, <1>7 DEF WorkerHandles, WorkersInOrder
  <2>2. h \notin handles => Answered
    <3>1. SUFFICES ASSUME h \notin handles PROVE Answered
      OBVIOUS
    <3>2. takenBy \in Threads
      BY <2>1, <3>1 DEF TakenOnce, TypeOK
    <3>3. CASE takenBy \in Sources
      BY <3>3 DEF TakerTells, Answered, GivenUp
    <3> QED
      BY <3>2, <3>3 DEF Answered, GivenUp, Threads
  <2> QED
    BY <1>3, <1>7, <2>1, <2>2 DEF WorkerHandles
<1>8. CASE WorkerStops(h)
  BY <1>0, <1>8, TellingTaken DEF WorkerStops
<1>9. CASE CloseNext(h) \/ CloseRaises(h)
  BY <1>0, <1>9, TellingClosed
<1>10. CASE WorkerTells(h)
  <2>1. /\ UNCHANGED <<handles, handled, pending, failure, opening, takenBy, unclosed>>
        /\ events' \in Nat /\ events' >= events
        /\ failure[h] = "lost" => events' > 0
    BY <1>10 DEF WorkerTells, Tells, TypeOK
  <2>2. /\ \A g \in Sources : g # h => pc'[g] = pc[g]
        /\ pc'[h] = "ended" /\ pc'[Starter] = pc[Starter] /\ pc[h] = "closing"
    BY <1>0, <1>10 DEF WorkerTells, GoTo, TypeOK, Threads
  <2>3. WorkersInOrder' /\ TakenOnce'
    BY <2>1, <2>2, SourcesKnown DEF WorkersInOrder, TakenOnce
  <2>4. TakerTells'
    <3>1. failure[h] \in {"lost", "consumer"}
      BY <2>2 DEF WorkersInOrder, TypeOK, Kinds
    <3>2. events > 0 => events' > 0
      BY <2>1 DEF TypeOK
    <3>3. CASE takenBy = h
      BY <2>1, <2>2, <3>1, <3>3 DEF TakerTells
    <3>4. CASE takenBy # h
      BY <2>1, <2>2, <3>2, <3>4 DEF TakerTells
    <3> QED
      BY <3>3, <3>4
  <2>5. LossIsTold'
    BY <2>1, <2>2, <2>4, LossStep DEF Answered
  <2> QED
    BY <2>3, <2>4, <2>5
<1> QED
  BY <1>1, <1>2, <1>4, <1>5, <1>6, <1>7, <1>8, <1>9, <1>10 DEF WorkerProceeds

LEMMA TellingStep ==
  ASSUME TellingInv, [Next]_vars
  PROVE  TellingInv'
<1> USE DEF TellingInv
<1>1. TypeOK' /\ OwnershipInv'
  BY TypesStep, OwnershipStep
<1>2. CASE StartBegins \/ StartProceeds
  BY <1>1, <1>2, TellingOfStart
<1>3. ASSUME NEW p \in Stoppers,
             StopBegins(p) \/ CloseNext(p) \/ CloseRaises(p) \/ StopReturns(p)
      PROVE  TellingInv'
  <2>0. p \in Threads \ {Starter} /\ p \notin Sources
    BY DEF Threads
  <2>1. CASE StopBegins(p)
    BY <1>1, <2>0, <2>1, TellingTaken DEF StopBegins
  <2>2. CASE CloseNext(p) \/ CloseRaises(p)
    BY <1>1, <2>0, <2>2, TellingClosed
  <2>3. CASE StopReturns(p)
    <3>1. /\ UNCHANGED <<handles, handled, pending, failure, opening, takenBy, unclosed, events>>
          /\ pc'[Starter] = pc[Starter] /\ \A h \in Sources : pc'[h] = pc[h]
      BY <2>0, <2>3 DEF StopReturns, GoTo, reports, taking, TypeOK, Threads
    <3>2. WorkersInOrder' /\ TakenOnce'
      BY <3>1, SourcesKnown DEF WorkersInOrder, TakenOnce
    <3>3. TakerTells' /\ LossIsTold'
      BY <3>1 DEF TakerTells, LossIsTold, GivenUp
    <3> QED
      BY <1>1, <3>2, <3>3
  <2> QED
    BY <1>3, <2>1, <2>2, <2>3
<1>4. ASSUME NEW h \in Sources, WorkerProceeds(h)
      PROVE  TellingInv'
  BY <1>1, <1>4, TellingOfWorker
<1>5. CASE (\E h \in Sources : Callback(h)) \/ UNCHANGED vars
  <2>1. UNCHANGED <<handles, handled, pending, failure, opening, pc, takenBy, unclosed, events>>
    <3>1. ASSUME NEW h \in Sources, Callback(h)
          PROVE  UNCHANGED <<handles, handled, pending, failure, opening, pc, takenBy, unclosed,
                             events>>
      BY <3>1, CallbackOnlyOffers DEF TypeOK
    <3> QED
      BY <1>5, <3>1 DEF vars
  <2> QED
    BY <1>1, <2>1 DEF WorkersInOrder, TakenOnce, TakerTells, LossIsTold, GivenUp
<1> QED
  BY <1>2, <1>3, <1>4, <1>5 DEF Next, Callback

-----------------------------------------------------------------------------
\* No source ever runs with nobody to close it (CaptureSession._install_handle, stop).
THEOREM NoSourceIsLost == Spec => []SourcesAreOwned
<1>1. OwnershipInv => SourcesAreOwned
  BY DEF OwnershipInv
<1> QED
  BY <1>1, OwnershipHolds, PTL

\* "Start both sources or leave no active source behind" (CaptureSession.start): after a
\* start that raised nothing is installed and nobody closes anything, so nothing runs.
THEOREM FailedStartLeavesNone == Spec => []StartLeavesNone
<1>1. OwnershipInv => StartLeavesNone
  <2> SUFFICES ASSUME OwnershipInv, pc[Starter] = "raised", NEW h \in Sources,
                      stream[h] \in Running
               PROVE  h \in unclosed
    BY DEF StartLeavesNone
  <2>1. handles = {} /\ \A t \in Threads : closing[t] = {}
    BY DEF OwnershipInv, Installed, OnlyStarterCloses, Threads
  <2> QED
    BY <2>1 DEF OwnershipInv, SourcesAreOwned, Owned
<1> QED
  BY <1>1, OwnershipHolds, PTL

\* The state has the types the code gives it, and no queue outgrows QUEUE_BLOCKS (_offer).
THEOREM CaptureTypes == Spec => []TypeOK
  BY TypesStart, TypesStep, PTL DEF Spec

\* A device that is lost is told to the controller, unless the capture was being given up
\* anyway: of two failing sources, or a failure and a stop, the one that takes the sources
\* reports (CaptureSession._handle_source_error).
THEOREM LossStaysTold == Spec => []LossIsTold
<1>1. TellingInv => LossIsTold
  BY DEF TellingInv
<1> QED
  BY TellingStarts, TellingStep, <1>1, PTL DEF Spec
=============================================================================
