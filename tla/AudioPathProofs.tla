--------------------------- MODULE AudioPathProofs ---------------------------
(***************************************************************************)
(* The buffer is ordered and bounded, no frame is lost on the way but      *)
(* where FramesAreKept says so, frames never overlap, and a stream takes   *)
(* them in order unless the buffer shifts under its replay, for every      *)
(* length of the buffer and of a frame and any number of sends, openings   *)
(* and failures.                                                           *)
(***************************************************************************)
EXTENDS AudioPath, TLAPS

-----------------------------------------------------------------------------
\* Sequences.

\* InsertAt, by what is at each index.
LEMMA Inserted ==
  ASSUME NEW s \in Seq(Frames), NEW p \in 0..Len(s), NEW e \in Frames
  PROVE  \E all \in Seq(Frames) :
           /\ all = InsertAt(s, p + 1, e)
           /\ Len(all) = Len(s) + 1
           /\ \A i \in 1..p : all[i] = s[i]
           /\ all[p + 1] = e
           /\ \A i \in p + 2..Len(s) + 1 : all[i] = s[i - 1]
<1>1. PICK front \in Seq(Frames), back \in Seq(Frames) :
        /\ InsertAt(s, p + 1, e) = front \o <<e>> \o back
        /\ Len(front) = p /\ \A i \in 1..p : front[i] = s[i]
        /\ Len(back) = Len(s) - p /\ \A i \in 1..Len(s) - p : back[i] = s[p + i]
  <2> DEFINE f == SubSeq(s, 1, (p + 1) - 1)
             b == SubSeq(s, p + 1, Len(s))
  <2>1. f \in Seq(Frames) /\ Len(f) = p /\ \A i \in 1..p : f[i] = s[i]
    OBVIOUS
  <2>2. b \in Seq(Frames) /\ Len(b) = Len(s) - p /\ \A i \in 1..Len(s) - p : b[i] = s[p + i]
    OBVIOUS
  <2>3. InsertAt(s, p + 1, e) = f \o <<e>> \o b
    BY DEF InsertAt
  <2> HIDE DEF f, b
  <2> QED
    BY <2>1, <2>2, <2>3
<1> DEFINE all == front \o <<e>> \o back
<1>2. /\ all \in Seq(Frames) /\ Len(all) = Len(front) + 1 + Len(back)
      /\ \A i \in 1..Len(front) : all[i] = front[i]
      /\ all[Len(front) + 1] = e
      /\ \A i \in 1..Len(back) : all[Len(front) + 1 + i] = back[i]
  <2>1. (front \o <<e>>) \in Seq(Frames) /\ Len(front \o <<e>>) = Len(front) + 1
    OBVIOUS
  <2> QED
    BY <2>1
<1>3. all = InsertAt(s, p + 1, e)
  BY <1>1
<1> HIDE DEF all
<1>4. /\ \A i \in 1..p : all[i] = s[i]
      /\ all[p + 1] = e
      /\ \A i \in 1..Len(s) - p : all[p + 1 + i] = s[p + i]
  BY <1>1, <1>2
<1>5. ASSUME NEW i \in p + 2..Len(s) + 1 PROVE all[i] = s[i - 1]
  <2>1. /\ i - p - 1 \in 1..Len(s) - p
        /\ p + 1 + (i - p - 1) = i /\ p + (i - p - 1) = i - 1
    OBVIOUS
  <2> QED
    BY <1>4, <2>1
<1> QED
  BY <1>1, <1>2, <1>3, <1>4, <1>5

\* Latest, by what is at each index.
LEMMA Truncated ==
  ASSUME NEW S, NEW s \in Seq(S)
  PROVE  /\ Excess(s) \in 0..Len(s)
         /\ Latest(s) \in Seq(S)
         /\ Len(Latest(s)) = Len(s) - Excess(s)
         /\ \A i \in 1..Len(s) - Excess(s) : Latest(s)[i] = s[Excess(s) + i]
         /\ Len(Latest(s)) <= MaxFrames
         /\ Excess(s) > 0 => Len(Latest(s)) = MaxFrames
<1>1. MaxFrames \in Nat
  BY PathAssumption
<1>2. Excess(s) \in 0..Len(s) /\ Len(s) - Excess(s) <= MaxFrames
      /\ (Excess(s) > 0 => Len(s) - Excess(s) = MaxFrames)
  BY <1>1 DEF Excess
<1> DEFINE x == Excess(s)
<1> HIDE DEF x
<1>3. x \in 0..Len(s)
  BY <1>2 DEF x
<1>4. /\ SubSeq(s, x + 1, Len(s)) \in Seq(S)
      /\ Len(SubSeq(s, x + 1, Len(s))) = Len(s) - x
      /\ \A i \in 1..Len(s) - x : SubSeq(s, x + 1, Len(s))[i] = s[x + i]
  BY <1>3
<1>5. Latest(s) = SubSeq(s, x + 1, Len(s))
  BY DEF Latest, x
<1> QED
  BY <1>2, <1>4, <1>5 DEF x

\* What Append adds.
LEMMA Appended ==
  ASSUME NEW S, NEW s \in Seq(S), NEW e \in S
  PROVE  ToSet(Append(s, e)) = ToSet(s) \cup {e}
<1>1. /\ DOMAIN Append(s, e) = 1..Len(s) + 1 /\ DOMAIN s = 1..Len(s)
      /\ \A i \in 1..Len(s) : Append(s, e)[i] = s[i]
      /\ Append(s, e)[Len(s) + 1] = e
  OBVIOUS
<1> DEFINE t == Append(s, e)
<1> HIDE DEF t
<1>2. /\ DOMAIN t = 1..Len(s) + 1
      /\ \A i \in 1..Len(s) : t[i] = s[i]
      /\ t[Len(s) + 1] = e
  BY <1>1 DEF t
<1>3. ASSUME NEW i \in DOMAIN t PROVE t[i] \in ToSet(s) \cup {e}
  BY <1>1, <1>2 DEF ToSet
<1>4. ASSUME NEW i \in DOMAIN s PROVE s[i] \in ToSet(t)
  <2>1. i \in DOMAIN t /\ t[i] = s[i]
    BY <1>1, <1>2
  <2> QED
    BY <2>1 DEF ToSet
<1>5. e \in ToSet(t)
  <2>1. Len(s) + 1 \in DOMAIN t
    BY <1>2
  <2> QED
    BY <1>2, <2>1 DEF ToSet
<1> QED
  BY <1>3, <1>4, <1>5 DEF ToSet, t

\* What Tail leaves.
LEMMA Headed ==
  ASSUME NEW S, NEW s \in Seq(S), s # <<>>
  PROVE  Head(s) \in S /\ Tail(s) \in Seq(S) /\ ToSet(s) = {Head(s)} \cup ToSet(Tail(s))
<1>1. /\ Head(s) = s[1] /\ 1 \in DOMAIN s /\ Tail(s) \in Seq(S)
      /\ DOMAIN Tail(s) = 1..Len(s) - 1 /\ DOMAIN s = 1..Len(s)
      /\ \A i \in 1..Len(s) - 1 : Tail(s)[i] = s[i + 1]
  OBVIOUS
<1>2. ASSUME NEW i \in DOMAIN s PROVE s[i] \in {Head(s)} \cup ToSet(Tail(s))
  <2>1. CASE i = 1
    BY <1>1, <2>1
  <2>2. CASE i # 1
    <3>1. i - 1 \in 1..Len(s) - 1 /\ (i - 1) + 1 = i
      BY <1>1, <1>2, <2>2
    <3>2. Tail(s)[i - 1] = s[i] /\ i - 1 \in DOMAIN Tail(s)
      BY <1>1, <3>1
    <3> QED
      BY <3>2 DEF ToSet
  <2> QED
    BY <2>1, <2>2
<1>3. ASSUME NEW i \in DOMAIN Tail(s) PROVE Tail(s)[i] \in ToSet(s)
  <2>1. i + 1 \in DOMAIN s /\ Tail(s)[i] = s[i + 1]
    BY <1>1, <1>3
  <2> QED
    BY <2>1 DEF ToSet
<1> QED
  BY <1>1, <1>2, <1>3 DEF ToSet

\* RemoveAt keeps the other elements.
LEMMA Removed ==
  ASSUME NEW S, NEW s \in Seq(S), NEW i \in 1..Len(s)
  PROVE  /\ RemoveAt(s, i) \in Seq(S)
         /\ \A j \in 1..Len(s) : j # i => \E k \in DOMAIN RemoveAt(s, i) : RemoveAt(s, i)[k] = s[j]
<1>1. PICK front \in Seq(S), back \in Seq(S) :
        /\ RemoveAt(s, i) = front \o back
        /\ Len(front) = i - 1 /\ \A j \in 1..i - 1 : front[j] = s[j]
        /\ Len(back) = Len(s) - i /\ \A j \in 1..Len(s) - i : back[j] = s[i + j]
  <2> DEFINE f == SubSeq(s, 1, i - 1)
             b == SubSeq(s, i + 1, Len(s))
  <2>1. f \in Seq(S) /\ Len(f) = i - 1 /\ \A j \in 1..i - 1 : f[j] = s[j]
    OBVIOUS
  <2>2. b \in Seq(S) /\ Len(b) = Len(s) - i /\ \A j \in 1..Len(s) - i : b[j] = s[i + j]
    OBVIOUS
  <2>3. RemoveAt(s, i) = f \o b
    BY DEF RemoveAt
  <2> HIDE DEF f, b
  <2> QED
    BY <2>1, <2>2, <2>3
<1> DEFINE all == front \o back
<1>2. /\ all \in Seq(S) /\ Len(all) = Len(front) + Len(back)
      /\ \A j \in 1..Len(front) : all[j] = front[j]
      /\ \A j \in 1..Len(back) : all[Len(front) + j] = back[j]
  OBVIOUS
<1>3. all = RemoveAt(s, i)
  BY <1>1
<1> HIDE DEF all
<1>4. ASSUME NEW j \in 1..Len(s), j # i PROVE \E k \in DOMAIN all : all[k] = s[j]
  <2>1. CASE j < i
    BY <1>1, <1>2, <2>1
  <2>2. CASE j > i
    <3>1. PICK k \in 1..Len(back) : i + k = j
      <4>1. j - i \in 1..Len(s) - i /\ i + (j - i) = j
        BY <2>2
      <4> QED
        BY <1>1, <4>1
    <3>2. all[Len(front) + k] = s[j]
      BY <1>1, <1>2, <3>1
    <3> QED
      BY <1>1, <1>2, <3>1, <3>2
  <2> QED
    BY <1>4, <2>1, <2>2
<1> QED
  BY <1>2, <1>3, <1>4

-----------------------------------------------------------------------------
\* Types.

Sends == [frame : Frames, stale : BOOLEAN]
Recoveries == [pc : {"idle", "waiting", "replaying"}, next : Nat \ {0},
               frame : Frames \cup {None}]

\* What TypeOK says of the clock, and that a running capture has its session and a channel
\* that holds blocks the offset of the first.
ClockTypes ==
    /\ session \in Sessions \cup {None}
    /\ capturing \in BOOLEAN
    /\ base \in Nat
    /\ captured \in [Channels -> Nat]
    /\ held \in [Channels -> 0..FrameBlocks - 1]
    /\ heldOffset \in [Channels -> Nat \cup {None}]
    /\ spoken \in [Sessions -> [Channels -> Nat]]
    /\ rebased \subseteq Sessions
    /\ openings \in 0..MaxOpenings
    /\ capturing => session \in Sessions
    /\ \A c \in Channels : held[c] > 0 => heldOffset[c] \in Nat

\* What it says of the frames, and that a replay has its frame.
FrameTypes ==
    /\ state \in {"over", "streaming", "reconnecting"}
    /\ posted \in Seq(Frames)
    /\ sending \in Seq(Sends)
    /\ buffer \in Seq(Frames)
    /\ rec \in Recoveries
    /\ received \in Seq(Frames)
    /\ disturbed \in BOOLEAN
    /\ rec.pc = "replaying" => rec.frame \in Frames

PathTypeInv == ClockTypes /\ FrameTypes

clock == <<session, capturing, base, captured, held, heldOffset, spoken, rebased, openings>>
frames == <<state, posted, sending, buffer, rec, received, disturbed>>

LEMMA ClockUnchanged == ClockTypes /\ UNCHANGED clock => ClockTypes'
  BY DEF ClockTypes, clock

LEMMA FramesUnchanged == FrameTypes /\ UNCHANGED frames => FrameTypes'
  BY DEF FrameTypes, frames

LEMMA ClockInitially == Init => ClockTypes
<1> SUFFICES ASSUME Init PROVE ClockTypes
  OBVIOUS
<1>1. /\ FrameBlocks \in Nat \ {0} /\ MaxOpenings \in Nat
      /\ Silent \in [Channels -> Nat] /\ Silent \in [Channels -> 0..FrameBlocks - 1]
      /\ 0 \in Nat /\ 0 \in 0..MaxOpenings
  BY PathAssumption DEF Silent
<1>2. \A c \in Channels : ~(held[c] > 0)
  BY DEF Init, Silent
<1>3. /\ captured \in [Channels -> Nat] /\ held \in [Channels -> 0..FrameBlocks - 1]
      /\ base \in Nat /\ openings \in 0..MaxOpenings
  BY <1>1, Zenon DEF Init
<1>4. spoken \in [Sessions -> [Channels -> Nat]]
  BY <1>1, Zenon DEF Init
<1>5. heldOffset \in [Channels -> Nat \cup {None}]
  BY DEF Init
<1> QED
  BY <1>2, <1>3, <1>4, <1>5 DEF Init, ClockTypes

LEMMA FramesInitially == Init => FrameTypes
<1>1. NoRecovery \in Recoveries /\ NoRecovery.pc # "replaying"
  BY DEF NoRecovery, Recoveries
<1>2. <<>> \in Seq(Frames) /\ <<>> \in Seq(Sends)
  OBVIOUS
<1> QED
  BY <1>1, <1>2 DEF Init, FrameTypes

\* What Enqueues leaves in the buffer.
LEMMA EnqueuedTypes ==
  ASSUME buffer \in Seq(Frames), NEW f \in Frames, Enqueues(f)
  PROVE  buffer' \in Seq(Frames)
<1>1. PICK p \in 0..Len(buffer) : buffer' = Latest(InsertAt(buffer, p + 1, f))
  BY DEF Enqueues
<1>2. InsertAt(buffer, p + 1, f) \in Seq(Frames)
  BY Inserted
<1> QED
  BY <1>1, <1>2, Truncated

\* Where a frame may start is a number of blocks.
LEMMA StartTypes ==
  ASSUME ClockTypes, NEW c \in Channels
  PROVE  Start(c) \in Nat
<1>1. captured[c] \in Nat /\ held[c] \in Nat /\ (held[c] > 0 => heldOffset[c] \in Nat)
  BY PathAssumption DEF ClockTypes
<1> QED
  BY <1>1 DEF Start

LEMMA NextOffsetTypes ==
  ASSUME ClockTypes
  PROVE  NextOffset \in Nat
<1>1. base \in Nat /\ captured["mic"] \in Nat /\ captured["system"] \in Nat
  BY DEF ClockTypes, Channels
<1> QED
  BY <1>1 DEF NextOffset, Later

\* The capture and the pipeline.
LEMMA BlockTypes ==
  ASSUME PathTypeInv, NEW c \in Channels,
         BlockYieldsNothing(c) \/ BlockIsHeld(c) \/ BlockCompletesFrame(c)
  PROVE  PathTypeInv'
<1>1. ClockTypes /\ FrameTypes
  BY DEF PathTypeInv
<1>2. Start(c) \in Nat /\ FrameBlocks \in Nat \ {0}
  BY <1>1, StartTypes, PathAssumption
<1>3. captured \in [Channels -> Nat] /\ captured[c] \in Nat
      /\ held \in [Channels -> 0..FrameBlocks - 1] /\ held[c] \in 0..FrameBlocks - 1
      /\ heldOffset \in [Channels -> Nat \cup {None}]
      /\ \A d \in Channels : held[d] > 0 => heldOffset[d] \in Nat
  BY <1>1 DEF ClockTypes
<1>4. [captured EXCEPT ![c] = @ + 1] \in [Channels -> Nat]
  BY <1>3
<1>5. CASE BlockYieldsNothing(c)
  <2>1. ClockTypes'
    BY <1>1, <1>4, <1>5 DEF ClockTypes, BlockYieldsNothing, timeline
  <2> QED
    BY <1>1, <1>5, <2>1, FramesUnchanged DEF BlockYieldsNothing, PathTypeInv, frames
<1>6. CASE BlockIsHeld(c)
  <2>1. held' \in [Channels -> 0..FrameBlocks - 1]
        /\ heldOffset' \in [Channels -> Nat \cup {None}]
        /\ \A d \in Channels : held'[d] > 0 => heldOffset'[d] \in Nat
    BY <1>2, <1>3, <1>6 DEF BlockIsHeld, Completes
  <2>2. ClockTypes'
    BY <1>1, <1>4, <1>6, <2>1 DEF ClockTypes, BlockIsHeld, timeline
  <2> QED
    BY <1>1, <1>6, <2>2, FramesUnchanged DEF BlockIsHeld, PathTypeInv, frames
<1>7. CASE BlockCompletesFrame(c)
  <2>1. held' \in [Channels -> 0..FrameBlocks - 1]
        /\ heldOffset' \in [Channels -> Nat \cup {None}]
        /\ \A d \in Channels : held'[d] > 0 => heldOffset'[d] \in Nat
    BY <1>2, <1>3, <1>7 DEF BlockCompletesFrame
  <2>2. base + Start(c) \in Nat /\ base + Start(c) + FrameBlocks \in Nat
        /\ session \in Sessions
    BY <1>1, <1>2, <1>7 DEF BlockCompletesFrame, ClockTypes
  <2>3. spoken' \in [Sessions -> [Channels -> Nat]]
    <3> DEFINE end == base + Start(c) + FrameBlocks
    <3>1. spoken' = [spoken EXCEPT ![session][c] = end]
      BY <1>7 DEF BlockCompletesFrame
    <3> HIDE DEF end
    <3> QED
      BY <1>1, <2>2, <3>1 DEF ClockTypes, end
  <2>4. posted' \in Seq(Frames)
    <3> DEFINE f == [of |-> session, channel |-> c, offset |-> base + Start(c)]
    <3>1. posted' = Append(posted, f)
      BY <1>7 DEF BlockCompletesFrame
    <3>2. f \in Frames
      BY <2>2 DEF Frames
    <3> HIDE DEF f
    <3> QED
      BY <1>1, <3>1, <3>2 DEF FrameTypes
  <2>5. ClockTypes'
    BY <1>1, <1>4, <1>7, <2>1, <2>3 DEF ClockTypes, BlockCompletesFrame
  <2>6. FrameTypes'
    BY <1>1, <1>7, <2>4 DEF FrameTypes, BlockCompletesFrame
  <2> QED
    BY <2>5, <2>6 DEF PathTypeInv
<1> QED
  BY <1>5, <1>6, <1>7

\* The sends on a stream that is given up.
LEMMA StaleTypes ==
  ASSUME NEW s \in Seq(Sends)
  PROVE  Stale(s) \in Seq(Sends)
<1>1. ASSUME NEW i \in DOMAIN s PROVE [s[i] EXCEPT !.stale = TRUE] \in Sends
  <2>1. s[i] \in Sends
    BY <1>1
  <2> QED
    BY <2>1 DEF Sends
<1> DEFINE g(i) == [s[i] EXCEPT !.stale = TRUE]
<1>2. Stale(s) = [i \in 1..Len(s) |-> g(i)]
  BY DOMAIN s = 1..Len(s) DEF Stale
<1>3. \A i \in 1..Len(s) : g(i) \in Sends
  BY <1>1
<1> HIDE DEF g
<1> QED
  BY <1>2, <1>3

\* The sends of live frames.
LEMMA SendTypes ==
  ASSUME FrameTypes,
         \/ FrameIsBuffered \/ FrameIsDropped \/ SendBegins
         \/ \E i \in 1..Len(sending) : SendReturns(i) \/ SendRaises(i)
  PROVE  FrameTypes'
<1>1. /\ buffer \in Seq(Frames) /\ posted \in Seq(Frames) /\ sending \in Seq(Sends)
      /\ received \in Seq(Frames) /\ disturbed \in BOOLEAN
  BY DEF FrameTypes
<1>2. (disturbed \/ Shifts) \in BOOLEAN
  OBVIOUS
<1>3. CASE FrameIsBuffered
  <2>1. Head(posted) \in Frames /\ posted' \in Seq(Frames)
    BY <1>1, <1>3 DEF FrameIsBuffered
  <2>2. buffer' \in Seq(Frames)
    BY <1>1, <1>3, <2>1, EnqueuedTypes DEF FrameIsBuffered
  <2> QED
    BY <1>2, <1>3, <2>1, <2>2 DEF FrameIsBuffered, FrameTypes
<1>4. CASE FrameIsDropped
  BY <1>1, <1>4 DEF FrameIsDropped, FrameTypes
<1>5. CASE SendBegins
  <2> DEFINE e == [frame |-> Head(posted), stale |-> FALSE]
  <2>1. e \in Sends /\ posted' \in Seq(Frames)
    BY <1>1, <1>5 DEF SendBegins, Sends
  <2>2. sending' = Append(sending, e)
    BY <1>5 DEF SendBegins
  <2> HIDE DEF e
  <2>3. sending' \in Seq(Sends)
    BY <1>1, <2>1, <2>2
  <2> QED
    BY <1>5, <2>1, <2>3 DEF SendBegins, FrameTypes
<1>6. ASSUME NEW i \in 1..Len(sending), SendReturns(i) \/ SendRaises(i) PROVE FrameTypes'
  <2>1. RemoveAt(sending, i) \in Seq(Sends) /\ sending[i] \in Sends
    BY <1>1, Removed
  <2>2. sending[i].frame \in Frames
    BY <2>1 DEF Sends
  <2>3. CASE SendReturns(i)
    <3>1. received' \in Seq(Frames)
      BY <1>1, <2>2, <2>3 DEF SendReturns
    <3> QED
      BY <2>1, <2>3, <3>1 DEF SendReturns, FrameTypes
  <2>4. CASE SendRaises(i)
    <3>1. buffer' \in Seq(Frames)
      BY <1>1, <2>2, <2>4, EnqueuedTypes DEF SendRaises
    <3>2. CASE rec.pc = "idle"
      <4>1. sending' \in Seq(Sends)
        BY <2>1, <2>4, <3>2, StaleTypes DEF SendRaises
      <4>2. Recovering \in Recoveries /\ Recovering.pc # "replaying" /\ <<>> \in Seq(Frames)
        BY DEF Recovering, Recoveries
      <4> QED
        BY <2>4, <3>1, <3>2, <4>1, <4>2
        DEF SendRaises, RecoveryBegins, ForgetsStream, FrameTypes
    <3>3. CASE rec.pc # "idle"
      BY <1>2, <2>1, <2>4, <3>1, <3>3 DEF SendRaises, FrameTypes
    <3> QED
      BY <3>2, <3>3
  <2> QED
    BY <1>6, <2>3, <2>4
<1> QED
  BY <1>3, <1>4, <1>5, <1>6

\* Openings and ends of the session.
LEMMA SessionTypes ==
  ASSUME PathTypeInv,
         \/ OpenIsRefused
         \/ \E u \in Sessions : OpenSucceeds(u) \/ CaptureIsRefused(u)
         \/ SessionEnds \/ StreamFails
  PROVE  PathTypeInv'
<1>1. ClockTypes /\ FrameTypes
  BY DEF PathTypeInv
<1>2. MaxOpenings \in Nat /\ <<>> \in Seq(Frames)
  BY PathAssumption
<1>3. Stale(sending) \in Seq(Sends)
  BY <1>1, StaleTypes DEF FrameTypes
<1>4. Recovering \in Recoveries /\ NoRecovery \in Recoveries
      /\ Recovering.pc # "replaying" /\ NoRecovery.pc # "replaying"
  BY DEF Recovering, NoRecovery, Recoveries
<1>5. CASE OpenIsRefused
  <2>1. openings' \in 0..MaxOpenings
    BY <1>1, <1>2, <1>5 DEF OpenIsRefused, NotOpen, ClockTypes
  <2>2. ClockTypes'
    BY <1>1, <1>5, <2>1 DEF OpenIsRefused, ClockTypes, pipeline, timeline
  <2>3. FrameTypes'
    BY <1>1, <1>2, <1>5 DEF OpenIsRefused, FrameTypes
  <2> QED
    BY <2>2, <2>3 DEF PathTypeInv
<1>6. ASSUME NEW u \in Sessions, OpenSucceeds(u) \/ CaptureIsRefused(u) PROVE PathTypeInv'
  <2>1. Opens(u)
    BY <1>6 DEF OpenSucceeds, CaptureIsRefused
  <2>2. base' \in Nat
    BY <1>1, <2>1, NextOffsetTypes DEF Opens, SetPipeline
  <2>3. /\ captured' = Silent /\ held' = Silent
        /\ heldOffset' = [c \in Channels |-> None]
    BY <2>1 DEF Opens, SetPipeline
  <2>4. /\ captured' \in [Channels -> Nat] /\ held' \in [Channels -> 0..FrameBlocks - 1]
        /\ heldOffset' \in [Channels -> Nat \cup {None}]
        /\ \A c \in Channels : ~(held'[c] > 0)
    BY <2>3, PathAssumption DEF Silent
  <2>5. spoken' \in [Sessions -> [Channels -> Nat]]
    <3> DEFINE end == [c \in Channels |-> Later(spoken[u]["mic"], spoken[u]["system"])]
    <3>1. end \in [Channels -> Nat]
      BY <1>1 DEF ClockTypes, Later, Channels
    <3>2. spoken' = [spoken EXCEPT ![u] = end]
      BY <2>1 DEF Opens
    <3> HIDE DEF end
    <3> QED
      BY <1>1, <3>1, <3>2 DEF ClockTypes
  <2>6. rebased' \subseteq Sessions /\ openings' \in 0..MaxOpenings
        /\ session' \in Sessions /\ buffer' = <<>>
    BY <1>1, <1>2, <2>1 DEF Opens, NotOpen, ClockTypes
  <2>7. capturing' \in BOOLEAN
    BY <1>1, <1>6 DEF OpenSucceeds, CaptureIsRefused, ClockTypes
  <2>8. ClockTypes'
    BY <2>2, <2>4, <2>5, <2>6, <2>7 DEF ClockTypes
  <2>9. FrameTypes'
    BY <1>1, <1>2, <1>6, <2>6 DEF OpenSucceeds, CaptureIsRefused, FrameTypes
  <2> QED
    BY <2>8, <2>9 DEF PathTypeInv
<1>7. CASE SessionEnds
  <2>1. ClockTypes'
    BY <1>1, <1>7 DEF SessionEnds, ClockTypes, pipeline, timeline
  <2>2. FrameTypes'
    BY <1>1, <1>2, <1>3, <1>4, <1>7 DEF SessionEnds, ForgetsStream, FrameTypes
  <2> QED
    BY <2>1, <2>2 DEF PathTypeInv
<1>8. CASE StreamFails
  <2>1. ClockTypes'
    BY <1>1, <1>8 DEF StreamFails, ClockTypes, pipeline, timeline
  <2>2. FrameTypes'
    BY <1>1, <1>2, <1>3, <1>4, <1>8 DEF StreamFails, RecoveryBegins, ForgetsStream, FrameTypes
  <2> QED
    BY <2>1, <2>2 DEF PathTypeInv
<1> QED
  BY <1>5, <1>6, <1>7, <1>8

\* The replay.
LEMMA ReplayTypes ==
  ASSUME FrameTypes, Reconnects \/ ReplaySendReturns \/ ReplayFails
  PROVE  FrameTypes'
<1>1. /\ buffer \in Seq(Frames) /\ <<>> \in Seq(Frames) /\ rec \in Recoveries
      /\ received \in Seq(Frames)
  BY DEF FrameTypes
<1>2. ASSUME NEW n \in Nat \ {0}, ReplaysFrom(n)
      PROVE  /\ state' \in {"streaming", state}
             /\ buffer' \in Seq(Frames)
             /\ rec' \in Recoveries
             /\ rec'.pc = "replaying" => rec'.frame \in Frames
  <2>1. CASE n <= Len(buffer)
    <3> DEFINE f == buffer[n]
    <3>1. f \in Frames /\ n + 1 \in Nat \ {0}
      BY <1>1, <2>1
    <3>2. rec' = [rec EXCEPT !.pc = "replaying", !.next = n + 1, !.frame = f]
          /\ UNCHANGED <<state, buffer>>
      BY <1>2, <2>1 DEF ReplaysFrom
    <3> HIDE DEF f
    <3>3. rec' \in Recoveries /\ rec'.frame = f
      BY <1>1, <3>1, <3>2 DEF Recoveries
    <3> QED
      BY <1>1, <3>1, <3>2, <3>3
  <2>2. CASE ~(n <= Len(buffer))
    BY <1>1, <1>2, <2>2 DEF ReplaysFrom, NoRecovery, Recoveries
  <2> QED
    BY <2>1, <2>2
<1>3. CASE Reconnects
  BY <1>2, <1>3 DEF Reconnects, FrameTypes
<1>4. CASE ReplaySendReturns
  <2>1. rec.next \in Nat \ {0} /\ rec.frame \in Frames
    BY <1>1, <1>4 DEF ReplaySendReturns, FrameTypes, Recoveries
  <2>2. received' \in Seq(Frames)
    BY <1>1, <1>4, <2>1 DEF ReplaySendReturns
  <2> QED
    BY <1>2, <1>4, <2>1, <2>2 DEF ReplaySendReturns, FrameTypes
<1>5. CASE ReplayFails
  <2>1. Recovering \in Recoveries /\ Recovering.pc # "replaying"
    BY DEF Recovering, Recoveries
  <2> QED
    BY <1>1, <1>5, <2>1 DEF ReplayFails, ForgetsStream, FrameTypes
<1> QED
  BY <1>3, <1>4, <1>5

\* Every step keeps the types.
LEMMA PathTypesKept == PathTypeInv /\ [Next]_vars => PathTypeInv'
<1> SUFFICES ASSUME PathTypeInv, [Next]_vars PROVE PathTypeInv'
  OBVIOUS
<1>1. ClockTypes /\ FrameTypes
  BY DEF PathTypeInv
<1>2. CASE UNCHANGED vars
  BY <1>1, <1>2, ClockUnchanged, FramesUnchanged
  DEF vars, pipeline, timeline, clock, frames, PathTypeInv
<1>3. CASE \E c \in Channels : BlockYieldsNothing(c) \/ BlockIsHeld(c) \/ BlockCompletesFrame(c)
  BY <1>3, BlockTypes
<1>4. CASE \/ FrameIsBuffered \/ FrameIsDropped \/ SendBegins
           \/ \E i \in 1..Len(sending) : SendReturns(i) \/ SendRaises(i)
  <2>1. UNCHANGED clock
    BY <1>4 DEF FrameIsBuffered, FrameIsDropped, SendBegins, SendReturns, SendRaises,
                pipeline, timeline, clock
  <2> QED
    BY <1>1, <1>4, <2>1, ClockUnchanged, SendTypes DEF PathTypeInv
<1>5. CASE \/ OpenIsRefused
           \/ \E u \in Sessions : OpenSucceeds(u) \/ CaptureIsRefused(u)
           \/ SessionEnds \/ StreamFails
  BY <1>5, SessionTypes
<1>6. CASE Reconnects \/ ReplaySendReturns \/ ReplayFails
  <2>1. UNCHANGED clock
    BY <1>6 DEF Reconnects, ReplaySendReturns, ReplayFails, pipeline, timeline, clock
  <2> QED
    BY <1>1, <1>6, <2>1, ClockUnchanged, ReplayTypes DEF PathTypeInv
<1> QED
  BY <1>2, <1>3, <1>4, <1>5, <1>6 DEF Next

LEMMA PathTypeInvariant == Spec => []PathTypeInv
<1>1. Init => PathTypeInv
  BY ClockInitially, FramesInitially DEF PathTypeInv
<1> QED
  BY <1>1, PathTypesKept, PTL DEF Spec

\* The types hold for every length of the buffer and of a frame.
THEOREM PathTypes == Spec => []TypeOK
<1>1. PathTypeInv => TypeOK
  BY DEF PathTypeInv, ClockTypes, FrameTypes, TypeOK, Sends, Recoveries
<1> QED
  BY <1>1, PathTypeInvariant, PTL

-----------------------------------------------------------------------------
\* The reconnect buffer.

Ordered(b) == \A i, j \in 1..Len(b) : i < j => b[i].offset <= b[j].offset

\* The buffer with f in its place is ordered.
LEMMA InsertedInOrder ==
  ASSUME buffer \in Seq(Frames), Ordered(buffer), NEW f \in Frames,
         NEW p \in 0..Len(buffer), Behind(f, p),
         NEW all \in Seq(Frames), Len(all) = Len(buffer) + 1,
         \A i \in 1..p : all[i] = buffer[i], all[p + 1] = f,
         \A i \in p + 2..Len(buffer) + 1 : all[i] = buffer[i - 1]
  PROVE  Ordered(all)
<1>1. /\ \A i \in 1..Len(buffer) : buffer[i].offset \in Nat
      /\ f.offset \in Nat
  <2>1. \A i \in 1..Len(buffer) : buffer[i] \in Frames
    OBVIOUS
  <2> QED
    BY <2>1 DEF Frames
<1>2. /\ \A i \in 1..p : buffer[i].offset <= f.offset
      /\ \A i \in p + 1..Len(buffer) : f.offset < buffer[i].offset
  BY DEF Behind
<1>3. \A i \in p + 2..Len(buffer) + 1 : i - 1 \in p + 1..Len(buffer)
  OBVIOUS
<1>4. ASSUME NEW i \in 1..Len(all), NEW j \in 1..Len(all), i < j
      PROVE  all[i].offset <= all[j].offset
  <2>1. CASE j <= p
    <3>1. /\ i \in 1..Len(buffer) /\ j \in 1..Len(buffer)
          /\ all[i] = buffer[i] /\ all[j] = buffer[j]
      BY <1>4, <2>1
    <3> QED
      BY <1>4, <3>1 DEF Ordered
  <2>2. CASE j = p + 1
    BY <1>2, <1>4, <2>2
  <2>3. CASE j > p + 1
    <3>1. j - 1 \in p + 1..Len(buffer) /\ all[j] = buffer[j - 1]
      BY <1>3, <2>3
    <3>2. CASE i <= p
      <4>1. /\ i \in 1..Len(buffer) /\ j - 1 \in 1..Len(buffer) /\ i < j - 1
            /\ all[i] = buffer[i]
        BY <3>1, <3>2
      <4> QED
        BY <3>1, <4>1 DEF Ordered
    <3>3. CASE i = p + 1
      BY <1>1, <1>2, <3>1, <3>3
    <3>4. CASE i > p + 1
      <4>1. /\ i - 1 \in 1..Len(buffer) /\ j - 1 \in 1..Len(buffer) /\ i - 1 < j - 1
            /\ all[i] = buffer[i - 1]
        BY <1>3, <1>4, <3>1, <3>4
      <4> QED
        BY <3>1, <4>1 DEF Ordered
    <3> QED
      BY <3>2, <3>3, <3>4
  <2> QED
    BY <2>1, <2>2, <2>3
<1> QED
  BY <1>4 DEF Ordered

\* What Enqueues does to the buffer: it stays ordered and bounded, does not shrink, and
\* what is cut off starts no later than what is kept.
LEMMA Enqueued ==
  ASSUME buffer \in Seq(Frames), BufferIsBounded, NEW f \in Frames, Enqueues(f)
  PROVE  /\ buffer' \in Seq(Frames) /\ BufferIsBounded'
         /\ Len(buffer') >= Len(buffer)
         /\ \A x \in ToSet(buffer) \cup {f} :
              \/ x \in ToSet(buffer')
              \/ Len(buffer') = MaxFrames /\ \A j \in 1..MaxFrames : x.offset <= buffer'[j].offset
<1>1. PICK p \in 0..Len(buffer) : Behind(f, p) /\ buffer' = Latest(InsertAt(buffer, p + 1, f))
  BY DEF Enqueues
<1>2. PICK all \in Seq(Frames) :
        /\ all = InsertAt(buffer, p + 1, f)
        /\ Len(all) = Len(buffer) + 1
        /\ \A i \in 1..p : all[i] = buffer[i]
        /\ all[p + 1] = f
        /\ \A i \in p + 2..Len(buffer) + 1 : all[i] = buffer[i - 1]
  <2>1. \A q \in 0..Len(buffer) : \A e \in Frames : \E all \in Seq(Frames) :
          /\ all = InsertAt(buffer, q + 1, e)
          /\ Len(all) = Len(buffer) + 1
          /\ \A i \in 1..q : all[i] = buffer[i]
          /\ all[q + 1] = e
          /\ \A i \in q + 2..Len(buffer) + 1 : all[i] = buffer[i - 1]
    BY Inserted, Zenon
  <2> QED
    BY <2>1, Zenon
<1>3. Ordered(all)
  <2>1. Ordered(buffer)
    BY DEF BufferIsBounded, Ordered
  <2> QED
    BY <1>1, <1>2, <2>1, InsertedInOrder
<1>4. PICK x \in 0..Len(all) :
        /\ buffer' \in Seq(Frames) /\ Len(buffer') = Len(all) - x
        /\ \A i \in 1..Len(all) - x : buffer'[i] = all[x + i]
        /\ Len(buffer') <= MaxFrames
        /\ x > 0 => Len(buffer') = MaxFrames
  <2>1. buffer' = Latest(all)
    BY <1>1, <1>2
  <2> QED
    BY <2>1, Truncated
<1>5. MaxFrames \in Nat \ {0} /\ Len(buffer) <= MaxFrames
  BY PathAssumption DEF BufferIsBounded
<1>6. BufferIsBounded'
  <2>1. ASSUME NEW i \in 1..Len(buffer'), NEW j \in 1..Len(buffer'), i < j
        PROVE  buffer'[i].offset <= buffer'[j].offset
    <3>1. /\ buffer'[i] = all[x + i] /\ buffer'[j] = all[x + j]
          /\ x + i \in 1..Len(all) /\ x + j \in 1..Len(all) /\ x + i < x + j
      BY <1>4, <2>1
    <3> QED
      BY <1>3, <3>1 DEF Ordered
  <2> QED
    BY <1>4, <2>1 DEF BufferIsBounded
<1>7. Len(buffer') >= Len(buffer)
  BY <1>2, <1>4, <1>5
<1>8. ASSUME NEW k \in 1..Len(all)
      PROVE  \/ all[k] \in ToSet(buffer')
             \/ /\ Len(buffer') = MaxFrames
                /\ \A j \in 1..MaxFrames : all[k].offset <= buffer'[j].offset
  <2>1. CASE k > x
    <3>1. PICK i \in 1..Len(all) - x : x + i = k
      <4>1. k - x \in 1..Len(all) - x /\ x + (k - x) = k
        BY <2>1
      <4> QED
        BY <4>1
    <3>2. buffer'[i] = all[k]
      BY <1>4, <3>1
    <3>3. i \in DOMAIN buffer'
      BY <1>4
    <3> QED
      BY <3>2, <3>3 DEF ToSet
  <2>2. CASE k <= x
    <3>1. Len(buffer') = MaxFrames
      BY <1>4, <2>2
    <3>2. ASSUME NEW j \in 1..MaxFrames PROVE all[k].offset <= buffer'[j].offset
      <4>1. buffer'[j] = all[x + j] /\ x + j \in 1..Len(all) /\ k < x + j
        BY <1>4, <2>2, <3>1
      <4> QED
        BY <1>3, <4>1 DEF Ordered
    <3> QED
      BY <3>1, <3>2
  <2> QED
    BY <2>1, <2>2
<1>9. ASSUME NEW y \in ToSet(buffer) \cup {f} PROVE \E k \in 1..Len(all) : all[k] = y
  <2>1. CASE y = f
    BY <1>2, <2>1
  <2>2. CASE y \in ToSet(buffer)
    <3>1. PICK i \in 1..Len(buffer) : y = buffer[i]
      BY <2>2 DEF ToSet
    <3>2. CASE i <= p
      BY <1>2, <3>1, <3>2
    <3>3. CASE i > p
      <4>1. i + 1 \in p + 2..Len(buffer) + 1 /\ (i + 1) - 1 = i /\ i + 1 \in 1..Len(all)
        BY <1>2, <3>3
      <4>2. all[i + 1] = buffer[i]
        BY <1>2, <4>1
      <4> QED
        BY <3>1, <4>1, <4>2
    <3> QED
      BY <3>2, <3>3
  <2> QED
    BY <2>1, <2>2
<1> QED
  BY <1>4, <1>6, <1>7, <1>8, <1>9

\* BufferIsBounded is inductive, given the types.
LEMMA BoundKept == PathTypeInv /\ BufferIsBounded /\ [Next]_vars => BufferIsBounded'
<1> SUFFICES ASSUME PathTypeInv, BufferIsBounded, [Next]_vars PROVE BufferIsBounded'
  OBVIOUS
<1>1. /\ buffer \in Seq(Frames) /\ posted \in Seq(Frames) /\ sending \in Seq(Sends)
  BY DEF PathTypeInv, FrameTypes
<1>2. CASE buffer' = buffer
  BY <1>2 DEF BufferIsBounded
<1>3. CASE buffer' = <<>>
  BY <1>3, PathAssumption DEF BufferIsBounded
<1>4. CASE FrameIsBuffered
  <2>1. Head(posted) \in Frames
    BY <1>1, <1>4 DEF FrameIsBuffered
  <2> QED
    BY <1>1, <1>4, <2>1, Enqueued DEF FrameIsBuffered
<1>5. ASSUME NEW i \in 1..Len(sending), SendRaises(i) PROVE BufferIsBounded'
  <2>1. sending[i].frame \in Frames
    <3>1. sending[i] \in Sends
      BY <1>1
    <3> QED
      BY <3>1 DEF Sends
  <2> QED
    BY <1>1, <1>5, <2>1, Enqueued DEF SendRaises
<1>6. ASSUME Next PROVE \/ buffer' = buffer \/ buffer' = <<>> \/ FrameIsBuffered
                        \/ \E i \in 1..Len(sending) : SendRaises(i)
  BY <1>6 DEF Next, BlockYieldsNothing, BlockIsHeld, BlockCompletesFrame, FrameIsDropped,
    SendBegins, SendReturns, OpenIsRefused, OpenSucceeds, CaptureIsRefused, Opens, SessionEnds,
    StreamFails, Reconnects, ReplaySendReturns, ReplayFails, ReplaysFrom
<1>7. CASE UNCHANGED vars
  BY <1>2, <1>7 DEF vars
<1> QED
  BY <1>2, <1>3, <1>4, <1>5, <1>6, <1>7

\* However frames, failed sends and replays interleave, the buffer is ordered and holds no
\* more than its bound.
THEOREM BufferStaysBounded == Spec => []BufferIsBounded
<1>1. Init => BufferIsBounded
  BY PathAssumption DEF Init, BufferIsBounded
<1> QED
  BY <1>1, BoundKept, PathTypeInvariant, PTL DEF Spec

-----------------------------------------------------------------------------
\* The clock of the frames.

\* A frame in the making has no more blocks than were captured since it began, and in the
\* running session it begins no earlier than what was said before it.
SpeechInv ==
    /\ \A c \in Channels : held[c] > 0 => heldOffset[c] + held[c] <= captured[c]
    /\ session \in Sessions \ rebased =>
         \A c \in Channels : spoken[session][c] <= base + Start(c)

LEMMA BlockSpeech ==
  ASSUME ClockTypes, ClockTypes', SpeechInv, NEW c \in Channels,
         BlockYieldsNothing(c) \/ BlockIsHeld(c) \/ BlockCompletesFrame(c)
  PROVE  SpeechInv'
<1> DEFINE started(d) == IF held[d] = 0 THEN captured[d] ELSE heldOffset[d]
<1>1. /\ captured \in [Channels -> Nat] /\ held \in [Channels -> Nat]
      /\ heldOffset \in [Channels -> Nat \cup {None}] /\ base \in Nat
      /\ \A d \in Channels : held[d] > 0 => heldOffset[d] \in Nat
      /\ FrameBlocks \in Nat \ {0}
  BY PathAssumption DEF ClockTypes
<1>2. Start(c) \in Nat /\ Start(c) + held[c] <= captured[c]
  BY <1>1 DEF Start, SpeechInv
<1>3. UNCHANGED <<session, base, rebased>> /\ captured' = [captured EXCEPT ![c] = @ + 1]
  BY DEF BlockYieldsNothing, BlockIsHeld, BlockCompletesFrame, timeline
<1>4. ASSUME NEW d \in Channels, d # c
      PROVE  /\ captured'[d] = captured[d] /\ held'[d] = held[d]
             /\ heldOffset'[d] = heldOffset[d] /\ Start(d)' = Start(d)
             /\ session \in Sessions => spoken'[session][d] = spoken[session][d]
  <2>1. captured'[d] = captured[d] /\ held'[d] = held[d] /\ heldOffset'[d] = heldOffset[d]
    BY <1>1, <1>4 DEF BlockYieldsNothing, BlockIsHeld, BlockCompletesFrame
  <2>2. session \in Sessions => spoken'[session][d] = spoken[session][d]
    BY <1>4 DEF ClockTypes, BlockYieldsNothing, BlockIsHeld, BlockCompletesFrame, timeline
  <2> QED
    BY <2>1, <2>2 DEF Start
<1>5. captured'[c] = captured[c] + 1
  BY <1>1, <1>3
<1>6. /\ held'[c] > 0 => heldOffset'[c] + held'[c] <= captured'[c]
      /\ session \in Sessions \ rebased => spoken'[session][c] <= base + Start(c)'
  <2>1. session \in Sessions \ rebased =>
          spoken[session][c] \in Nat /\ spoken[session][c] <= base + Start(c)
    BY DEF SpeechInv, ClockTypes
  <2>2. CASE BlockYieldsNothing(c)
    <3>1. UNCHANGED <<held, heldOffset, spoken>>
      BY <2>2 DEF BlockYieldsNothing, timeline
    <3> QED
      BY <1>1, <1>2, <1>5, <2>1, <3>1 DEF Start
  <2>3. CASE BlockIsHeld(c)
    <3>1. held'[c] = held[c] + 1 /\ heldOffset'[c] = Start(c) /\ UNCHANGED spoken
      BY <1>1, <2>3 DEF BlockIsHeld, timeline
    <3>2. Start(c)' = Start(c)
      BY <1>1, <3>1 DEF Start
    <3> QED
      BY <1>1, <1>2, <1>5, <2>1, <3>1, <3>2
  <2>4. CASE BlockCompletesFrame(c)
    <3>1. held'[c] = 0 /\ held[c] + 1 = FrameBlocks
      BY <1>1, <2>4 DEF BlockCompletesFrame, Completes
    <3>2. Start(c)' = captured[c] + 1
      BY <1>5, <3>1 DEF Start
    <3>3. session \in Sessions => spoken'[session][c] = base + Start(c) + FrameBlocks
      BY <2>4 DEF BlockCompletesFrame, ClockTypes
    <3> QED
      BY <1>1, <1>2, <3>1, <3>2, <3>3
  <2> QED
    BY <2>2, <2>3, <2>4
<1>7. ASSUME NEW d \in Channels
      PROVE  /\ held'[d] > 0 => heldOffset'[d] + held'[d] <= captured'[d]
             /\ session \in Sessions \ rebased => spoken'[session][d] <= base + Start(d)'
  <2>1. CASE d = c
    BY <1>6, <2>1
  <2>2. CASE d # c
    BY <1>4, <2>2 DEF SpeechInv
  <2> QED
    BY <2>1, <2>2
<1> QED
  BY <1>3, <1>7 DEF SpeechInv

\* A resumed session goes on behind everything that was captured; any other begins with
\* nothing said, or its clock starts again.
LEMMA OpeningSpeech ==
  ASSUME ClockTypes, SpeechInv, NEW u \in Sessions, Opens(u)
  PROVE  SpeechInv'
<1>1. /\ captured \in [Channels -> Nat] /\ held \in [Channels -> Nat] /\ base \in Nat
      /\ \A c \in Channels : held[c] > 0 => heldOffset[c] \in Nat
      /\ spoken \in [Sessions -> [Channels -> Nat]]
  BY PathAssumption DEF ClockTypes
<1> DEFINE said == Later(spoken[u]["mic"], spoken[u]["system"])
<1>2. /\ session' = u /\ captured' = Silent /\ held' = Silent
      /\ base' = (IF u = session THEN NextOffset ELSE 0)
      /\ spoken' = [spoken EXCEPT ![u] = [c \in Channels |-> said]]
      /\ rebased' = IF u # session /\ spoken[u] # Silent THEN rebased \cup {u} ELSE rebased
  BY DEF Opens, SetPipeline
<1>3. \A c \in Channels : captured'[c] = 0 /\ held'[c] = 0 /\ Start(c)' = 0
                          /\ spoken'[u][c] = said
  BY <1>1, <1>2 DEF Silent, Start
<1>4. "mic" \in Channels /\ "system" \in Channels
  BY DEF Channels
<1>5. /\ spoken[u]["mic"] \in Nat /\ spoken[u]["system"] \in Nat
      /\ captured["mic"] \in Nat /\ captured["system"] \in Nat
  BY <1>1, <1>4
<1>6. CASE u = session /\ u \notin rebased
  <2>1. ASSUME NEW c \in Channels PROVE spoken[u][c] <= base + captured[c]
    <3>1. Start(c) \in Nat /\ Start(c) <= captured[c] /\ spoken[u][c] <= base + Start(c)
      BY <1>1, <1>6 DEF SpeechInv, Start
    <3>2. captured[c] \in Nat /\ spoken[u][c] \in Nat
      BY <1>1
    <3> QED
      BY <1>1, <3>1, <3>2
  <2>2. said <= base'
    BY <1>1, <1>2, <1>4, <1>5, <1>6, <2>1 DEF NextOffset, Later
  <2>3. base' + 0 = base'
    BY <1>1, <1>2, <1>5, <1>6 DEF NextOffset, Later
  <2> QED
    BY <1>2, <1>3, <2>2, <2>3 DEF SpeechInv
<1>7. CASE u # session /\ spoken[u] = Silent
  <2>1. said = 0 /\ base' = 0
    BY <1>2, <1>4, <1>7 DEF Later, Silent
  <2> QED
    BY <1>2, <1>3, <2>1 DEF SpeechInv
<1>8. CASE u \in rebased'
  BY <1>2, <1>3, <1>8 DEF SpeechInv
<1> QED
  BY <1>2, <1>6, <1>7, <1>8

LEMMA SpeechKept == PathTypeInv /\ SpeechInv /\ [Next]_vars => SpeechInv'
<1> SUFFICES ASSUME PathTypeInv, SpeechInv, [Next]_vars PROVE SpeechInv'
  OBVIOUS
<1>1. ClockTypes /\ ClockTypes'
  BY PathTypesKept DEF PathTypeInv
<1>2. CASE UNCHANGED clock
  BY <1>2 DEF SpeechInv, Start, clock
<1>3. ASSUME Next
      PROVE  \/ UNCHANGED clock
             \/ \E c \in Channels :
                  BlockYieldsNothing(c) \/ BlockIsHeld(c) \/ BlockCompletesFrame(c)
             \/ OpenIsRefused \/ SessionEnds
             \/ \E u \in Sessions : Opens(u)
  BY <1>3 DEF Next, FrameIsBuffered, FrameIsDropped, SendBegins, SendReturns, SendRaises,
    OpenSucceeds, CaptureIsRefused, StreamFails, Reconnects, ReplaySendReturns, ReplayFails,
    pipeline, timeline, clock
<1>4. CASE OpenIsRefused \/ SessionEnds
  BY <1>4 DEF OpenIsRefused, SessionEnds, SpeechInv, Start, pipeline, timeline
<1>5. CASE UNCHANGED vars
  BY <1>2, <1>5 DEF vars, pipeline, timeline, clock
<1> QED
  BY <1>1, <1>2, <1>3, <1>4, <1>5, BlockSpeech, OpeningSpeech

\* What a step appends to the scheduled frames starts where SpeechInv lets it.
LEMMA SpokenInOrder ==
  ASSUME PathTypeInv, SpeechInv, [Next]_vars, Len(posted') > Len(posted)
  PROVE  LET f == Last(posted')
         IN  f.of \in rebased \/ f.offset >= spoken[f.of][f.channel]
<1>1. posted \in Seq(Frames) /\ ClockTypes
  BY DEF PathTypeInv, FrameTypes
<1>2. \E c \in Channels : BlockCompletesFrame(c)
  <2>1. posted' # posted
    OBVIOUS
  <2>2. posted' # Tail(posted) \/ posted = <<>>
    BY <1>1
  <2> QED
    BY <2>1, <2>2 DEF vars, Next, BlockYieldsNothing, BlockIsHeld, FrameIsBuffered,
      FrameIsDropped, SendBegins, SendReturns, SendRaises, OpenIsRefused, OpenSucceeds,
      CaptureIsRefused, SessionEnds, StreamFails, Reconnects, ReplaySendReturns, ReplayFails
<1>3. PICK c \in Channels : BlockCompletesFrame(c)
  BY <1>2
<1> DEFINE g == [of |-> session, channel |-> c, offset |-> base + Start(c)]
<1>4. posted' = Append(posted, g) /\ session \in Sessions
  BY <1>1, <1>3 DEF BlockCompletesFrame, ClockTypes
<1>5. g.of = session /\ g.channel = c /\ g.offset = base + Start(c) /\ g \in Frames
  BY <1>1, <1>4, StartTypes DEF Frames, ClockTypes
<1> HIDE DEF g
<1>6. Last(posted') = g
  BY <1>1, <1>4, <1>5 DEF Last
<1>7. spoken[session][c] \in Nat /\ base + Start(c) \in Nat
  BY <1>1, <1>4, StartTypes DEF ClockTypes
<1>8. session \in rebased \/ base + Start(c) >= spoken[session][c]
  BY <1>4, <1>7 DEF SpeechInv
<1> QED
  BY <1>5, <1>6, <1>8

\* Frames of a channel never overlap, and what is said after a resume comes after all that
\* was said before it, for every length of a frame and any number of sessions.
THEOREM SpeechStaysApart == Spec => SpeechNeverOverlaps
<1>1. Init => SpeechInv
  BY PathAssumption DEF Init, SpeechInv, Silent
<1>2. Spec => []SpeechInv
  BY <1>1, SpeechKept, PathTypeInvariant, PTL DEF Spec
<1>3. PathTypeInv /\ SpeechInv /\ [Next]_vars =>
        [Len(posted') > Len(posted) =>
          LET f == Last(posted') IN
            f.of \in rebased \/ f.offset >= spoken[f.of][f.channel]]_vars
  BY SpokenInOrder
<1> QED
  BY <1>2, <1>3, PathTypeInvariant, PTL DEF Spec, SpeechNeverOverlaps

-----------------------------------------------------------------------------
\* What becomes of a frame.

\* Only a recovery has a buffer; and as long as the buffer has not shifted, the replay has
\* sent what lies below its position.
ReplayInv ==
    /\ rec.pc # "idle" <=> state = "reconnecting"
    /\ state # "reconnecting" => buffer = <<>>
    /\ rec.pc = "replaying" /\ ~disturbed =>
        /\ rec.next \in 2..Len(buffer) + 1
        /\ buffer[rec.next - 1] = rec.frame
        /\ \A i \in 1..rec.next - 2 : buffer[i] \in ToSet(received)

\* A frame that enters the buffer under a replay without shifting it.
LEMMA UndisturbedReplay ==
  ASSUME PathTypeInv, BufferIsBounded, ReplayInv, NEW f \in Frames, Enqueues(f),
         UNCHANGED <<state, rec, received>>, disturbed' = (disturbed \/ Shifts),
         rec.pc # "idle"
  PROVE  ReplayInv'
<1>1. /\ buffer \in Seq(Frames) /\ rec.next \in Nat \ {0}
  BY DEF PathTypeInv, FrameTypes, Recoveries
<1>2. Len(buffer') >= Len(buffer) /\ buffer' \in Seq(Frames)
  BY <1>1, Enqueued
<1>3. ASSUME rec.pc = "replaying", ~disturbed'
      PROVE  /\ rec.next \in 2..Len(buffer') + 1
             /\ buffer'[rec.next - 1] = rec.frame
             /\ \A i \in 1..rec.next - 2 : buffer'[i] \in ToSet(received)
  <2>1. /\ rec.next \in 2..Len(buffer) + 1
        /\ buffer[rec.next - 1] = rec.frame
        /\ \A i \in 1..rec.next - 2 : buffer[i] \in ToSet(received)
    BY <1>3 DEF ReplayInv
  <2>2. \A i \in 1..rec.next - 1 : buffer'[i] = buffer[i]
    BY <1>3 DEF Shifts
  <2>3. rec.next - 1 \in 1..rec.next - 1 /\ \A i \in 1..rec.next - 2 : i \in 1..rec.next - 1
    BY <2>1
  <2>4. rec.next \in 2..Len(buffer') + 1
    BY <1>1, <1>2, <2>1
  <2> QED
    BY <2>1, <2>2, <2>3, <2>4
<1> QED
  BY <1>3 DEF ReplayInv

\* A step of the list's iterator.
LEMMA ReplayedFurther ==
  ASSUME PathTypeInv, NEW n \in Nat \ {0}, ReplaysFrom(n), state = "reconnecting",
         ~disturbed' => \A i \in 1..n - 1 : buffer[i] \in ToSet(received')
  PROVE  ReplayInv'
<1>1. buffer \in Seq(Frames) /\ rec \in Recoveries
  BY DEF PathTypeInv, FrameTypes
<1>2. CASE n <= Len(buffer)
  <2>1. rec' = [rec EXCEPT !.pc = "replaying", !.next = n + 1, !.frame = buffer[n]]
        /\ UNCHANGED <<state, buffer>>
    BY <1>2 DEF ReplaysFrom
  <2>2. rec'.pc = "replaying" /\ rec'.next = n + 1 /\ rec'.frame = buffer[n]
    BY <1>1, <2>1 DEF Recoveries
  <2>3. (n + 1) - 1 = n /\ (n + 1) - 2 = n - 1 /\ n + 1 \in 2..Len(buffer) + 1
    BY <1>1, <1>2
  <2> QED
    BY <2>1, <2>2, <2>3 DEF ReplayInv
<1>3. CASE ~(n <= Len(buffer))
  BY <1>3 DEF ReplaysFrom, NoRecovery, ReplayInv
<1> QED
  BY <1>2, <1>3

LEMMA ReplayKept == PathTypeInv /\ BufferIsBounded /\ ReplayInv /\ [Next]_vars => ReplayInv'
<1> SUFFICES ASSUME PathTypeInv, BufferIsBounded, ReplayInv, [Next]_vars PROVE ReplayInv'
  OBVIOUS
<1>1. /\ posted \in Seq(Frames) /\ sending \in Seq(Sends) /\ received \in Seq(Frames)
      /\ buffer \in Seq(Frames) /\ rec \in Recoveries
      /\ state \in {"over", "streaming", "reconnecting"}
      /\ rec.pc = "replaying" => rec.frame \in Frames
  BY DEF PathTypeInv, FrameTypes
<1>2. \A i \in 1..Len(sending) : sending[i].frame \in Frames
  <2>1. \A i \in 1..Len(sending) : sending[i] \in Sends
    BY <1>1
  <2> QED
    BY <2>1 DEF Sends
<1>3. Recovering.pc = "waiting" /\ NoRecovery.pc = "idle"
  BY DEF Recovering, NoRecovery
<1>4. CASE UNCHANGED <<state, rec, buffer, received, disturbed>>
  BY <1>4 DEF ReplayInv
<1>5. CASE FrameIsBuffered
  <2>1. Head(posted) \in Frames
    BY <1>1, <1>5 DEF FrameIsBuffered
  <2> QED
    BY <1>5, <2>1, UndisturbedReplay DEF FrameIsBuffered, ReplayInv
<1>6. ASSUME NEW i \in 1..Len(sending), SendReturns(i) PROVE ReplayInv'
  <2>1. ToSet(received) \subseteq ToSet(received')
    BY <1>1, <1>2, <1>6 DEF SendReturns, ToSet
  <2> QED
    BY <1>6, <2>1 DEF SendReturns, ReplayInv
<1>7. ASSUME NEW i \in 1..Len(sending), SendRaises(i) PROVE ReplayInv'
  <2>1. CASE rec.pc = "idle"
    BY <1>3, <1>7, <2>1 DEF SendRaises, RecoveryBegins, ReplayInv
  <2>2. CASE rec.pc # "idle"
    BY <1>2, <1>7, <2>2, UndisturbedReplay DEF SendRaises
  <2> QED
    BY <2>1, <2>2
<1>8. CASE OpenIsRefused
  BY <1>8 DEF OpenIsRefused, NotOpen, ReplayInv
<1>9. ASSUME NEW u \in Sessions, OpenSucceeds(u) \/ CaptureIsRefused(u) PROVE ReplayInv'
  BY <1>9 DEF OpenSucceeds, CaptureIsRefused, Opens, NotOpen, ReplayInv
<1>10. CASE SessionEnds
  BY <1>3, <1>10 DEF SessionEnds, ReplayInv
<1>11. CASE StreamFails
  BY <1>3, <1>11 DEF StreamFails, RecoveryBegins, ReplayInv
<1>12. CASE Reconnects
  <2>1. ReplaysFrom(1) /\ state = "reconnecting"
    BY <1>12 DEF Reconnects, ReplayInv
  <2> QED
    BY <2>1, ReplayedFurther
<1>13. CASE ReplaySendReturns
  <2>1. /\ ReplaysFrom(rec.next) /\ state = "reconnecting" /\ rec.pc = "replaying"
        /\ received' = Append(received, rec.frame) /\ disturbed' = disturbed
    BY <1>13 DEF ReplaySendReturns, ReplayInv
  <2>2. rec.next \in Nat \ {0}
    BY <1>1 DEF Recoveries
  <2>3. ToSet(received') = ToSet(received) \cup {rec.frame}
    BY <1>1, <2>1, Appended
  <2>4. ASSUME ~disturbed, NEW i \in 1..rec.next - 1 PROVE buffer[i] \in ToSet(received')
    <3>1. CASE i = rec.next - 1
      BY <2>1, <2>3, <2>4, <3>1 DEF ReplayInv
    <3>2. CASE i # rec.next - 1
      <4>1. i \in 1..rec.next - 2
        BY <2>2, <3>2
      <4> QED
        BY <2>1, <2>3, <2>4, <4>1 DEF ReplayInv
    <3> QED
      BY <3>1, <3>2
  <2> QED
    BY <2>1, <2>2, <2>4, ReplayedFurther
<1>14. CASE ReplayFails
  BY <1>3, <1>14 DEF ReplayFails, ReplayInv
<1>15. ASSUME NEW c \in Channels,
              BlockYieldsNothing(c) \/ BlockIsHeld(c) \/ BlockCompletesFrame(c)
       PROVE  ReplayInv'
  BY <1>4, <1>15 DEF BlockYieldsNothing, BlockIsHeld, BlockCompletesFrame
<1>16. CASE FrameIsDropped \/ SendBegins
  BY <1>4, <1>16 DEF FrameIsDropped, SendBegins
<1>17. CASE UNCHANGED vars
  BY <1>4, <1>17 DEF vars
<1> QED
  BY <1>5, <1>6, <1>7, <1>8, <1>9, <1>10, <1>11, <1>12, <1>13, <1>14, <1>15, <1>16, <1>17
  DEF Next

InSending == {sending[i].frame : i \in DOMAIN sending}

\* What FramesAreKept allows of a frame that is waiting no more.
Gone(f) ==
    \/ f \in ToSet(received') \/ state' = "over"
    \/ \E i \in DOMAIN sending : sending[i] = [frame |-> f, stale |-> TRUE]
    \/ Len(buffer') = MaxFrames /\ \A j \in 1..MaxFrames : f.offset <= buffer'[j].offset
    \/ disturbed /\ buffer' = <<>>

Keeps == \A f \in Waiting \ Waiting' : Gone(f)

LEMMA WaitingParts ==
  /\ Waiting = ToSet(posted) \cup ToSet(buffer) \cup InSending
  /\ Waiting' = ToSet(posted') \cup ToSet(buffer') \cup InSending'
  /\ UNCHANGED sending => InSending' = InSending
  BY DEF Waiting, InSending

\* Giving a stream up changes no frame.
LEMMA StaleFrames ==
  ASSUME NEW s \in Seq(Sends), sending' = Stale(s)
  PROVE  InSending' = {s[i].frame : i \in DOMAIN s}
<1>1. DOMAIN sending' = DOMAIN s
  BY DEF Stale
<1>2. ASSUME NEW i \in DOMAIN s PROVE sending'[i].frame = s[i].frame
  <2>1. sending'[i] = [s[i] EXCEPT !.stale = TRUE] /\ s[i] \in Sends
    BY <1>2 DEF Stale
  <2> QED
    BY <2>1 DEF Sends
<1> QED
  BY <1>1, <1>2 DEF InSending

\* A send that is over leaves the others where they are.
LEMMA OthersKept ==
  ASSUME sending \in Seq(Sends), NEW i \in 1..Len(sending)
  PROVE  LET s == RemoveAt(sending, i)
         IN  /\ s \in Seq(Sends)
             /\ InSending \subseteq {s[k].frame : k \in DOMAIN s} \cup {sending[i].frame}
<1> DEFINE s == RemoveAt(sending, i)
<1>1. /\ s \in Seq(Sends)
      /\ \A j \in 1..Len(sending) : j # i => \E k \in DOMAIN s : s[k] = sending[j]
  BY Removed
<1> HIDE DEF s
<1>2. ASSUME NEW j \in DOMAIN sending
      PROVE  sending[j].frame \in {s[k].frame : k \in DOMAIN s} \cup {sending[i].frame}
  <2>1. j \in 1..Len(sending)
    OBVIOUS
  <2> QED
    BY <1>1, <2>1
<1> QED
  BY <1>1, <1>2 DEF InSending, s

\* Frames that wait on the loop or are being sent.
LEMMA SendsKeep ==
  ASSUME PathTypeInv, BufferIsBounded,
         \/ FrameIsBuffered \/ FrameIsDropped \/ SendBegins
         \/ \E i \in 1..Len(sending) : SendReturns(i) \/ SendRaises(i)
  PROVE  Keeps
<1>1. /\ posted \in Seq(Frames) /\ sending \in Seq(Sends) /\ received \in Seq(Frames)
      /\ buffer \in Seq(Frames)
  BY DEF PathTypeInv, FrameTypes
<1>2. /\ Waiting = ToSet(posted) \cup ToSet(buffer) \cup InSending
      /\ Waiting' = ToSet(posted') \cup ToSet(buffer') \cup InSending'
      /\ UNCHANGED sending => InSending' = InSending
  BY WaitingParts
<1>3. ASSUME NEW f \in Frames, Enqueues(f), NEW x \in ToSet(buffer) \cup {f}
      PROVE  x \in Waiting' \/ Gone(x)
  BY <1>1, <1>2, <1>3, Enqueued DEF Gone
<1>4. CASE FrameIsBuffered
  <2>1. /\ Head(posted) \in Frames /\ Enqueues(Head(posted))
        /\ ToSet(posted) = {Head(posted)} \cup ToSet(posted') /\ InSending' = InSending
    BY <1>1, <1>4, Headed DEF FrameIsBuffered, InSending
  <2> QED
    BY <1>2, <1>3, <2>1 DEF Keeps
<1>5. CASE FrameIsDropped
  BY <1>5 DEF FrameIsDropped, Keeps, Gone
<1>6. CASE SendBegins
  <2> DEFINE e == [frame |-> Head(posted), stale |-> FALSE]
  <2>1. /\ ToSet(posted) = {Head(posted)} \cup ToSet(posted') /\ Head(posted) \in Frames
        /\ sending' = Append(sending, e) /\ buffer' = buffer
    BY <1>1, <1>6, Headed DEF SendBegins
  <2>2. e \in Sends /\ e.frame = Head(posted)
    BY <2>1 DEF Sends
  <2> HIDE DEF e
  <2>3. InSending \cup {Head(posted)} \subseteq InSending'
    <3>1. /\ DOMAIN sending' = 1..Len(sending) + 1 /\ DOMAIN sending = 1..Len(sending)
          /\ \A i \in 1..Len(sending) : sending'[i] = sending[i]
          /\ sending'[Len(sending) + 1] = e
      BY <1>1, <2>1, <2>2
    <3>2. ASSUME NEW i \in DOMAIN sending PROVE sending[i].frame \in InSending'
      <4>1. i \in DOMAIN sending' /\ sending'[i] = sending[i]
        BY <3>1
      <4> QED
        BY <4>1 DEF InSending
    <3>3. e.frame \in InSending'
      <4>1. Len(sending) + 1 \in DOMAIN sending'
        BY <1>1, <3>1
      <4> QED
        BY <3>1, <4>1 DEF InSending
    <3> QED
      BY <2>2, <3>2, <3>3 DEF InSending
  <2> QED
    BY <1>2, <2>1, <2>3 DEF Keeps
<1>7. ASSUME NEW i \in 1..Len(sending), SendReturns(i) \/ SendRaises(i) PROVE Keeps
  <2> DEFINE s == RemoveAt(sending, i)
  <2>1. /\ s \in Seq(Sends)
        /\ InSending \subseteq {s[k].frame : k \in DOMAIN s} \cup {sending[i].frame}
    BY <1>1, OthersKept
  <2>2. /\ posted' = posted
        /\ sending' = s \/ sending' = Stale(s)
    BY <1>7 DEF SendReturns, SendRaises
  <2> HIDE DEF s
  <2>3. InSending \subseteq InSending' \cup {sending[i].frame}
    BY <2>1, <2>2, StaleFrames DEF InSending
  <2>4. sending[i] \in Sends /\ sending[i].frame \in Frames /\ i \in DOMAIN sending
    <3>1. sending[i] \in Sends /\ i \in DOMAIN sending
      BY <1>1
    <3> QED
      BY <3>1 DEF Sends
  <2>5. CASE SendReturns(i)
    <3>1. Gone(sending[i].frame)
      <4>1. CASE sending[i].stale
        <5>1. sending[i] = [frame |-> sending[i].frame, stale |-> TRUE]
          BY <2>4, <4>1 DEF Sends
        <5> QED
          BY <2>4, <5>1 DEF Gone
      <4>2. CASE ~sending[i].stale
        <5>1. sending[i].frame \in ToSet(received')
          BY <1>1, <2>4, <2>5, <4>2, Appended DEF SendReturns
        <5> QED
          BY <5>1 DEF Gone
      <4> QED
        BY <4>1, <4>2
    <3>2. buffer' = buffer
      BY <2>5 DEF SendReturns
    <3> QED
      BY <1>2, <2>2, <2>3, <3>1, <3>2 DEF Keeps
  <2>6. CASE SendRaises(i)
    <3>1. Enqueues(sending[i].frame)
      BY <2>6 DEF SendRaises
    <3> QED
      BY <1>2, <1>3, <2>2, <2>3, <2>4, <3>1 DEF Keeps
  <2> QED
    BY <1>7, <2>5, <2>6
<1> QED
  BY <1>4, <1>5, <1>6, <1>7

\* Openings, ends and the replay.
LEMMA ReplayKeeps ==
  ASSUME PathTypeInv, ReplayInv,
         \/ OpenIsRefused
         \/ \E u \in Sessions : OpenSucceeds(u) \/ CaptureIsRefused(u)
         \/ SessionEnds \/ StreamFails
         \/ Reconnects \/ ReplaySendReturns \/ ReplayFails
  PROVE  Keeps
<1>1. /\ sending \in Seq(Sends) /\ received \in Seq(Frames) /\ buffer \in Seq(Frames)
      /\ rec \in Recoveries /\ (rec.pc = "replaying" => rec.frame \in Frames)
  BY DEF PathTypeInv, FrameTypes
<1>2. /\ Waiting = ToSet(posted) \cup ToSet(buffer) \cup InSending
      /\ Waiting' = ToSet(posted') \cup ToSet(buffer') \cup InSending'
      /\ UNCHANGED sending => InSending' = InSending
  BY WaitingParts
<1>3. CASE OpenIsRefused \/ SessionEnds
  BY <1>3 DEF OpenIsRefused, SessionEnds, NotOpen, Keeps, Gone
<1>4. ASSUME NEW u \in Sessions, OpenSucceeds(u) \/ CaptureIsRefused(u) PROVE Keeps
  <2>1. buffer' = buffer /\ UNCHANGED <<posted, sending>>
    BY <1>4 DEF OpenSucceeds, CaptureIsRefused, Opens, NotOpen, ReplayInv
  <2> QED
    BY <1>2, <2>1 DEF Keeps
<1>5. CASE StreamFails
  <2>1. InSending' = InSending /\ UNCHANGED <<posted, buffer>>
    BY <1>1, <1>5, StaleFrames DEF StreamFails, InSending
  <2> QED
    BY <1>2, <2>1 DEF Keeps
<1>6. ASSUME NEW n \in Nat \ {0}, ReplaysFrom(n), UNCHANGED <<posted, sending>>,
             \A i \in 1..n - 1 : i <= Len(buffer) /\ ~disturbed =>
                                    buffer[i] \in ToSet(received')
      PROVE  Keeps
  <2>1. CASE n <= Len(buffer)
    <3>1. buffer' = buffer
      BY <1>6, <2>1 DEF ReplaysFrom
    <3> QED
      BY <1>2, <1>6, <3>1 DEF Keeps
  <2>2. CASE ~(n <= Len(buffer))
    <3>1. buffer' = <<>>
      BY <1>6, <2>2 DEF ReplaysFrom
    <3>2. ASSUME NEW f \in ToSet(buffer) PROVE Gone(f)
      <4>1. PICK i \in 1..Len(buffer) : f = buffer[i]
        BY <1>1 DEF ToSet
      <4>2. i \in 1..n - 1 /\ i <= Len(buffer)
        BY <1>1, <2>2
      <4> QED
        BY <1>6, <3>1, <4>1, <4>2 DEF Gone
    <3>3. ToSet(posted') = ToSet(posted) /\ InSending' = InSending
      BY <1>6 DEF InSending
    <3> QED
      BY <1>2, <3>2, <3>3 DEF Keeps
  <2> QED
    BY <2>1, <2>2
<1>7. CASE Reconnects
  BY <1>6, <1>7 DEF Reconnects
<1>8. CASE ReplaySendReturns
  <2>1. /\ rec.pc = "replaying" /\ received' = Append(received, rec.frame)
        /\ ReplaysFrom(rec.next) /\ UNCHANGED <<posted, sending>> /\ rec.next \in Nat \ {0}
    BY <1>1, <1>8 DEF ReplaySendReturns, Recoveries
  <2>2. ToSet(received') = ToSet(received) \cup {rec.frame}
    BY <1>1, <2>1, Appended
  <2>3. ASSUME NEW i \in 1..rec.next - 1, ~disturbed PROVE buffer[i] \in ToSet(received')
    <3>1. CASE i = rec.next - 1
      BY <2>1, <2>2, <2>3, <3>1 DEF ReplayInv
    <3>2. CASE i # rec.next - 1
      <4>1. i \in 1..rec.next - 2
        BY <2>1, <3>2
      <4> QED
        BY <2>1, <2>2, <2>3, <4>1 DEF ReplayInv
    <3> QED
      BY <3>1, <3>2
  <2> QED
    BY <1>6, <2>1, <2>3
<1>9. CASE ReplayFails
  BY <1>2, <1>9 DEF ReplayFails, Keeps
<1> QED
  BY <1>3, <1>4, <1>5, <1>7, <1>8, <1>9

\* Only a completed frame joins the scheduled ones.
LEMMA BlocksKeep ==
  ASSUME PathTypeInv, NEW c \in Channels,
         BlockYieldsNothing(c) \/ BlockIsHeld(c) \/ BlockCompletesFrame(c)
  PROVE  Keeps
<1>1. UNCHANGED <<sending, buffer>> /\ posted \in Seq(Frames) /\ ClockTypes
  BY DEF BlockYieldsNothing, BlockIsHeld, BlockCompletesFrame, PathTypeInv, FrameTypes
<1>2. ToSet(posted) \subseteq ToSet(posted')
  <2>1. CASE BlockCompletesFrame(c)
    <3> DEFINE f == [of |-> session, channel |-> c, offset |-> base + Start(c)]
    <3>1. posted' = Append(posted, f)
      BY <2>1 DEF BlockCompletesFrame
    <3>2. f \in Frames
      BY <1>1, <2>1, StartTypes DEF BlockCompletesFrame, ClockTypes, Frames
    <3> HIDE DEF f
    <3> QED
      BY <1>1, <3>1, <3>2, Appended
  <2>2. CASE BlockYieldsNothing(c) \/ BlockIsHeld(c)
    BY <2>2 DEF BlockYieldsNothing, BlockIsHeld
  <2> QED
    BY <2>1, <2>2
<1> QED
  BY <1>1, <1>2, WaitingParts DEF Keeps

\* No frame is lost between a failed send, a failed replay and the replay that clears the
\* buffer, for every length of the buffer and any number of sends in progress.
THEOREM FramesStayKept == Spec => FramesAreKept
<1>1. Init => ReplayInv /\ BufferIsBounded
  BY PathAssumption DEF Init, ReplayInv, BufferIsBounded, NoRecovery
<1>2. Spec => [](ReplayInv /\ BufferIsBounded)
  BY <1>1, ReplayKept, BoundKept, PathTypeInvariant, PTL DEF Spec
<1>3. PathTypeInv /\ ReplayInv /\ BufferIsBounded /\ [Next]_vars => [Keeps]_vars
  BY SendsKeep, ReplayKeeps, BlocksKeep DEF Next
<1>4. [Keeps]_vars =>
        [\A f \in Waiting \ Waiting' :
            \/ f \in ToSet(received') \/ state' = "over"
            \/ \E i \in DOMAIN sending : sending[i] = [frame |-> f, stale |-> TRUE]
            \/ Len(buffer') = MaxFrames /\ \A j \in 1..MaxFrames : f.offset <= buffer'[j].offset
            \/ disturbed /\ buffer' = <<>>]_vars
  BY DEF Keeps, Gone
<1> QED
  BY <1>2, <1>3, <1>4, PathTypeInvariant, PTL DEF Spec, FramesAreKept
-----------------------------------------------------------------------------
\* The order of the frames on a stream.

\* Frames of one channel of a session whose clock has never started again are told apart,
\* and put in order, by their offsets.
Alike(f, g) == f.of = g.of /\ f.channel = g.channel /\ f.of \notin rebased
Before(f, g) == Alike(f, g) => f.offset < g.offset
Apart(f, g) == Alike(f, g) => f.offset # g.offset
Said(f) == f.of \in rebased \/ f.offset < spoken[f.of][f.channel]

AllSaid(S) == \A f \in S : Said(f)
Ahead(S, T) == \A f \in S, g \in T : Before(f, g)
Disjoint(S, T) == \A f \in S, g \in T : Apart(f, g)
Increasing(s) == \A i, j \in 1..Len(s) : i < j => Before(s[i], s[j])
Distinct(s) == \A i, j \in 1..Len(s) : i # j => Apart(s[i], s[j])

\* The frames of the sends s, and of those on the present stream.
FramesOf(s) == {s[i].frame : i \in DOMAIN s}
FreshOf(s) == {s[i].frame : i \in {j \in DOMAIN s : ~s[j].stale}}
InTurn(s) == \A i, j \in 1..Len(s) : i < j => Before(s[i].frame, s[j].frame)

\* Whatever has left the queue of the loop comes before what waits there, the sends began in
\* their order, and no frame is in the buffer twice or both there and being sent.
WaitingLine(p, s, b) ==
    /\ AllSaid(FramesOf(s)) /\ AllSaid(ToSet(b))
    /\ Increasing(p) /\ InTurn(s) /\ Distinct(b)
    /\ Ahead(FramesOf(s), ToSet(p)) /\ Ahead(ToSet(b), ToSet(p))
    /\ Disjoint(ToSet(b), FramesOf(s))

\* The present stream has taken its frames in order, before those still being sent on it.
ReceivedLine(p, s, r) ==
    /\ AllSaid(ToSet(r)) /\ Increasing(r)
    /\ Ahead(ToSet(r), ToSet(p)) /\ Ahead(ToSet(r), FreshOf(s))

\* A recovery sends nothing but the buffer, from its beginning.
ReplayLine ==
    /\ state # "streaming" => FreshOf(sending) = {}
    /\ rec.pc = "waiting" => received = <<>>
    /\ rec.pc = "replaying" /\ ~disturbed =>
          /\ Len(received) = rec.next - 2
          /\ \A i \in 1..rec.next - 2 : received[i] = buffer[i]

LineInv ==
    /\ AllSaid(ToSet(posted))
    /\ WaitingLine(posted, sending, buffer)
    /\ ~disturbed => ReceivedLine(posted, sending, received)
    /\ ReplayLine

\* Everything that StreamInOrder rests on.
PathInv == PathTypeInv /\ BufferIsBounded /\ SpeechInv /\ ReplayInv /\ LineInv

LEMMA FrameFields ==
  ASSUME NEW f \in Frames
  PROVE  f.of \in Sessions /\ f.channel \in Channels /\ f.offset \in Nat
BY DEF Frames

LEMMA BeforeIsApart ==
  ASSUME NEW f \in Frames, NEW g \in Frames, Before(f, g)
  PROVE  Apart(f, g) /\ Apart(g, f)
BY FrameFields DEF Before, Apart, Alike

\* Elements of sequences.
LEMMA SetTypes ==
  ASSUME NEW s \in Seq(Frames)
  PROVE  /\ \A f \in ToSet(s) : f \in Frames /\ \E i \in 1..Len(s) : f = s[i]
         /\ \A i \in 1..Len(s) : s[i] \in ToSet(s) /\ s[i] \in Frames
  BY DEF ToSet

LEMMA SendFrames ==
  ASSUME NEW s \in Seq(Sends)
  PROVE  /\ \A i \in 1..Len(s) : s[i] \in Sends /\ s[i].frame \in Frames /\ s[i].stale \in BOOLEAN
         /\ \A i \in 1..Len(s) : s[i].frame \in FramesOf(s)
         /\ \A i \in 1..Len(s) : ~s[i].stale => s[i].frame \in FreshOf(s)
         /\ \A f \in FramesOf(s) : f \in Frames /\ \E i \in 1..Len(s) : f = s[i].frame
         /\ \A f \in FreshOf(s) : \E i \in 1..Len(s) : ~s[i].stale /\ f = s[i].frame
<1>1. DOMAIN s = 1..Len(s) /\ \A i \in 1..Len(s) : s[i] \in Sends
  OBVIOUS
<1>2. \A i \in 1..Len(s) : s[i].frame \in Frames /\ s[i].stale \in BOOLEAN
  BY <1>1 DEF Sends
<1> QED
  BY <1>1, <1>2 DEF FramesOf, FreshOf

\* A frame that comes after all of a sequence is put behind it.
LEMMA IncreasingAppended ==
  ASSUME NEW s \in Seq(Frames), NEW f \in Frames, Increasing(s), Ahead(ToSet(s), {f})
  PROVE  Increasing(Append(s, f))
<1> DEFINE t == Append(s, f)
<1>1. /\ Len(t) = Len(s) + 1 /\ Len(s) \in Nat
      /\ \A i \in 1..Len(s) : t[i] = s[i] /\ s[i] \in ToSet(s)
      /\ t[Len(s) + 1] = f
  BY SetTypes
<1> HIDE DEF t
<1>2. ASSUME NEW i \in 1..Len(t), NEW j \in 1..Len(t), i < j PROVE Before(t[i], t[j])
  <2>1. i \in 1..Len(s)
    BY <1>1, <1>2
  <2>2. CASE j \in 1..Len(s)
    BY <1>1, <1>2, <2>1, <2>2 DEF Increasing
  <2>3. CASE j \notin 1..Len(s)
    <3>1. j = Len(s) + 1
      BY <1>1, <2>3
    <3> QED
      BY <1>1, <2>1, <3>1 DEF Ahead
  <2> QED
    BY <2>2, <2>3
<1> QED
  BY <1>2 DEF Increasing, t

\* The first frame of a sequence comes before the others.
LEMMA IncreasingHeaded ==
  ASSUME NEW s \in Seq(Frames), s # <<>>, Increasing(s)
  PROVE  Increasing(Tail(s)) /\ Ahead({Head(s)}, ToSet(Tail(s)))
<1> DEFINE t == Tail(s)
<1>1. /\ t \in Seq(Frames) /\ Len(t) = Len(s) - 1 /\ Len(s) \in Nat \ {0} /\ Head(s) = s[1]
      /\ \A i \in 1..Len(s) - 1 : t[i] = s[i + 1]
  OBVIOUS
<1> HIDE DEF t
<1>2. ASSUME NEW i \in 1..Len(t)
      PROVE  i + 1 \in 1..Len(s) /\ t[i] = s[i + 1] /\ 1 < i + 1 /\ 1 \in 1..Len(s)
  BY <1>1
<1>3. Increasing(t)
  <2>1. ASSUME NEW i \in 1..Len(t), NEW j \in 1..Len(t), i < j PROVE Before(t[i], t[j])
    <3>1. i + 1 < j + 1
      BY <2>1
    <3> QED
      BY <1>2, <3>1 DEF Increasing
  <2> QED
    BY <2>1 DEF Increasing
<1>4. ASSUME NEW g \in ToSet(t) PROVE Before(s[1], g)
  <2>1. PICK i \in 1..Len(t) : g = t[i]
    BY <1>1, SetTypes
  <2> QED
    BY <1>2, <2>1 DEF Increasing
<1> QED
  BY <1>1, <1>3, <1>4 DEF Ahead, t

\* RemoveAt, by what is at each index.
LEMMA RemovedAt ==
  ASSUME NEW S, NEW s \in Seq(S), NEW i \in 1..Len(s)
  PROVE  /\ RemoveAt(s, i) \in Seq(S) /\ Len(RemoveAt(s, i)) = Len(s) - 1
         /\ \A j \in 1..Len(s) - 1 :
               RemoveAt(s, i)[j] = s[IF j < i THEN j ELSE j + 1]
<1>1. PICK front \in Seq(S), back \in Seq(S) :
        /\ RemoveAt(s, i) = front \o back
        /\ Len(front) = i - 1 /\ \A j \in 1..i - 1 : front[j] = s[j]
        /\ Len(back) = Len(s) - i /\ \A j \in 1..Len(s) - i : back[j] = s[i + j]
  <2> DEFINE f == SubSeq(s, 1, i - 1)
             b == SubSeq(s, i + 1, Len(s))
  <2>1. f \in Seq(S) /\ Len(f) = i - 1 /\ \A j \in 1..i - 1 : f[j] = s[j]
    OBVIOUS
  <2>2. b \in Seq(S) /\ Len(b) = Len(s) - i /\ \A j \in 1..Len(s) - i : b[j] = s[i + j]
    OBVIOUS
  <2>3. RemoveAt(s, i) = f \o b
    BY DEF RemoveAt
  <2> HIDE DEF f, b
  <2> QED
    BY <2>1, <2>2, <2>3
<1> DEFINE all == front \o back
<1>2. /\ all \in Seq(S) /\ Len(all) = Len(front) + Len(back)
      /\ \A j \in 1..Len(front) : all[j] = front[j]
      /\ \A j \in 1..Len(back) : all[Len(front) + j] = back[j]
  OBVIOUS
<1>3. all = RemoveAt(s, i)
  BY <1>1
<1> HIDE DEF all
<1>4. ASSUME NEW j \in 1..Len(s) - 1 PROVE all[j] = s[IF j < i THEN j ELSE j + 1]
  <2>1. CASE j < i
    <3>1. j \in 1..i - 1
      BY <2>1
    <3> QED
      BY <1>1, <1>2, <2>1, <3>1
  <2>2. CASE ~(j < i)
    <3>1. PICK k \in 1..Len(s) - i : (i - 1) + k = j
      <4>1. j - (i - 1) \in 1..Len(s) - i /\ (i - 1) + (j - (i - 1)) = j
        BY <2>2
      <4> QED
        BY <4>1
    <3>2. all[j] = back[k]
      BY <1>1, <1>2, <3>1
    <3>3. back[k] = s[i + k] /\ i + k = j + 1
      BY <1>1, <3>1
    <3> QED
      BY <2>2, <3>2, <3>3
  <2> QED
    BY <2>1, <2>2
<1>5. Len(all) = Len(s) - 1
  BY <1>1, <1>2
<1>6. \A j \in 1..Len(s) - 1 : all[j] = s[IF j < i THEN j ELSE j + 1]
  BY <1>4
<1> QED
  BY <1>2, <1>3, <1>5, <1>6

\* A send is over: the others stay in turn.
LEMMA SendOver ==
  ASSUME NEW s \in Seq(Sends), NEW i \in 1..Len(s), InTurn(s)
  PROVE  /\ RemoveAt(s, i) \in Seq(Sends) /\ InTurn(RemoveAt(s, i))
         /\ \A f \in FramesOf(RemoveAt(s, i)) : \E j \in 1..Len(s) : j # i /\ f = s[j].frame
         /\ \A f \in FreshOf(RemoveAt(s, i)) :
               \E j \in 1..Len(s) : j # i /\ ~s[j].stale /\ f = s[j].frame
<1> DEFINE t == RemoveAt(s, i)
           at(j) == IF j < i THEN j ELSE j + 1
<1>1. /\ t \in Seq(Sends) /\ Len(t) = Len(s) - 1 /\ Len(s) \in Nat
      /\ \A j \in 1..Len(s) - 1 : t[j] = s[at(j)]
  BY RemovedAt
<1>2. /\ \A j \in 1..Len(s) - 1 : at(j) \in 1..Len(s) /\ at(j) # i
      /\ \A j, k \in 1..Len(s) - 1 : j < k => at(j) < at(k)
  BY <1>1
<1> HIDE DEF t, at
<1>3. InTurn(t)
  BY <1>1, <1>2 DEF InTurn
<1>4. ASSUME NEW f \in FramesOf(t) PROVE \E j \in 1..Len(s) : j # i /\ f = s[j].frame
  <2>1. PICK k \in 1..Len(t) : f = t[k].frame
    BY <1>1, SendFrames
  <2> QED
    BY <1>1, <1>2, <2>1
<1>5. ASSUME NEW f \in FreshOf(t)
      PROVE  \E j \in 1..Len(s) : j # i /\ ~s[j].stale /\ f = s[j].frame
  <2>1. PICK k \in 1..Len(t) : ~t[k].stale /\ f = t[k].frame
    BY <1>1, SendFrames
  <2> QED
    BY <1>1, <1>2, <2>1
<1> QED
  BY <1>1, <1>3, <1>4, <1>5 DEF t

\* A stream is given up: its sends keep their frames and their turns.
LEMMA SendsGivenUp ==
  ASSUME NEW s \in Seq(Sends), InTurn(s)
  PROVE  /\ Stale(s) \in Seq(Sends) /\ InTurn(Stale(s))
         /\ FramesOf(Stale(s)) = FramesOf(s) /\ FreshOf(Stale(s)) = {}
<1> DEFINE t == Stale(s)
<1>1. t \in Seq(Sends) /\ DOMAIN t = DOMAIN s /\ DOMAIN s = 1..Len(s)
  BY StaleTypes DEF Stale
<1>2. Len(t) = Len(s)
  <2>1. DOMAIN t = 1..Len(t) /\ Len(t) \in Nat /\ Len(s) \in Nat
    BY <1>1
  <2> QED
    BY <1>1, <2>1
<1>3. ASSUME NEW i \in 1..Len(s) PROVE t[i].frame = s[i].frame /\ t[i].stale
  <2>1. t[i] = [s[i] EXCEPT !.stale = TRUE] /\ s[i] \in Sends
    BY <1>1 DEF Stale
  <2> QED
    BY <2>1 DEF Sends
<1> HIDE DEF t
<1>4. InTurn(t)
  BY <1>2, <1>3 DEF InTurn
<1>5. FramesOf(t) = FramesOf(s)
  BY <1>1, <1>2, <1>3 DEF FramesOf
<1>6. FreshOf(t) = {}
  BY <1>1, <1>3 DEF FreshOf
<1> QED
  BY <1>1, <1>4, <1>5, <1>6 DEF t

\* What Enqueues puts into the buffer.
LEMMA EnqueuedFrames ==
  ASSUME buffer \in Seq(Frames), NEW f \in Frames, Enqueues(f),
         Distinct(buffer), Disjoint(ToSet(buffer), {f})
  PROVE  /\ \A g \in ToSet(buffer') : g = f \/ g \in ToSet(buffer)
         /\ Distinct(buffer')
<1>1. PICK p \in 0..Len(buffer) : buffer' = Latest(InsertAt(buffer, p + 1, f))
  BY DEF Enqueues
<1>2. PICK all \in Seq(Frames) :
        /\ all = InsertAt(buffer, p + 1, f)
        /\ Len(all) = Len(buffer) + 1
        /\ \A i \in 1..p : all[i] = buffer[i]
        /\ all[p + 1] = f
        /\ \A i \in p + 2..Len(buffer) + 1 : all[i] = buffer[i - 1]
  <2>1. \A q \in 0..Len(buffer) : \A e \in Frames : \E all \in Seq(Frames) :
          /\ all = InsertAt(buffer, q + 1, e)
          /\ Len(all) = Len(buffer) + 1
          /\ \A i \in 1..q : all[i] = buffer[i]
          /\ all[q + 1] = e
          /\ \A i \in q + 2..Len(buffer) + 1 : all[i] = buffer[i - 1]
    BY Inserted, Zenon
  <2> QED
    BY <2>1, Zenon
<1>3. PICK x \in 0..Len(all) :
        /\ buffer' \in Seq(Frames) /\ Len(buffer') = Len(all) - x
        /\ \A i \in 1..Len(all) - x : buffer'[i] = all[x + i]
  <2>1. buffer' = Latest(all)
    BY <1>1, <1>2
  <2> QED
    BY <2>1, Truncated
<1> DEFINE from(k) == IF k <= p THEN k ELSE k - 1
<1>4. ASSUME NEW k \in 1..Len(all), k # p + 1
      PROVE  from(k) \in 1..Len(buffer) /\ all[k] = buffer[from(k)]
  <2>1. CASE k <= p
    BY <1>2, <2>1
  <2>2. CASE ~(k <= p)
    <3>1. k \in p + 2..Len(buffer) + 1 /\ k - 1 \in 1..Len(buffer)
      BY <1>2, <1>4, <2>2
    <3> QED
      BY <1>2, <2>2, <3>1
  <2> QED
    BY <2>1, <2>2
<1>5. ASSUME NEW k \in 1..Len(all), NEW l \in 1..Len(all), k # p + 1, l # p + 1, k # l
      PROVE  from(k) # from(l)
  BY <1>5
<1> HIDE DEF from
<1>6. ASSUME NEW i \in 1..Len(buffer) PROVE Apart(buffer[i], f) /\ Apart(f, buffer[i])
  <2>1. Apart(buffer[i], f)
    BY SetTypes DEF Disjoint
  <2> QED
    BY <2>1 DEF Apart, Alike
<1>7. ASSUME NEW k \in 1..Len(all), NEW l \in 1..Len(all), k # l PROVE Apart(all[k], all[l])
  <2>1. CASE k = p + 1
    BY <1>2, <1>4, <1>6, <1>7, <2>1
  <2>2. CASE l = p + 1
    BY <1>2, <1>4, <1>6, <1>7, <2>2
  <2>3. CASE k # p + 1 /\ l # p + 1
    BY <1>4, <1>5, <1>7, <2>3 DEF Distinct
  <2> QED
    BY <2>1, <2>2, <2>3
<1>8. ASSUME NEW i \in 1..Len(buffer') PROVE x + i \in 1..Len(all) /\ buffer'[i] = all[x + i]
  BY <1>3
<1>9. Distinct(buffer')
  <2>1. ASSUME NEW i \in 1..Len(buffer'), NEW j \in 1..Len(buffer'), i # j
        PROVE  Apart(buffer'[i], buffer'[j])
    <3>1. x + i # x + j
      BY <2>1
    <3> QED
      BY <1>7, <1>8, <3>1
  <2> QED
    BY <2>1 DEF Distinct
<1>10. ASSUME NEW g \in ToSet(buffer') PROVE g = f \/ g \in ToSet(buffer)
  <2>1. PICK i \in 1..Len(buffer') : g = buffer'[i]
    BY <1>3, SetTypes
  <2>2. x + i \in 1..Len(all) /\ g = all[x + i]
    BY <1>8, <2>1
  <2>3. CASE x + i = p + 1
    BY <1>2, <2>2, <2>3
  <2>4. CASE x + i # p + 1
    BY <1>4, <2>2, <2>4, SetTypes
  <2> QED
    BY <2>3, <2>4
<1> QED
  BY <1>9, <1>10

\* What has been said stays said: ends of speech only grow, and so do the sessions whose
\* clock has started again.
LEMMA SpeechGrows ==
  ASSUME ClockTypes, SpeechInv, [Next]_vars
  PROVE  /\ rebased \subseteq rebased'
         /\ \A f \in Frames : Said(f) => Said(f)'
<1>1. spoken \in [Sessions -> [Channels -> Nat]] /\ FrameBlocks \in Nat
  BY PathAssumption DEF ClockTypes
<1>2. CASE UNCHANGED timeline
  BY <1>2 DEF timeline, Said
<1>3. ASSUME NEW c \in Channels, BlockCompletesFrame(c)
      PROVE  rebased' = rebased /\ \A f \in Frames : Said(f) => Said(f)'
  <2> DEFINE end == base + Start(c) + FrameBlocks
  <2>1. /\ rebased' = rebased /\ spoken' = [spoken EXCEPT ![session][c] = end]
        /\ session \in Sessions /\ base + Start(c) \in Nat
    BY <1>3, StartTypes DEF BlockCompletesFrame, ClockTypes
  <2>2. session \in rebased \/ spoken[session][c] <= end
    <3>1. spoken[session][c] \in Nat
      BY <1>1, <2>1
    <3>2. session \notin rebased => spoken[session][c] <= base + Start(c)
      BY <2>1 DEF SpeechInv
    <3> QED
      BY <1>1, <2>1, <3>1, <3>2
  <2>3. end \in Nat
    BY <1>1, <2>1
  <2> HIDE DEF end
  <2>4. ASSUME NEW f \in Frames, Said(f) PROVE Said(f)'
    <3>1. f.of \in Sessions /\ f.channel \in Channels /\ f.offset \in Nat
      BY FrameFields
    <3>2. CASE f.of = session /\ f.channel = c
      <4>1. spoken'[f.of][f.channel] = end /\ spoken[session][c] \in Nat
        BY <1>1, <2>1, <3>2
      <4> QED
        BY <2>1, <2>2, <2>3, <2>4, <3>1, <3>2, <4>1 DEF Said
    <3>3. CASE ~(f.of = session /\ f.channel = c)
      <4>1. spoken'[f.of][f.channel] = spoken[f.of][f.channel]
        BY <1>1, <2>1, <3>1, <3>3
      <4> QED
        BY <2>1, <2>4, <4>1 DEF Said
    <3> QED
      BY <3>2, <3>3
  <2> QED
    BY <2>1, <2>4
<1>4. ASSUME NEW u \in Sessions, Opens(u)
      PROVE  rebased \subseteq rebased' /\ \A f \in Frames : Said(f) => Said(f)'
  <2> DEFINE said == Later(spoken[u]["mic"], spoken[u]["system"])
  <2>1. spoken' = [spoken EXCEPT ![u] = [c \in Channels |-> said]] /\ rebased \subseteq rebased'
    BY <1>4 DEF Opens
  <2>2. said \in Nat /\ \A c \in Channels : spoken[u][c] \in Nat /\ spoken[u][c] <= said
    BY <1>1 DEF Later, Channels
  <2> HIDE DEF said
  <2>3. ASSUME NEW f \in Frames, Said(f) PROVE Said(f)'
    <3>1. f.of \in Sessions /\ f.channel \in Channels /\ f.offset \in Nat
      BY FrameFields
    <3>2. CASE f.of = u
      <4>1. spoken'[f.of][f.channel] = said
        BY <1>1, <2>1, <3>1, <3>2
      <4> QED
        BY <2>1, <2>2, <2>3, <3>1, <3>2, <4>1 DEF Said
    <3>3. CASE f.of # u
      <4>1. spoken'[f.of][f.channel] = spoken[f.of][f.channel]
        BY <1>1, <2>1, <3>1, <3>3
      <4> QED
        BY <2>1, <2>3, <4>1 DEF Said
    <3> QED
      BY <3>2, <3>3
  <2> QED
    BY <2>1, <2>3
<1>5. \/ UNCHANGED timeline
      \/ \E c \in Channels : BlockCompletesFrame(c)
      \/ \E u \in Sessions : Opens(u)
  BY DEF Next, BlockYieldsNothing, BlockIsHeld, FrameIsBuffered, FrameIsDropped, SendBegins,
     SendReturns, SendRaises, OpenIsRefused, OpenSucceeds, CaptureIsRefused, SessionEnds,
     StreamFails, Reconnects, ReplaySendReturns, ReplayFails, vars
<1> QED
  BY <1>2, <1>3, <1>4, <1>5

\* So an order of frames is kept by every step.
LEMMA OrderKept ==
  ASSUME PathTypeInv, PathTypeInv', SpeechInv, [Next]_vars,
         \A f \in ToSet(posted') : Said(f) \/ Said(f)',
         WaitingLine(posted', sending', buffer'),
         ~disturbed' => ReceivedLine(posted', sending', received'),
         ReplayLine'
  PROVE  LineInv'
<1>1. /\ posted' \in Seq(Frames) /\ sending' \in Seq(Sends)
      /\ buffer' \in Seq(Frames) /\ received' \in Seq(Frames)
  BY DEF PathTypeInv, FrameTypes
<1>2. /\ rebased \subseteq rebased'
      /\ \A f \in Frames : Said(f) => Said(f)'
  BY SpeechGrows DEF PathTypeInv
<1>3. ASSUME NEW f, NEW g
      PROVE  (Before(f, g) => Before(f, g)') /\ (Apart(f, g) => Apart(f, g)')
  BY <1>2 DEF Before, Apart, Alike
<1>4. /\ \A f \in ToSet(posted') : f \in Frames
      /\ \A f \in FramesOf(sending') : f \in Frames
      /\ \A f \in ToSet(buffer') : f \in Frames
      /\ \A f \in ToSet(received') : f \in Frames
  BY <1>1, SetTypes, SendFrames
<1>5. WaitingLine(posted, sending, buffer)'
  BY <1>2, <1>3, <1>4
  DEF WaitingLine, AllSaid, Ahead, Disjoint, Increasing, InTurn, Distinct
<1>6. ~disturbed' => ReceivedLine(posted, sending, received)'
  BY <1>2, <1>3, <1>4 DEF ReceivedLine, AllSaid, Ahead, Increasing
<1>7. AllSaid(ToSet(posted))'
  BY <1>2, <1>4 DEF AllSaid
<1> QED
  BY <1>5, <1>6, <1>7 DEF LineInv

LEMMA BlocksInLine ==
  ASSUME PathInv, PathTypeInv', [Next]_vars, NEW c \in Channels,
         BlockYieldsNothing(c) \/ BlockIsHeld(c) \/ BlockCompletesFrame(c)
  PROVE  LineInv'
<1>0. /\ PathTypeInv /\ SpeechInv /\ LineInv /\ ClockTypes
      /\ posted \in Seq(Frames) /\ sending \in Seq(Sends)
      /\ buffer \in Seq(Frames) /\ received \in Seq(Frames)
  BY DEF PathInv, PathTypeInv, FrameTypes
<1>1. /\ sending' = sending /\ buffer' = buffer /\ received' = received
      /\ disturbed' = disturbed /\ state' = state /\ rec' = rec
  BY DEF BlockYieldsNothing, BlockIsHeld, BlockCompletesFrame
<1>2. ReplayLine'
  BY <1>0, <1>1 DEF LineInv, ReplayLine
<1>3. CASE posted' = posted
  <2>1. /\ \A f \in ToSet(posted') : Said(f)
        /\ WaitingLine(posted', sending', buffer')
        /\ ~disturbed' => ReceivedLine(posted', sending', received')
    BY <1>0, <1>1, <1>3 DEF LineInv, AllSaid
  <2> QED
    BY <1>0, <1>2, <2>1, OrderKept
<1>4. CASE BlockCompletesFrame(c)
  <2>1. /\ posted' = Append(posted, [of |-> session, channel |-> c, offset |-> base + Start(c)])
        /\ session \in Sessions /\ base + Start(c) \in Nat /\ FrameBlocks \in Nat \ {0}
        /\ rebased' = rebased
        /\ spoken' = [spoken EXCEPT ![session][c] = base + Start(c) + FrameBlocks]
        /\ spoken \in [Sessions -> [Channels -> Nat]]
    <3>1. /\ session \in Sessions /\ FrameBlocks \in Nat \ {0} /\ base \in Nat
          /\ spoken \in [Sessions -> [Channels -> Nat]]
      BY <1>0, <1>4, PathAssumption DEF BlockCompletesFrame, ClockTypes
    <3>2. Start(c) \in Nat
      BY <1>0, StartTypes
    <3>3. base + Start(c) \in Nat
      BY <3>1, <3>2
    <3> QED
      BY <1>4, <3>1, <3>3 DEF BlockCompletesFrame
  <2>2. PICK g \in Frames :
          /\ posted' = Append(posted, g)
          /\ g.of = session /\ g.channel = c /\ g.offset = base + Start(c)
    <3>1. [of |-> session, channel |-> c, offset |-> base + Start(c)] \in Frames
      BY <2>1 DEF Frames
    <3> QED
      BY <2>1, <3>1
  <2>3. Said(g)'
    <3>1. spoken'[session][c] = base + Start(c) + FrameBlocks
      BY <2>1
    <3>2. g.offset < spoken'[g.of][g.channel]
      BY <2>1, <2>2, <3>1
    <3> QED
      BY <3>2 DEF Said
  <2>4. ASSUME NEW f \in Frames, Said(f) PROVE Before(f, g)
    <3>1. f.offset \in Nat /\ spoken[session][c] \in Nat
      BY <2>1, <2>2, FrameFields
    <3>2. session \notin rebased => spoken[session][c] <= base + Start(c)
      BY <1>0, <2>1 DEF SpeechInv
    <3> QED
      BY <2>1, <2>2, <2>4, <3>1, <3>2 DEF Before, Alike, Said
  <2>5. /\ \A f \in ToSet(posted) : f \in Frames /\ Said(f)
        /\ \A f \in FramesOf(sending) : f \in Frames /\ Said(f)
        /\ \A f \in ToSet(buffer) : f \in Frames /\ Said(f)
        /\ ~disturbed => \A f \in ToSet(received) : f \in Frames /\ Said(f)
    BY <1>0, SetTypes, SendFrames DEF LineInv, WaitingLine, ReceivedLine, AllSaid
  <2>6. ToSet(posted') = ToSet(posted) \cup {g}
    BY <1>0, <2>2, Appended
  <2>7. Increasing(posted')
    <3>1. Increasing(posted) /\ Ahead(ToSet(posted), {g})
      BY <1>0, <2>4, <2>5 DEF LineInv, WaitingLine, Ahead
    <3> QED
      BY <1>0, <2>1, <2>2, <3>1, IncreasingAppended
  <2>8. WaitingLine(posted', sending', buffer')
    BY <1>0, <1>1, <2>4, <2>5, <2>6, <2>7 DEF LineInv, WaitingLine, Ahead
  <2>9. ~disturbed' => ReceivedLine(posted', sending', received')
    BY <1>0, <1>1, <2>4, <2>5, <2>6 DEF LineInv, ReceivedLine, Ahead
  <2>10. \A f \in ToSet(posted') : Said(f) \/ Said(f)'
    BY <2>3, <2>5, <2>6
  <2> QED
    BY <1>0, <1>2, <2>8, <2>9, <2>10, OrderKept
<1> QED
  BY <1>3, <1>4 DEF BlockYieldsNothing, BlockIsHeld

\* A frame leaves the queue of the loop: it comes before the others.
LEMMA HeadInLine ==
  ASSUME PathInv, posted # <<>>, posted' = Tail(posted)
  PROVE  /\ Head(posted) \in Frames /\ Said(Head(posted))
         /\ \A f \in ToSet(posted') : f \in ToSet(posted) /\ Said(f)
         /\ Increasing(posted')
         /\ Ahead({Head(posted)}, ToSet(posted'))
         /\ Ahead(FramesOf(sending), {Head(posted)})
         /\ Ahead(ToSet(buffer), {Head(posted)})
         /\ ~disturbed => Ahead(ToSet(received), {Head(posted)})
         /\ Ahead(FramesOf(sending), ToSet(posted'))
         /\ Ahead(ToSet(buffer), ToSet(posted'))
         /\ ~disturbed => Ahead(ToSet(received), ToSet(posted'))
<1>0. LineInv /\ posted \in Seq(Frames)
  BY DEF PathInv, PathTypeInv, FrameTypes
<1>1. Head(posted) \in Frames /\ ToSet(posted) = {Head(posted)} \cup ToSet(posted')
  BY <1>0, Headed
<1>2. Increasing(posted') /\ Ahead({Head(posted)}, ToSet(posted'))
  BY <1>0, IncreasingHeaded DEF LineInv, WaitingLine
<1> QED
  BY <1>0, <1>1, <1>2 DEF LineInv, WaitingLine, ReceivedLine, AllSaid, Ahead

\* A frame f enters the buffer, and is then neither waiting nor being sent.
LEMMA BufferedInLine ==
  ASSUME PathInv, NEW f \in Frames, Enqueues(f), Said(f),
         Disjoint(ToSet(buffer), {f}), Ahead({f}, ToSet(posted')),
         Ahead(ToSet(buffer), ToSet(posted')),
         NEW S, S \subseteq FramesOf(sending), \A g \in S : Apart(f, g)
  PROVE  /\ AllSaid(ToSet(buffer')) /\ Distinct(buffer')
         /\ Ahead(ToSet(buffer'), ToSet(posted')) /\ Disjoint(ToSet(buffer'), S)
<1>0. LineInv /\ buffer \in Seq(Frames)
  BY DEF PathInv, PathTypeInv, FrameTypes
<1>1. /\ \A g \in ToSet(buffer') : g = f \/ g \in ToSet(buffer)
      /\ Distinct(buffer')
  BY <1>0, EnqueuedFrames DEF LineInv, WaitingLine
<1> QED
  BY <1>0, <1>1 DEF LineInv, WaitingLine, AllSaid, Ahead, Disjoint

\* What the replay has sent is still below its position.
LEMMA ReplayInLine ==
  ASSUME PathInv, NEW f \in Frames, Enqueues(f),
         UNCHANGED <<state, rec, received>>, disturbed' = (disturbed \/ Shifts),
         FreshOf(sending') \subseteq FreshOf(sending)
  PROVE  ReplayLine'
<1>0. LineInv /\ ReplayInv /\ rec \in Recoveries /\ buffer \in Seq(Frames)
  BY DEF PathInv, PathTypeInv, FrameTypes
<1>1. ASSUME rec.pc = "replaying", ~disturbed'
      PROVE  /\ Len(received) = rec.next - 2
             /\ \A i \in 1..rec.next - 2 : received[i] = buffer'[i]
  <2>1. /\ Len(received) = rec.next - 2
        /\ \A i \in 1..rec.next - 2 : received[i] = buffer[i]
    BY <1>0, <1>1 DEF LineInv, ReplayLine
  <2>2. \A i \in 1..rec.next - 1 : buffer'[i] = buffer[i]
    BY <1>1 DEF Shifts
  <2>3. \A i \in 1..rec.next - 2 : i \in 1..rec.next - 1
    BY <1>0 DEF Recoveries
  <2> QED
    BY <2>1, <2>2, <2>3
<1> QED
  BY <1>0, <1>1 DEF LineInv, ReplayLine

\* What LineInv says of the frames on their way.
LEMMA OnTheWay ==
  ASSUME PathInv
  PROVE  /\ PathTypeInv /\ SpeechInv /\ ReplayInv /\ BufferIsBounded /\ ReplayLine
         /\ posted \in Seq(Frames) /\ sending \in Seq(Sends) /\ rec \in Recoveries
         /\ buffer \in Seq(Frames) /\ received \in Seq(Frames) /\ disturbed \in BOOLEAN
         /\ \A f \in ToSet(posted) : Said(f)
         /\ WaitingLine(posted, sending, buffer)
         /\ ~disturbed => ReceivedLine(posted, sending, received)
BY DEF PathInv, LineInv, PathTypeInv, FrameTypes, AllSaid

\* A stream that is new has taken nothing.
LEMMA NothingReceived ==
  ASSUME NEW p, NEW s
  PROVE  ReceivedLine(p, s, <<>>)
<1>1. ToSet(<<>>) = {} /\ Len(<<>>) = 0
  BY DEF ToSet
<1> QED
  BY <1>1 DEF ReceivedLine, AllSaid, Increasing, Ahead

\* An empty buffer.
LEMMA NothingBuffered ==
  ASSUME NEW p, NEW s, NEW b, WaitingLine(p, s, b)
  PROVE  WaitingLine(p, s, <<>>)
<1>1. ToSet(<<>>) = {} /\ Len(<<>>) = 0
  BY DEF ToSet
<1> QED
  BY <1>1 DEF WaitingLine, AllSaid, Distinct, Ahead, Disjoint

LEMMA BufferingInLine ==
  ASSUME PathInv, PathTypeInv', [Next]_vars, FrameIsBuffered
  PROVE  LineInv'
<1> DEFINE h == Head(posted)
<1>1. /\ posted # <<>> /\ state = "reconnecting" /\ Enqueues(h)
      /\ disturbed' = (disturbed \/ Shifts) /\ posted' = Tail(posted)
      /\ sending' = sending /\ received' = received /\ UNCHANGED <<state, rec, received>>
  BY DEF FrameIsBuffered
<1>2. /\ h \in Frames /\ Said(h)
      /\ \A f \in ToSet(posted') : f \in ToSet(posted) /\ Said(f)
      /\ Increasing(posted') /\ Ahead({h}, ToSet(posted'))
      /\ Ahead(FramesOf(sending), {h}) /\ Ahead(ToSet(buffer), {h})
      /\ Ahead(FramesOf(sending), ToSet(posted')) /\ Ahead(ToSet(buffer), ToSet(posted'))
      /\ ~disturbed => Ahead(ToSet(received), ToSet(posted'))
  BY <1>1, HeadInLine
<1> HIDE DEF h
<1>3. Disjoint(ToSet(buffer), {h}) /\ \A g \in FramesOf(sending) : Apart(h, g)
  BY <1>2, OnTheWay, SetTypes, SendFrames, BeforeIsApart DEF Ahead, Disjoint
<1>4. /\ AllSaid(ToSet(buffer')) /\ Distinct(buffer')
      /\ Ahead(ToSet(buffer'), ToSet(posted')) /\ Disjoint(ToSet(buffer'), FramesOf(sending))
  BY <1>1, <1>2, <1>3, BufferedInLine
<1>5. WaitingLine(posted', sending', buffer')
  BY <1>1, <1>2, <1>4, OnTheWay DEF WaitingLine
<1>6. ~disturbed' => ReceivedLine(posted', sending', received')
  BY <1>1, <1>2, OnTheWay DEF ReceivedLine
<1>7. ReplayLine'
  BY <1>1, <1>2, ReplayInLine
<1> QED
  BY <1>2, <1>5, <1>6, <1>7, OnTheWay, OrderKept

LEMMA DropInLine ==
  ASSUME PathInv, PathTypeInv', [Next]_vars, FrameIsDropped
  PROVE  LineInv'
<1>1. /\ posted # <<>> /\ posted' = Tail(posted)
      /\ sending' = sending /\ buffer' = buffer /\ received' = received
      /\ disturbed' = disturbed /\ state' = state /\ rec' = rec
  BY DEF FrameIsDropped
<1>2. /\ \A f \in ToSet(posted') : f \in ToSet(posted) /\ Said(f)
      /\ Increasing(posted')
      /\ Ahead(FramesOf(sending), ToSet(posted')) /\ Ahead(ToSet(buffer), ToSet(posted'))
      /\ ~disturbed => Ahead(ToSet(received), ToSet(posted'))
  BY <1>1, HeadInLine
<1>3. WaitingLine(posted', sending', buffer')
  BY <1>1, <1>2, OnTheWay DEF WaitingLine
<1>4. ~disturbed' => ReceivedLine(posted', sending', received')
  BY <1>1, <1>2, OnTheWay DEF ReceivedLine
<1>5. ReplayLine'
  BY <1>1, OnTheWay DEF ReplayLine
<1> QED
  BY <1>2, <1>3, <1>4, <1>5, OnTheWay, OrderKept

\* A send begins: it is the last in turn.
LEMMA SendBegun ==
  ASSUME NEW s \in Seq(Sends), NEW e \in Sends, InTurn(s), Ahead(FramesOf(s), {e.frame})
  PROVE  /\ InTurn(Append(s, e))
         /\ \A f \in FramesOf(Append(s, e)) : f = e.frame \/ f \in FramesOf(s)
         /\ \A f \in FreshOf(Append(s, e)) : f = e.frame \/ f \in FreshOf(s)
<1> DEFINE t == Append(s, e)
<1>1. /\ t \in Seq(Sends) /\ Len(t) = Len(s) + 1 /\ Len(s) \in Nat
      /\ \A i \in 1..Len(s) : t[i] = s[i]
      /\ t[Len(s) + 1] = e
  OBVIOUS
<1> HIDE DEF t
<1>2. ASSUME NEW i \in 1..Len(t)
      PROVE  (i \in 1..Len(s) /\ t[i] = s[i]) \/ (i = Len(s) + 1 /\ t[i] = e)
  BY <1>1
<1>3. ASSUME NEW i \in 1..Len(t), NEW j \in 1..Len(t), i < j
      PROVE  Before(t[i].frame, t[j].frame)
  <2>1. i \in 1..Len(s) /\ t[i] = s[i]
    BY <1>1, <1>3
  <2>2. CASE j \in 1..Len(s) /\ t[j] = s[j]
    BY <1>3, <2>1, <2>2 DEF InTurn
  <2>3. CASE t[j] = e
    BY <2>1, <2>3, SendFrames DEF Ahead
  <2> QED
    BY <1>2, <2>2, <2>3
<1>4. ASSUME NEW f \in FramesOf(t) PROVE f = e.frame \/ f \in FramesOf(s)
  <2>1. PICK i \in 1..Len(t) : f = t[i].frame
    BY <1>1, SendFrames
  <2> QED
    BY <1>2, <2>1, SendFrames
<1>5. ASSUME NEW f \in FreshOf(t) PROVE f = e.frame \/ f \in FreshOf(s)
  <2>1. PICK i \in 1..Len(t) : ~t[i].stale /\ f = t[i].frame
    BY <1>1, SendFrames
  <2> QED
    BY <1>2, <2>1, SendFrames
<1> QED
  BY <1>3, <1>4, <1>5 DEF InTurn, t

LEMMA SendBeginsInLine ==
  ASSUME PathInv, PathTypeInv', [Next]_vars, SendBegins
  PROVE  LineInv'
<1> DEFINE h == Head(posted)
           e == [frame |-> h, stale |-> FALSE]
<1>1. /\ posted # <<>> /\ posted' = Tail(posted) /\ state = "streaming"
      /\ sending' = Append(sending, e) /\ buffer' = buffer /\ received' = received
      /\ disturbed' = disturbed /\ state' = state /\ rec' = rec
  BY DEF SendBegins
<1>2. /\ h \in Frames /\ Said(h)
      /\ \A f \in ToSet(posted') : f \in ToSet(posted) /\ Said(f)
      /\ Increasing(posted') /\ Ahead({h}, ToSet(posted'))
      /\ Ahead(FramesOf(sending), {h}) /\ Ahead(ToSet(buffer), {h})
      /\ ~disturbed => Ahead(ToSet(received), {h})
      /\ Ahead(FramesOf(sending), ToSet(posted')) /\ Ahead(ToSet(buffer), ToSet(posted'))
      /\ ~disturbed => Ahead(ToSet(received), ToSet(posted'))
  BY <1>1, HeadInLine
<1>3. e \in Sends /\ e.frame = h
  BY <1>2 DEF Sends
<1> HIDE DEF h, e
<1>4. /\ InTurn(sending')
      /\ \A f \in FramesOf(sending') : f = h \/ f \in FramesOf(sending)
      /\ \A f \in FreshOf(sending') : f = h \/ f \in FreshOf(sending)
  <2>1. InTurn(sending) /\ sending \in Seq(Sends)
    BY OnTheWay DEF WaitingLine
  <2> QED
    BY <1>1, <1>2, <1>3, <2>1, SendBegun
<1>5. \A g \in ToSet(buffer) : Apart(g, h)
  BY <1>2, OnTheWay, SetTypes, BeforeIsApart DEF Ahead
<1>6. WaitingLine(posted', sending', buffer')
  BY <1>1, <1>2, <1>4, <1>5, OnTheWay DEF WaitingLine, AllSaid, Ahead, Disjoint
<1>7. ~disturbed' => ReceivedLine(posted', sending', received')
  BY <1>1, <1>2, <1>4, OnTheWay DEF ReceivedLine, Ahead
<1>8. ReplayLine'
  BY <1>1, OnTheWay DEF ReplayLine
<1> QED
  BY <1>2, <1>6, <1>7, <1>8, OnTheWay, OrderKept

\* A send that is over leaves the others in line, apart from its frame and, when it was
\* its stream's turn, behind it.
LEMMA OthersInLine ==
  ASSUME PathInv, NEW i \in 1..Len(sending)
  PROVE  LET s == RemoveAt(sending, i) IN
           /\ s \in Seq(Sends) /\ InTurn(s)
           /\ FramesOf(s) \subseteq FramesOf(sending) /\ FreshOf(s) \subseteq FreshOf(sending)
           /\ \A g \in FramesOf(s) : Apart(sending[i].frame, g)
           /\ (\A j \in 1..i - 1 : sending[j].stale # sending[i].stale) /\ ~sending[i].stale
              => Ahead({sending[i].frame}, FreshOf(s))
<1> DEFINE s == RemoveAt(sending, i)
<1>1. /\ sending \in Seq(Sends) /\ InTurn(sending)
  BY OnTheWay DEF WaitingLine
<1>2. /\ s \in Seq(Sends) /\ InTurn(s)
      /\ \A f \in FramesOf(s) : \E j \in 1..Len(sending) : j # i /\ f = sending[j].frame
      /\ \A f \in FreshOf(s) :
            \E j \in 1..Len(sending) : j # i /\ ~sending[j].stale /\ f = sending[j].frame
  BY <1>1, SendOver
<1> HIDE DEF s
<1>3. FramesOf(s) \subseteq FramesOf(sending) /\ FreshOf(s) \subseteq FreshOf(sending)
  <2>1. ASSUME NEW j \in 1..Len(sending)
        PROVE  /\ sending[j].frame \in FramesOf(sending)
               /\ ~sending[j].stale => sending[j].frame \in FreshOf(sending)
    BY <1>1, SendFrames
  <2> QED
    BY <1>2, <2>1
<1>4. ASSUME NEW j \in 1..Len(sending), j # i PROVE Apart(sending[i].frame, sending[j].frame)
  <2>1. sending[i].frame \in Frames /\ sending[j].frame \in Frames
    BY <1>1, SendFrames
  <2>2. Before(sending[i].frame, sending[j].frame) \/ Before(sending[j].frame, sending[i].frame)
    BY <1>1, <1>4 DEF InTurn
  <2> QED
    BY <2>1, <2>2, BeforeIsApart
<1>5. ASSUME \A j \in 1..i - 1 : sending[j].stale # sending[i].stale, ~sending[i].stale,
             NEW g \in FreshOf(s)
      PROVE  Before(sending[i].frame, g)
  <2>1. PICK j \in 1..Len(sending) : j # i /\ ~sending[j].stale /\ g = sending[j].frame
    BY <1>2, <1>5
  <2>2. sending[i].stale \in BOOLEAN /\ sending[j].stale \in BOOLEAN
    BY <1>1, SendFrames
  <2>3. j \notin 1..i - 1
    BY <1>5, <2>1, <2>2
  <2>4. i < j
    BY <2>1, <2>3
  <2> QED
    BY <1>1, <2>1, <2>4 DEF InTurn
<1> QED
  BY <1>2, <1>3, <1>4, <1>5 DEF Ahead, s

LEMMA SendReturnsInLine ==
  ASSUME PathInv, PathTypeInv', [Next]_vars, NEW i \in 1..Len(sending), SendReturns(i)
  PROVE  LineInv'
<1> DEFINE f == sending[i].frame
<1>1. /\ \A j \in 1..i - 1 : sending[j].stale # sending[i].stale
      /\ sending' = RemoveAt(sending, i)
      /\ received' = IF sending[i].stale THEN received ELSE Append(received, f)
      /\ posted' = posted /\ buffer' = buffer /\ disturbed' = disturbed
      /\ state' = state /\ rec' = rec
  BY DEF SendReturns
<1>2. /\ f \in Frames /\ f \in FramesOf(sending) /\ sending[i].stale \in BOOLEAN
      /\ ~sending[i].stale => f \in FreshOf(sending)
  BY OnTheWay, SendFrames
<1>3. /\ InTurn(sending') /\ sending' \in Seq(Sends)
      /\ FramesOf(sending') \subseteq FramesOf(sending)
      /\ FreshOf(sending') \subseteq FreshOf(sending)
      /\ ~sending[i].stale => Ahead({f}, FreshOf(sending'))
  BY <1>1, OthersInLine
<1> HIDE DEF f
<1>4. WaitingLine(posted', sending', buffer')
  BY <1>1, <1>3, OnTheWay DEF WaitingLine, AllSaid, Ahead, Disjoint
<1>5. CASE sending[i].stale
  <2>1. ~disturbed' => ReceivedLine(posted', sending', received')
    BY <1>1, <1>3, <1>5, OnTheWay DEF ReceivedLine, Ahead
  <2>2. ReplayLine'
    BY <1>1, <1>3, <1>5, OnTheWay DEF ReplayLine
  <2> QED
    BY <1>1, <1>4, <2>1, <2>2, OnTheWay, OrderKept
<1>6. CASE ~sending[i].stale
  <2>1. state = "streaming" /\ rec.pc = "idle"
    BY <1>2, <1>6, OnTheWay DEF ReplayLine, ReplayInv
  <2>2. ReplayLine'
    BY <1>1, <2>1 DEF ReplayLine
  <2>3. ASSUME ~disturbed PROVE ReceivedLine(posted', sending', received')
    <3>1. /\ AllSaid(ToSet(received)) /\ Increasing(received)
          /\ Ahead(ToSet(received), ToSet(posted)) /\ Ahead(ToSet(received), FreshOf(sending))
      BY <2>3, OnTheWay DEF ReceivedLine
    <3>2. received \in Seq(Frames) /\ received' = Append(received, f)
      BY <1>1, <1>6, OnTheWay
    <3>3. ToSet(received') = ToSet(received) \cup {f}
      BY <1>2, <3>2, Appended
    <3>4. Increasing(received')
      <4>1. Ahead(ToSet(received), {f})
        BY <1>2, <1>6, <3>1 DEF Ahead
      <4> QED
        BY <1>2, <3>1, <3>2, <4>1, IncreasingAppended
    <3>5. Said(f) /\ \A g \in ToSet(posted) : Before(f, g)
      BY <1>2, OnTheWay DEF WaitingLine, AllSaid, Ahead
    <3>6. AllSaid(ToSet(received'))
      BY <3>1, <3>3, <3>5 DEF AllSaid
    <3>7. Ahead(ToSet(received'), ToSet(posted'))
      BY <1>1, <3>1, <3>3, <3>5 DEF Ahead
    <3>8. Ahead(ToSet(received'), FreshOf(sending'))
      BY <1>3, <1>6, <3>1, <3>3 DEF Ahead
    <3> QED
      BY <3>4, <3>6, <3>7, <3>8 DEF ReceivedLine
  <2> QED
    BY <1>1, <1>4, <2>2, <2>3, OnTheWay, OrderKept
<1> QED
  BY <1>5, <1>6

LEMMA SendRaisesInLine ==
  ASSUME PathInv, PathTypeInv', [Next]_vars, NEW i \in 1..Len(sending), SendRaises(i)
  PROVE  LineInv'
<1> DEFINE f == sending[i].frame
           s == RemoveAt(sending, i)
<1>1. Enqueues(f) /\ posted' = posted
  BY DEF SendRaises
<1>2. f \in Frames /\ f \in FramesOf(sending)
  BY OnTheWay, SendFrames
<1>3. /\ s \in Seq(Sends) /\ InTurn(s)
      /\ FramesOf(s) \subseteq FramesOf(sending) /\ FreshOf(s) \subseteq FreshOf(sending)
      /\ \A g \in FramesOf(s) : Apart(f, g)
  BY OthersInLine
<1>4. CASE rec.pc = "idle"
  <2>1. /\ state' = "reconnecting" /\ rec' = Recovering /\ received' = <<>>
        /\ sending' = Stale(s)
    BY <1>4 DEF SendRaises, RecoveryBegins, ForgetsStream
  <2> HIDE DEF f, s
  <2>2. InTurn(sending') /\ FramesOf(sending') = FramesOf(s) /\ FreshOf(sending') = {}
    BY <1>3, <2>1, SendsGivenUp
  <2>3. ReplayLine'
    BY <2>1, <2>2 DEF ReplayLine, Recovering
  <2>4. ReceivedLine(posted', sending', received')
    BY <2>1, NothingReceived
  <2>5. WaitingLine(posted', sending', buffer')
    <3>1. /\ Said(f) /\ Disjoint(ToSet(buffer), {f}) /\ Ahead({f}, ToSet(posted'))
          /\ Ahead(ToSet(buffer), ToSet(posted'))
      BY <1>1, <1>2, OnTheWay DEF WaitingLine, AllSaid, Disjoint, Ahead
    <3>2. /\ AllSaid(ToSet(buffer')) /\ Distinct(buffer')
          /\ Ahead(ToSet(buffer'), ToSet(posted')) /\ Disjoint(ToSet(buffer'), FramesOf(s))
      BY <1>1, <1>2, <1>3, <3>1, BufferedInLine
    <3> QED
      BY <1>1, <1>3, <2>2, <3>2, OnTheWay DEF WaitingLine, AllSaid, Ahead
  <2> QED
    BY <1>1, <2>3, <2>4, <2>5, OnTheWay, OrderKept
<1>5. CASE rec.pc # "idle"
  <2>1. /\ sending' = s /\ disturbed' = (disturbed \/ Shifts)
        /\ received' = received /\ UNCHANGED <<state, rec, received>>
    BY <1>5 DEF SendRaises
  <2> HIDE DEF f, s
  <2>2. ReplayLine'
    BY <1>1, <1>2, <1>3, <2>1, ReplayInLine
  <2>3. ~disturbed' => ReceivedLine(posted', sending', received')
    BY <1>1, <1>3, <2>1, OnTheWay DEF ReceivedLine, Ahead
  <2>4. WaitingLine(posted', sending', buffer')
    <3>1. /\ Said(f) /\ Disjoint(ToSet(buffer), {f}) /\ Ahead({f}, ToSet(posted'))
          /\ Ahead(ToSet(buffer), ToSet(posted'))
      BY <1>1, <1>2, OnTheWay DEF WaitingLine, AllSaid, Disjoint, Ahead
    <3>2. /\ AllSaid(ToSet(buffer')) /\ Distinct(buffer')
          /\ Ahead(ToSet(buffer'), ToSet(posted')) /\ Disjoint(ToSet(buffer'), FramesOf(s))
      BY <1>1, <1>2, <1>3, <3>1, BufferedInLine
    <3> QED
      BY <1>1, <1>3, <2>1, <3>2, OnTheWay DEF WaitingLine, AllSaid, Ahead
  <2> QED
    BY <1>1, <2>2, <2>3, <2>4, OnTheWay, OrderKept
<1> QED
  BY <1>4, <1>5

\* Openings and ends of a session, and a stream that fails.
LEMMA SessionInLine ==
  ASSUME PathInv, PathTypeInv', [Next]_vars,
         \/ OpenIsRefused
         \/ \E u \in Sessions : OpenSucceeds(u) \/ CaptureIsRefused(u)
         \/ SessionEnds \/ StreamFails
  PROVE  LineInv'
<1>1. posted' = posted
  BY DEF OpenIsRefused, OpenSucceeds, CaptureIsRefused, Opens, SessionEnds, StreamFails
<1>2. CASE OpenIsRefused \/ \E u \in Sessions : OpenSucceeds(u) \/ CaptureIsRefused(u)
  <2>1. /\ state = "over" /\ buffer' = <<>> /\ sending' = sending /\ received' = received
        /\ rec' = rec /\ disturbed' = disturbed /\ (state' = state \/ state' = "streaming")
    BY <1>2 DEF OpenIsRefused, OpenSucceeds, CaptureIsRefused, Opens, NotOpen
  <2>2. WaitingLine(posted', sending', buffer')
    BY <1>1, <2>1, OnTheWay, NothingBuffered
  <2>3. ~disturbed' => ReceivedLine(posted', sending', received')
    BY <1>1, <2>1, OnTheWay
  <2>4. ReplayLine'
    BY <2>1, OnTheWay DEF ReplayLine, ReplayInv
  <2> QED
    BY <1>1, <2>2, <2>3, <2>4, OnTheWay, OrderKept
<1>3. CASE SessionEnds \/ StreamFails
  <2>1. /\ received' = <<>> /\ sending' = Stale(sending)
        /\ buffer' = buffer \/ buffer' = <<>>
        /\ rec' = NoRecovery \/ rec' = Recovering
    BY <1>3 DEF SessionEnds, StreamFails, RecoveryBegins, ForgetsStream
  <2>2. InTurn(sending') /\ FramesOf(sending') = FramesOf(sending) /\ FreshOf(sending') = {}
    BY <2>1, OnTheWay, SendsGivenUp DEF WaitingLine
  <2>3. WaitingLine(posted', sending', buffer)
    BY <1>1, <2>2, OnTheWay DEF WaitingLine
  <2>4. WaitingLine(posted', sending', buffer')
    BY <2>1, <2>3, NothingBuffered
  <2>5. ReceivedLine(posted', sending', received')
    BY <2>1, NothingReceived
  <2>6. ReplayLine'
    BY <2>1, <2>2 DEF ReplayLine, NoRecovery, Recovering
  <2> QED
    BY <1>1, <2>4, <2>5, <2>6, OnTheWay, OrderKept
<1> QED
  BY <1>2, <1>3

\* A step of the list's iterator, with what has been sent so far.
LEMMA ReplayedInLine ==
  ASSUME PathInv, PathTypeInv', [Next]_vars, NEW n \in Nat \ {0}, ReplaysFrom(n),
         state = "reconnecting", posted' = posted, sending' = sending,
         ~disturbed' => ReceivedLine(posted, sending, received'),
         ~disturbed' => /\ Len(received') = n - 1
                        /\ \A i \in 1..n - 1 : received'[i] = buffer[i]
  PROVE  LineInv'
<1>1. CASE n <= Len(buffer)
  <2>1. /\ rec' = [rec EXCEPT !.pc = "replaying", !.next = n + 1, !.frame = buffer[n]]
        /\ state' = state /\ buffer' = buffer
    BY <1>1 DEF ReplaysFrom
  <2>2. rec'.pc = "replaying" /\ rec'.next = n + 1
    BY <2>1, OnTheWay DEF Recoveries
  <2>3. (n + 1) - 2 = n - 1
    OBVIOUS
  <2>4. ReplayLine'
    BY <2>1, <2>2, <2>3, OnTheWay DEF ReplayLine
  <2>5. /\ WaitingLine(posted', sending', buffer')
        /\ ~disturbed' => ReceivedLine(posted', sending', received')
    BY <2>1, OnTheWay
  <2> QED
    BY <2>4, <2>5, OnTheWay, OrderKept
<1>2. CASE ~(n <= Len(buffer))
  <2>1. buffer' = <<>> /\ state' = "streaming" /\ rec' = NoRecovery
    BY <1>2 DEF ReplaysFrom
  <2>2. ReplayLine'
    BY <2>1 DEF ReplayLine, NoRecovery
  <2>3. WaitingLine(posted', sending', buffer')
    BY <2>1, OnTheWay, NothingBuffered
  <2>4. ~disturbed' => ReceivedLine(posted', sending', received')
    OBVIOUS
  <2> QED
    BY <2>2, <2>3, <2>4, OnTheWay, OrderKept
<1> QED
  BY <1>1, <1>2

\* The replay: the buffer is in order, so its next frame comes after those it has sent.
LEMMA ReplaysInLine ==
  ASSUME PathInv, PathTypeInv', [Next]_vars, Reconnects \/ ReplaySendReturns \/ ReplayFails
  PROVE  LineInv'
<1>1. posted' = posted /\ sending' = sending
  BY DEF Reconnects, ReplaySendReturns, ReplayFails
<1>2. CASE Reconnects
  <2>1. ReplaysFrom(1) /\ received' = <<>> /\ state = "reconnecting"
    BY <1>2, OnTheWay DEF Reconnects, ReplayLine, ReplayInv
  <2>2. ReceivedLine(posted, sending, received') /\ Len(received') = 1 - 1
    BY <2>1, NothingReceived
  <2> QED
    BY <1>1, <2>1, <2>2, ReplayedInLine
<1>3. CASE ReplaySendReturns
  <2>1. /\ rec.pc = "replaying" /\ received' = Append(received, rec.frame)
        /\ ReplaysFrom(rec.next) /\ disturbed' = disturbed /\ state = "reconnecting"
        /\ rec.next \in Nat \ {0}
    BY <1>3, OnTheWay DEF ReplaySendReturns, ReplayInv, Recoveries
  <2>2. ASSUME ~disturbed
        PROVE  /\ ReceivedLine(posted, sending, received')
               /\ Len(received') = rec.next - 1
               /\ \A i \in 1..rec.next - 1 : received'[i] = buffer[i]
    <3>1. /\ rec.next \in 2..Len(buffer) + 1 /\ buffer[rec.next - 1] = rec.frame
          /\ Len(received) = rec.next - 2
          /\ \A i \in 1..rec.next - 2 : received[i] = buffer[i]
      BY <2>1, <2>2, OnTheWay DEF ReplayInv, ReplayLine
    <3>2. /\ rec.next - 1 \in 1..Len(buffer) /\ rec.frame \in Frames
          /\ rec.frame \in ToSet(buffer)
      <4>1. rec.next - 1 \in 1..Len(buffer)
        BY <3>1, OnTheWay
      <4> QED
        BY <3>1, <4>1, OnTheWay, SetTypes
    <3>3. ASSUME NEW i \in 1..rec.next - 2 PROVE Before(received[i], rec.frame)
      <4>1. i \in 1..Len(buffer) /\ i < rec.next - 1
        BY <3>1, <3>2, OnTheWay
      <4>2. buffer[i].offset <= buffer[rec.next - 1].offset
        BY <3>2, <4>1, OnTheWay DEF BufferIsBounded
      <4>3. Apart(buffer[i], buffer[rec.next - 1])
        BY <3>2, <4>1, OnTheWay DEF WaitingLine, Distinct
      <4>4. buffer[i].offset \in Nat /\ rec.frame.offset \in Nat
        BY <3>2, <4>1, OnTheWay, SetTypes, FrameFields
      <4> QED
        BY <3>1, <4>2, <4>3, <4>4 DEF Apart, Before
    <3>4. Ahead(ToSet(received), {rec.frame})
      BY <3>1, <3>3, OnTheWay, SetTypes DEF Ahead
    <3>5. ReceivedLine(posted, sending, received)
      BY <2>2, OnTheWay
    <3>6. Increasing(received')
      BY <2>1, <3>2, <3>4, <3>5, OnTheWay, IncreasingAppended DEF ReceivedLine
    <3>7. ToSet(received') = ToSet(received) \cup {rec.frame}
      BY <2>1, <3>2, OnTheWay, Appended
    <3>8. Said(rec.frame) /\ \A g \in ToSet(posted) : Before(rec.frame, g)
      BY <3>2, OnTheWay DEF WaitingLine, AllSaid, Ahead
    <3>9. FreshOf(sending) = {}
      BY <2>1, OnTheWay DEF ReplayLine
    <3>10. ReceivedLine(posted, sending, received')
      BY <3>5, <3>6, <3>7, <3>8, <3>9 DEF ReceivedLine, AllSaid, Ahead
    <3>11. /\ Len(received') = Len(received) + 1
           /\ \A i \in 1..Len(received) : received'[i] = received[i]
           /\ received'[Len(received) + 1] = rec.frame
      BY <2>1, OnTheWay
    <3>12. Len(received') = rec.next - 1 /\ Len(received) + 1 = rec.next - 1
      BY <3>1, <3>11
    <3>13. ASSUME NEW i \in 1..rec.next - 1 PROVE received'[i] = buffer[i]
      <4>1. CASE i = rec.next - 1
        BY <3>1, <3>11, <3>12, <4>1
      <4>2. CASE i # rec.next - 1
        <5>1. i \in 1..rec.next - 2 /\ i \in 1..Len(received)
          BY <2>1, <3>1, <3>13, <4>2
        <5> QED
          BY <3>1, <3>11, <5>1
      <4> QED
        BY <4>1, <4>2
    <3> QED
      BY <3>10, <3>12, <3>13
  <2> QED
    BY <1>1, <2>1, <2>2, ReplayedInLine
<1>4. CASE ReplayFails
  <2>1. /\ rec' = Recovering /\ received' = <<>> /\ buffer' = buffer /\ state' = state
    BY <1>4 DEF ReplayFails, ForgetsStream
  <2>2. ReceivedLine(posted', sending', received')
    BY <2>1, NothingReceived
  <2>3. ReplayLine'
    BY <1>1, <2>1, OnTheWay DEF ReplayLine, Recovering
  <2>4. WaitingLine(posted', sending', buffer')
    BY <1>1, <2>1, OnTheWay
  <2> QED
    BY <1>1, <2>2, <2>3, <2>4, OnTheWay, OrderKept
<1> QED
  BY <1>2, <1>3, <1>4

LEMMA LineUnchanged ==
  ASSUME PathInv, PathTypeInv', UNCHANGED vars
  PROVE  LineInv'
<1>1. /\ posted' = posted /\ sending' = sending /\ buffer' = buffer /\ received' = received
      /\ disturbed' = disturbed /\ state' = state /\ rec' = rec
  BY DEF vars
<1>2. ReplayLine'
  BY <1>1, OnTheWay DEF ReplayLine
<1> QED
  BY <1>1, <1>2, OnTheWay, OrderKept

LEMMA LineKept == PathInv /\ PathTypeInv' /\ [Next]_vars => LineInv'
BY BlocksInLine, BufferingInLine, DropInLine, SendBeginsInLine, SendReturnsInLine,
   SendRaisesInLine, SessionInLine, ReplaysInLine, LineUnchanged
DEF Next

LEMMA LineInitially == Init => LineInv
<1> SUFFICES ASSUME Init PROVE LineInv
  OBVIOUS
<1>1. /\ posted = <<>> /\ sending = <<>> /\ buffer = <<>> /\ received = <<>>
      /\ state = "over" /\ rec.pc = "idle" /\ Len(<<>>) = 0
  BY DEF Init, NoRecovery
<1>2. ToSet(<<>>) = {} /\ FramesOf(<<>>) = {} /\ FreshOf(<<>>) = {}
  BY DEF ToSet, FramesOf, FreshOf
<1> QED
  BY <1>1, <1>2, NothingReceived
  DEF LineInv, WaitingLine, ReplayLine, AllSaid, Increasing, InTurn, Distinct, Ahead, Disjoint

\* A stream takes the frames of a channel in their order and none of them twice, unless the
\* buffer has shifted under its replay: for every length of the buffer, any number of
\* openings, of sends in progress and of failures (_forward_frame, _recover).
THEOREM StreamStaysInOrder == Spec => []StreamInOrder
<1>1. Init => PathInv
  <2>1. Init => BufferIsBounded /\ ReplayInv /\ SpeechInv
    BY PathAssumption DEF Init, ReplayInv, BufferIsBounded, NoRecovery, SpeechInv, Silent
  <2> QED
    BY <2>1, ClockInitially, FramesInitially, LineInitially DEF PathInv, PathTypeInv
<1>2. PathInv /\ [Next]_vars => PathInv'
  BY PathTypesKept, BoundKept, SpeechKept, ReplayKept, LineKept DEF PathInv
<1>3. PathInv => StreamInOrder
  <2> SUFFICES ASSUME PathInv, ~disturbed,
                      NEW i \in 1..Len(received), NEW j \in 1..Len(received), i < j,
                      received[i].of = received[j].of,
                      received[i].channel = received[j].channel,
                      received[i].of \notin rebased
               PROVE  received[i].offset < received[j].offset
    BY DEF StreamInOrder, InOrder
  <2>1. Before(received[i], received[j])
    BY OnTheWay DEF ReceivedLine, Increasing
  <2> QED
    BY <2>1 DEF Before, Alike
<1> QED
  BY <1>1, <1>2, <1>3, PTL DEF Spec
=============================================================================
