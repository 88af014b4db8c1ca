------------------------------- MODULE AudioPath -------------------------------
(***************************************************************************)
(* The path of the audio from a captured block to the remote stream: the   *)
(* AudioPipeline (audio.py), which gives every frame its offset, and the   *)
(* sends, the reconnect buffer and the replay of DesktopSessionController  *)
(* (session.py).  An action is the code between two awaits.                *)
(*                                                                         *)
(* Offsets count input blocks of 20 ms.  A frame is its session, channel   *)
(* and offset; its samples are left out.  Openings, ends and the steps of  *)
(* a reconnection that move no frame are one step each: how they overlap   *)
(* is the subject of SessionController.                                    *)
(***************************************************************************)
EXTENDS SequencesExt

CONSTANTS
    None,          \* Python's None
    Sessions,      \* remote sessions
    FrameBlocks,   \* OUTPUT_FRAME_MS / INPUT_BLOCK_MS, the blocks of a frame
    MaxFrames,     \* MAX_BUFFERED_AUDIO_MS / FRAME_DURATION_MS
    MaxBlocks,     \* bound: blocks of a channel between two openings
    MaxPosted,     \* bound: frames scheduled on the loop
    MaxSends,      \* bound: sends of live frames in progress
    MaxOpenings    \* bound: openings of a session

ASSUME PathAssumption ==
    /\ None \notin Nat \cup Sessions
    /\ {FrameBlocks, MaxFrames} \subseteq Nat \ {0}
    /\ {MaxBlocks, MaxPosted, MaxSends, MaxOpenings} \subseteq Nat

Channels == {"mic", "system"}
Frames == [of : Sessions, channel : Channels, offset : Nat]

VARIABLES
    state,        \* self.state; "over" stands for every state without a session
    session,      \* self._session_uuid
    capturing,    \* does the capture of the session run?
    base,         \* pipeline._base_offset_ms
    captured,     \* pipeline._capture_offsets_ms
    held,         \* the length of pipeline._buffers, in blocks
    heldOffset,   \* pipeline._buffer_offsets_ms
    posted,       \* frames whose _forward_frame is scheduled on the loop
    sending,      \* sends of live frames in progress, and whether on a replaced stream
    buffer,       \* self._buffered_frames
    rec,          \* the recovery: its place, the next position in the buffer, its frame
    received,     \* frames handed to the present stream, in order
    disturbed,    \* has the buffer shifted under the replay on this stream?
    spoken,       \* per session and channel: where the next frame may start
    rebased,      \* sessions resumed after another one, whose clock starts again
    openings      \* openings so far

pipeline == <<base, captured, held, heldOffset>>
timeline == <<spoken, rebased>>
vars == <<state, session, capturing, pipeline, posted, sending, buffer, rec, received,
          disturbed, timeline, openings>>

NoRecovery == [pc |-> "idle", next |-> 1, frame |-> None]
Recovering == [pc |-> "waiting", next |-> 1, frame |-> None]

TypeOK ==
    /\ state \in {"over", "streaming", "reconnecting"}
    /\ session \in Sessions \cup {None}
    /\ capturing \in BOOLEAN
    /\ base \in Nat
    /\ captured \in [Channels -> Nat]
    /\ held \in [Channels -> 0..FrameBlocks - 1]
    /\ heldOffset \in [Channels -> Nat \cup {None}]
    /\ posted \in Seq(Frames)
    /\ sending \in Seq([frame : Frames, stale : BOOLEAN])
    /\ buffer \in Seq(Frames)
    /\ rec \in [pc : {"idle", "waiting", "replaying"}, next : Nat \ {0},
                frame : Frames \cup {None}]
    /\ received \in Seq(Frames)
    /\ disturbed \in BOOLEAN
    /\ spoken \in [Sessions -> [Channels -> Nat]]
    /\ rebased \subseteq Sessions
    /\ openings \in 0..MaxOpenings

Silent == [c \in Channels |-> 0]

Init ==
    /\ state = "over" /\ session = None /\ capturing = FALSE
    /\ base = 0 /\ captured = Silent /\ held = Silent
    /\ heldOffset = [c \in Channels |-> None]
    /\ posted = <<>> /\ sending = <<>> /\ buffer = <<>>
    /\ rec = NoRecovery
    /\ received = <<>> /\ disturbed = FALSE
    /\ spoken = [u \in Sessions |-> Silent] /\ rebased = {}
    /\ openings = 0

-----------------------------------------------------------------------------
\* The pipeline.

Later(a, b) == IF a > b THEN a ELSE b

NextOfMicrophone == base + captured["mic"]   \* mutant: the other channel is ahead
NextOffset == base + Later(captured["mic"], captured["system"])

SetPipeline(b) ==
    /\ base' = b /\ captured' = Silent /\ held' = Silent
    /\ heldOffset' = [c \in Channels |-> None]

\* Where a frame that takes in the present block of channel c begins.
Start(c) == IF held[c] = 0 THEN captured[c] ELSE heldOffset[c]

\* Does the next block of channel c complete a frame?
CompletesLate(c) == held[c] + 1 > FrameBlocks   \* mutant: one block too late
Completes(c) == held[c] + 1 = FrameBlocks

\* The resampler keeps the block for later, or the block is lost to an exception,
\* which ends both sources without an event (capture.py:335).
BlockYieldsNothing(c) ==
    /\ capturing /\ captured[c] < MaxBlocks
    /\ captured' = [captured EXCEPT ![c] = @ + 1]
    /\ capturing' \in BOOLEAN
    /\ UNCHANGED <<state, session, base, held, heldOffset, posted, sending, buffer, rec,
                   received, disturbed, timeline, openings>>

BlockIsHeld(c) ==
    /\ capturing /\ captured[c] < MaxBlocks
    /\ ~Completes(c)
    /\ captured' = [captured EXCEPT ![c] = @ + 1]
    /\ held' = [held EXCEPT ![c] = @ + 1]
    /\ heldOffset' = [heldOffset EXCEPT ![c] = Start(c)]
    /\ UNCHANGED <<state, session, capturing, base, posted, sending, buffer, rec,
                   received, disturbed, timeline, openings>>

BlockCompletesFrame(c) ==
    /\ capturing /\ captured[c] < MaxBlocks
    /\ Completes(c)
    /\ Len(posted) < MaxPosted
    /\ captured' = [captured EXCEPT ![c] = @ + 1]
    /\ held' = [held EXCEPT ![c] = 0]
    /\ heldOffset' = [heldOffset EXCEPT ![c] = None]
    /\ LET start == base + Start(c) IN
       /\ posted' = Append(posted, [of |-> session, channel |-> c, offset |-> start])
       /\ spoken' = [spoken EXCEPT ![session][c] = start + FrameBlocks]
    /\ UNCHANGED <<state, session, capturing, base, sending, buffer, rec, received,
                   disturbed, rebased, openings>>

-----------------------------------------------------------------------------
\* The reconnect buffer.

\* A stable sort puts f behind the p frames that do not start later.
Behind(f, p) ==
    /\ \A i \in 1..p : buffer[i].offset <= f.offset
    /\ \A i \in p + 1..Len(buffer) : f.offset < buffer[i].offset

Excess(frames) == IF Len(frames) > MaxFrames THEN Len(frames) - MaxFrames ELSE 0
Oldest(frames) == SubSeq(frames, 1, Len(frames) - Excess(frames))   \* mutant: the end is cut off
Latest(frames) == SubSeq(frames, Excess(frames) + 1, Len(frames))

\* Mutant: a frame that arrives late goes to the end.
EnqueuesUnsorted(f) == buffer' = Latest(Append(buffer, f))

Enqueues(f) ==
    \E p \in 0..Len(buffer) :
        /\ Behind(f, p)
        /\ buffer' = Latest(InsertAt(buffer, p + 1, f))

\* The replay reads by index: what enters or is cut off below its position shifts the
\* frames it has read.
Shifts == \E i \in 1..rec.next - 1 : buffer'[i] # buffer[i]

-----------------------------------------------------------------------------
\* Live frames, _forward_frame.

\* The stream is given up: the sends on it have yet to return or raise.
Stale(sends) == [i \in DOMAIN sends |-> [sends[i] EXCEPT !.stale = TRUE]]
ForgetsStream == received' = <<>> /\ disturbed' = FALSE

\* _recover, up to its first sleep.
RecoveryBegins ==
    /\ state' = "reconnecting" /\ rec' = Recovering
    /\ ForgetsStream

FrameIsBuffered ==
    /\ posted # <<>> /\ state = "reconnecting"
    /\ Enqueues(Head(posted))
    /\ disturbed' = (disturbed \/ Shifts)
    /\ posted' = Tail(posted)
    /\ UNCHANGED <<state, session, capturing, pipeline, sending, rec, received, timeline,
                   openings>>

FrameIsDropped ==
    /\ posted # <<>> /\ state = "over"
    /\ posted' = Tail(posted)
    /\ UNCHANGED <<state, session, capturing, pipeline, sending, buffer, rec, received,
                   disturbed, timeline, openings>>

SendBegins ==
    /\ posted # <<>> /\ state = "streaming"
    /\ Len(sending) < MaxSends
    /\ posted' = Tail(posted)
    /\ sending' = Append(sending, [frame |-> Head(posted), stale |-> FALSE])
    /\ UNCHANGED <<state, session, capturing, pipeline, buffer, rec, received, disturbed,
                   timeline, openings>>

\* A stream takes frames in the order of the calls.
SendReturns(i) ==
    /\ \A j \in 1..i - 1 : sending[j].stale # sending[i].stale
    /\ sending' = RemoveAt(sending, i)
    /\ received' = IF sending[i].stale THEN received ELSE Append(received, sending[i].frame)
    /\ UNCHANGED <<state, session, capturing, pipeline, posted, buffer, rec, disturbed,
                   timeline, openings>>

\* A recovery in progress is not begun again.
SendRaises(i) ==
    /\ Enqueues(sending[i].frame)
    /\ IF rec.pc = "idle"
       THEN RecoveryBegins /\ sending' = Stale(RemoveAt(sending, i))
       ELSE /\ sending' = RemoveAt(sending, i)
            /\ disturbed' = (disturbed \/ Shifts)
            /\ UNCHANGED <<state, rec, received>>
    /\ UNCHANGED <<session, capturing, pipeline, posted, timeline, openings>>

-----------------------------------------------------------------------------
\* The session.

NotOpen == state = "over" /\ posted = <<>> /\ openings < MaxOpenings

\* _open of session u before the pipeline is set: the connection or its first event.
OpenIsRefused ==
    /\ NotOpen
    /\ buffer' = <<>>
    /\ openings' = openings + 1
    /\ UNCHANGED <<state, session, capturing, pipeline, posted, sending, rec, received,
                   disturbed, timeline>>

\* Only the session that the controller still holds goes on with its clock.  From here on
\* nothing of u may start before the end of what was said, on either channel.
Opens(u) ==
    /\ NotOpen
    /\ buffer' = <<>>
    /\ openings' = openings + 1
    /\ SetPipeline(IF u = session THEN NextOffset ELSE 0)
    /\ session' = u
    /\ spoken' = [spoken EXCEPT ![u] =
                    [c \in Channels |-> Later(spoken[u]["mic"], spoken[u]["system"])]]
    /\ rebased' = IF u # session /\ spoken[u] # Silent THEN rebased \cup {u} ELSE rebased

OpenSucceeds(u) ==
    /\ Opens(u)
    /\ state' = "streaming" /\ capturing' = TRUE
    /\ UNCHANGED <<posted, sending, rec, received, disturbed>>

CaptureIsRefused(u) ==
    /\ Opens(u)
    /\ UNCHANGED <<state, capturing, posted, sending, rec, received, disturbed>>

\* Every end of a session: stop, remote end, failure, loss of a device, last retry.
SessionEnds ==
    /\ state # "over"
    /\ state' = "over" /\ capturing' = FALSE
    /\ buffer' = <<>> /\ rec' = NoRecovery
    /\ ForgetsStream /\ sending' = Stale(sending)
    /\ UNCHANGED <<session, pipeline, posted, timeline, openings>>

StreamFails ==
    /\ state = "streaming"
    /\ RecoveryBegins /\ sending' = Stale(sending)
    /\ UNCHANGED <<session, capturing, pipeline, posted, buffer, timeline, openings>>

-----------------------------------------------------------------------------
\* The replay, _recover 333-344.

\* Mutant: live frames are let through while the replay is on.
ReplaysInTheOpen(n) ==
    IF n <= Len(buffer)
    THEN /\ rec' = [rec EXCEPT !.pc = "replaying", !.next = n + 1, !.frame = buffer[n]]
         /\ state' = "streaming" /\ UNCHANGED buffer
    ELSE /\ buffer' = <<>> /\ state' = "streaming" /\ rec' = NoRecovery

\* The list's iterator at position n: its next frame is sent, or the replay is complete.
ReplaysFrom(n) ==
    IF n <= Len(buffer)
    THEN /\ rec' = [rec EXCEPT !.pc = "replaying", !.next = n + 1, !.frame = buffer[n]]
         /\ UNCHANGED <<state, buffer>>
    ELSE /\ buffer' = <<>> /\ state' = "streaming" /\ rec' = NoRecovery

Reconnects ==
    /\ rec.pc = "waiting"
    /\ ReplaysFrom(1)
    /\ UNCHANGED <<session, capturing, pipeline, posted, sending, received, disturbed,
                   timeline, openings>>

ReplaySendReturns ==
    /\ rec.pc = "replaying"
    /\ received' = Append(received, rec.frame)
    /\ ReplaysFrom(rec.next)
    /\ UNCHANGED <<session, capturing, pipeline, posted, sending, disturbed, timeline,
                   openings>>

\* The stream is discarded and the next attempt begins; the buffer is kept.
ReplayFails ==
    /\ rec.pc = "replaying"
    /\ rec' = Recovering
    /\ ForgetsStream
    /\ UNCHANGED <<state, session, capturing, pipeline, posted, sending, buffer, timeline,
                   openings>>

Next ==
    \/ \E c \in Channels : BlockYieldsNothing(c) \/ BlockIsHeld(c) \/ BlockCompletesFrame(c)
    \/ FrameIsBuffered \/ FrameIsDropped \/ SendBegins
    \/ \E i \in 1..Len(sending) : SendReturns(i) \/ SendRaises(i)
    \/ OpenIsRefused
    \/ \E u \in Sessions : OpenSucceeds(u) \/ CaptureIsRefused(u)
    \/ SessionEnds \/ StreamFails
    \/ Reconnects \/ ReplaySendReturns \/ ReplayFails

Spec == Init /\ [][Next]_vars

-----------------------------------------------------------------------------
\* Properties.

\* However frames of the two channels, failed sends and replays interleave, the buffer is
\* ordered by offset and holds at most ten seconds (enqueue_audio_frames).
BufferIsBounded ==
    /\ Len(buffer) <= MaxFrames
    /\ \A i, j \in 1..Len(buffer) : i < j => buffer[i].offset <= buffer[j].offset

Waiting == ToSet(posted) \cup ToSet(buffer) \cup {sending[i].frame : i \in DOMAIN sending}

\* A captured frame of a session that goes on is lost only to the bound, and then nothing
\* older is kept, or to a replay whose buffer has shifted: it is not lost between a failed
\* send, a failed replay and the replay that clears the buffer (_forward_frame, _recover).
FramesAreKept ==
    [][\A f \in Waiting \ Waiting' :
        \/ f \in ToSet(received') \/ state' = "over"
        \/ \E i \in DOMAIN sending : sending[i] = [frame |-> f, stale |-> TRUE]
        \/ Len(buffer') = MaxFrames /\ \A j \in 1..MaxFrames : f.offset <= buffer'[j].offset
        \/ disturbed /\ buffer' = <<>>]_vars

InOrder ==
    \A i, j \in 1..Len(received) :
        /\ i < j
        /\ received[i].of = received[j].of /\ received[i].channel = received[j].channel
        /\ received[i].of \notin rebased
        => received[i].offset < received[j].offset

\* On one stream the remote gets the frames of a channel in order and none twice, unless
\* the buffer has shifted under the replay (_recover, line 335), as long as the clock of the
\* session has not started again: a send that outlives its session may be followed by one
\* of the same offset when the user comes back to it from another session.
StreamInOrder == disturbed \/ InOrder

\* The test of the replay expects the buffered frames "in order" (test_session.py:204).
ReplayInOrder == InOrder

\* Frames of a channel do not overlap, and what is said after a resume comes after
\* everything said before it on either channel, as long as the user opens no other session
\* in between (feed, next_offset_ms, _open).
SpeechNeverOverlaps ==
    [][Len(posted') > Len(posted) =>
        LET f == Last(posted') IN
            f.of \in rebased \/ f.offset >= spoken[f.of][f.channel]]_vars
=============================================================================
