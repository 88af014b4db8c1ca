------------------------------- MODULE PageView -------------------------------
(***************************************************************************)
(* The page's view of the capture and of its transcript (static/app.js):   *)
(* what the events, the bootstrap of each event socket and the answers of  *)
(* its requests, which come on connections of their own, make of it.       *)
(*                                                                         *)
(* The controller is reduced to what it publishes: how it gets from one    *)
(* state to the next is the subject of SessionController.  An utterance is *)
(* its session and its number on one channel (remote.py counts the two     *)
(* channels apart); a session is its code.  The page is signed in.         *)
(***************************************************************************)
EXTENDS SequencesExt

CONSTANTS
    None,           \* JavaScript's null
    Sessions,       \* codes of remote sessions
    MaxRequests,    \* bound: starts and stops of the page
    MaxUpsets,      \* bound: losses of the event socket, selections in the library, and
                    \* changes of the controller that no request of the page asked for
    MaxUtterances   \* bound: utterances of a session

ASSUME PageAssumption ==
    /\ None \notin Sessions
    /\ {MaxRequests, MaxUpsets, MaxUtterances} \subseteq Nat

\* failed stands for device_selection_required too: the page's guards treat both alike.
States == {"idle", "starting", "streaming", "reconnecting", "stopped", "failed"}
ActiveStates == {"starting", "streaming", "reconnecting"}
Utterances == [of : Sessions, number : 0..(MaxUtterances - 1)]
Messages == [type : {"status", "bootstrap"}, state : States, session : Sessions \cup {None}]
       \cup [type : {"session"}, session : Sessions]
       \cup [type : {"delta", "segment"}, utterance : Utterances]

VARIABLES
    state,       \* controller.state
    session,     \* controller.session
    created,     \* sessions of the server
    number,      \* _next_sequence_by_channel: how many segments the server keeps
    socket,      \* the event socket: lost, subscribed to the hub, or open
    inbox,       \* messages on their way to the page
    shown,       \* state.connectionState
    selected,    \* state.selectedSession
    timeline,    \* the rows of elements.transcriptTimeline, without their order: the
                 \* utterances of the pending deltas, and how often each segment is shown
    start,       \* the page's request to start or resume
    stop,        \* the page's request to stop
    loads,       \* selectSession calls that await a page of segments
    overruled,   \* has an answer contradicted what events told since the request?
    mixed,       \* do history and live text, or two loads, meet in the timeline?
    used         \* what the bounds count

controller == <<state, session, created, number>>
page == <<shown, selected, timeline>>
vars == <<controller, socket, inbox, page, start, stop, loads, overruled, mixed, used>>

NoRequest == [pc |-> "idle", heard |-> FALSE, target |-> None, before |-> "idle"]
Requests == [pc : {"idle", "asked", "opening", "done", "failed"}, heard : BOOLEAN,
             target : Sessions \cup {None}, before : States]
Loads == [of : Sessions, upto : (0..MaxUtterances) \cup {None}]

NoRows == [pending |-> {}, segments |-> [u \in Utterances |-> 0]]

TypeOK ==
    /\ state \in States /\ session \in Sessions \cup {None}
    /\ created \subseteq Sessions
    /\ number \in [Sessions -> 0..MaxUtterances]
    /\ socket \in {"lost", "subscribed", "open"}
    /\ inbox \in Seq(Messages)
    /\ shown \in States /\ selected \in Sessions \cup {None}
    /\ timeline \in [pending : SUBSET Utterances, segments : [Utterances -> Nat]]
    /\ start \in Requests /\ stop \in Requests
    /\ loads \in Seq(Loads)
    /\ overruled \in BOOLEAN /\ mixed \in BOOLEAN
    /\ used \in [requests : 0..MaxRequests, upsets : 0..MaxUpsets]

Init ==
    /\ state = "idle" /\ session = None /\ created = {}
    /\ number = [u \in Sessions |-> 0]
    /\ socket = "open" /\ inbox = <<>>
    /\ shown = "idle" /\ selected = None /\ timeline = NoRows
    /\ start = NoRequest /\ stop = NoRequest /\ loads = <<>>
    /\ overruled = FALSE /\ mixed = FALSE
    /\ used = [requests |-> 0, upsets |-> 0]

Active(s) == s \in ActiveStates

-----------------------------------------------------------------------------
\* The hub and the timeline.

Status(s, u) == [type |-> "status", state |-> s, session |-> u]
Bootstrap == [type |-> "bootstrap", state |-> state, session |-> session]

\* EventHub.publish, to the page's queue if it is subscribed.
Publishes(events) == inbox' = IF socket = "lost" THEN inbox ELSE inbox \o events

\* pendingDeltas knows an utterance by its number only.
Pending(rows, numbers) == {u \in rows.pending : u.number \notin numbers}

\* renderDelta: in the place of the delta with its number.
WithDelta(rows, u) == [rows EXCEPT !.pending = Pending(rows, {u.number}) \cup {u}]

\* renderSegment: a segment takes the place of its delta, or follows.
AppendsSegments(rows, S) ==   \* mutant: the delta stays
    [rows EXCEPT !.segments = [u \in Utterances |-> @[u] + IF u \in S THEN 1 ELSE 0]]
WithSegments(rows, S) ==
    [pending |-> Pending(rows, {u.number : u \in S}),
     segments |-> [u \in Utterances |-> rows.segments[u] + IF u \in S THEN 1 ELSE 0]]

\* The segments of session u up to n.
History(u, n) == {v \in Utterances : v.of = u /\ v.number < n}

\* A load is outstanding while its session is captured or live text is on its way, or
\* together with another load.
Mixes(loading) ==
    \/ Len(loading) > 1
    \/ /\ loading # <<>>
       /\ \/ Active(state) \/ Active(shown)
          \/ \E i \in DOMAIN inbox : inbox[i].type \in {"delta", "segment"}

\* clearTimeline; only what is still outstanding can then mix with what follows.
Clears(loading) == timeline' = NoRows /\ mixed' = Mixes(loading)

-----------------------------------------------------------------------------
\* The controller, by what it publishes.

\* 401, 409, 422: validation, or a session that is active; nothing is published.
StartIsRefused ==
    /\ start.pc = "asked"
    /\ start' = [start EXCEPT !.pc = "failed"]
    /\ UNCHANGED <<controller, socket, inbox, page, stop, loads, overruled, mixed, used>>

OpeningBegins ==
    /\ start.pc = "asked" /\ ~Active(state)
    /\ state' = "starting"
    /\ Publishes(<<Status("starting", None)>>)
    /\ start' = [start EXCEPT !.pc = "opening"]
    /\ mixed' = (mixed \/ loads # <<>>)
    /\ UNCHANGED <<session, created, number, socket, page, stop, loads, overruled, used>>

\* A new session, or the one that is resumed.
OpenedAsAsked == {start.target}   \* mutant: a new session without its code
Opened == IF start.target = None THEN Sessions \ created ELSE {start.target}

\* The answer is an error when the selected devices cannot be saved (api.py:323).
OpeningSucceeds(u) ==
    /\ start.pc = "opening" /\ u \in Opened
    /\ state' = "streaming" /\ session' = u /\ created' = created \cup {u}
    /\ Publishes(<<[type |-> "session", session |-> u], Status("streaming", u)>>)
    /\ \E pc \in {"done", "failed"} :
         start' = [start EXCEPT !.pc = pc, !.target = u]
    /\ mixed' = (mixed \/ loads # <<>>)
    /\ UNCHANGED <<number, socket, page, stop, loads, overruled, used>>

\* The session may have begun when the capture cannot be started: it is never published.
OpeningFails ==
    /\ start.pc = "opening"
    /\ state' = "failed"
    /\ Publishes(<<Status("failed", None)>>)
    /\ \/ UNCHANGED <<session, created>>
       \/ \E u \in Opened : session' = u /\ created' = created \cup {u}
    /\ start' = [start EXCEPT !.pc = "failed"]
    /\ UNCHANGED <<number, socket, page, stop, loads, overruled, mixed, used>>

\* DesktopSessionController.stop, also while an opening goes on.
Stops ==
    IF state = "stopped" THEN UNCHANGED <<state, inbox>>
    ELSE state' = "stopped" /\ Publishes(<<Status("stopped", None)>>)

StopIsServed ==
    /\ stop.pc = "asked"
    /\ Stops
    /\ stop' = [stop EXCEPT !.pc = "done"]
    /\ UNCHANGED <<session, created, number, socket, page, start, loads, overruled, mixed,
                   used>>

\* A source that cannot be closed (500), or a credential that is gone (401).
StopIsRefused ==
    /\ stop.pc = "asked"
    /\ stop' = [stop EXCEPT !.pc = "failed"]
    /\ UNCHANGED <<controller, socket, inbox, page, start, loads, overruled, mixed, used>>

Asks == used.requests < MaxRequests /\ used' = [used EXCEPT !.requests = @ + 1]
Upsets == used.upsets < MaxUpsets /\ used' = [used EXCEPT !.upsets = @ + 1]

TrayStops ==
    /\ Upsets /\ Stops
    /\ UNCHANGED <<session, created, number, socket, page, start, stop, loads, overruled,
                   mixed>>

\* A send fails, late or not (SessionController), the connection is restored, or the
\* session ends for any reason; a connection that was lost may have kept a segment from
\* the desktop.
StateChanges ==
    /\ Upsets
    /\ \/ /\ state # "reconnecting" /\ session # None /\ state' = "reconnecting"
          /\ Publishes(<<Status("reconnecting", None)>>)
          /\ UNCHANGED number
       \/ /\ state = "reconnecting" /\ state' = "streaming"
          /\ Publishes(<<Status("streaming", session)>>)
          /\ \/ UNCHANGED number
             \/ number[session] < MaxUtterances
                /\ number' = [number EXCEPT ![session] = @ + 1]
       \/ /\ Active(state)
          /\ state' \in {"stopped", "failed"}
          /\ Publishes(<<Status(state', None)>>)
          /\ UNCHANGED number
    /\ mixed' = (mixed \/ loads # <<>>)
    /\ UNCHANGED <<session, created, socket, page, start, stop, loads, overruled>>

\* _current_sequence_for: the delta has the number of the segment to come.
Utterance == [of |-> session, number |-> number[session]]

\* _listen goes on in these states; a failed send leaves the reader of its stream running.
Hearing == state \in {"streaming", "reconnecting"}

DeltaIsHeard ==
    /\ Hearing /\ number[session] < MaxUtterances
    /\ \A i \in DOMAIN inbox : inbox[i] # [type |-> "delta", utterance |-> Utterance]
    /\ Publishes(<<[type |-> "delta", utterance |-> Utterance]>>)
    /\ UNCHANGED <<controller, socket, page, start, stop, loads, overruled, mixed, used>>

\* _sequence_for.
SegmentIsHeard ==
    /\ Hearing /\ number[session] < MaxUtterances
    /\ Publishes(<<[type |-> "segment", utterance |-> Utterance]>>)
    /\ number' = [number EXCEPT ![session] = @ + 1]
    /\ UNCHANGED <<state, session, created, socket, page, start, stop, loads, overruled,
                   mixed, used>>

-----------------------------------------------------------------------------
\* The event socket: api.py's events and app.js's connectEvents.

SocketBreaks ==
    /\ socket # "lost" /\ Upsets
    /\ socket' = "lost" /\ inbox' = <<>>
    /\ shown' = "reconnecting"
    /\ UNCHANGED <<controller, selected, timeline, start, stop, loads, overruled, mixed>>

NeverReopens == FALSE   \* mutant: no timer is set

\* The handler subscribes before it accepts.
SocketReopens ==
    /\ socket = "lost"
    /\ socket' = "subscribed"
    /\ UNCHANGED <<controller, inbox, page, start, stop, loads, overruled, mixed, used>>

\* Mutant: the payload of a page that has no controller.
BootstrapForgets == inbox' = <<[Bootstrap EXCEPT !.state = "idle"]>> \o inbox
BootstrapGoesFirst == inbox' = <<Bootstrap>> \o inbox

BootstrapIsSent ==
    /\ socket = "subscribed"
    /\ socket' = "open"
    /\ BootstrapGoesFirst
    /\ UNCHANGED <<controller, page, start, stop, loads, overruled, mixed, used>>

-----------------------------------------------------------------------------
\* The page's handler of messages, handleEvent.

Heard(request) == [request EXCEPT !.heard = (@ \/ request.pc # "idle")]
Hears == start' = Heard(start) /\ stop' = Heard(stop)

HandlesStatus ==
    /\ Head(inbox).type = "status"
    /\ shown' = Head(inbox).state
    /\ selected' = IF Head(inbox).session # None THEN Head(inbox).session ELSE selected
    /\ Hears /\ overruled' = FALSE
    /\ UNCHANGED <<timeline, mixed>>

\* applyBootstrap.
HandlesBootstrap ==
    /\ Head(inbox).type = "bootstrap"
    /\ shown' = Head(inbox).state /\ selected' = Head(inbox).session
    /\ Clears(loads)
    /\ Hears /\ overruled' = FALSE

HandlesSession ==
    /\ Head(inbox).type = "session"
    /\ selected' = Head(inbox).session
    /\ UNCHANGED <<shown, timeline, start, stop, overruled, mixed>>

HandlesText ==
    /\ Head(inbox).type \in {"delta", "segment"}
    /\ timeline' = IF Head(inbox).type = "delta"
                   THEN WithDelta(timeline, Head(inbox).utterance)
                   ELSE WithSegments(timeline, {Head(inbox).utterance})
    /\ UNCHANGED <<shown, selected, start, stop, overruled, mixed>>

HandlesEvent ==
    /\ socket = "open" /\ inbox # <<>>
    /\ inbox' = Tail(inbox)
    /\ HandlesStatus \/ HandlesBootstrap \/ HandlesSession \/ HandlesText
    /\ UNCHANGED <<controller, socket, loads, used>>

-----------------------------------------------------------------------------
\* The user and the answers.

Asked(u) == [NoRequest EXCEPT !.pc = "asked", !.target = u, !.before = shown]

\* startSession, up to the request.
PageStarts ==
    /\ ~Active(shown) /\ start.pc = "idle"
    /\ Asks
    /\ start' = Asked(selected)
    /\ shown' = "starting" /\ timeline' = NoRows /\ mixed' = (loads # <<>>)
    /\ UNCHANGED <<controller, socket, inbox, selected, stop, loads, overruled>>

\* The state of before comes back only with an error.
StartIsAnswered ==
    /\ \/ /\ start.pc = "done"
          /\ selected' = start.target /\ UNCHANGED shown
       \/ /\ start.pc = "failed"
          /\ shown' = start.before /\ UNCHANGED selected
    /\ overruled' = \/ overruled
                    \/ start.heard /\ \/ Active(shown') # Active(shown)
                                      \/ selected' # selected
    /\ start' = NoRequest
    /\ UNCHANGED <<controller, socket, inbox, timeline, stop, loads, mixed, used>>

\* stopSession.
PageStops ==
    /\ Active(shown) /\ stop.pc = "idle"
    /\ Asks
    /\ stop' = Asked(None)
    /\ UNCHANGED <<controller, socket, inbox, page, start, loads, overruled, mixed>>

StopIsAnswered ==
    /\ stop.pc \in {"done", "failed"}
    /\ shown' = IF stop.pc = "done" THEN "stopped" ELSE shown
    /\ overruled' = (overruled \/ (stop.heard /\ Active(shown') # Active(shown)))
    /\ stop' = NoRequest
    /\ UNCHANGED <<controller, socket, inbox, selected, timeline, start, loads, mixed, used>>

PreparesNewSession ==
    /\ ~Active(shown)
    /\ selected' = None /\ shown' = "idle"
    /\ Clears(loads)
    /\ UNCHANGED <<controller, socket, inbox, start, stop, loads, overruled, used>>

SelectsAny(u) == u \in created   \* mutant: the guard of selectSession is dropped
MaySelect(u) == u \in created /\ (Active(shown) => selected = u)

\* selectSession, up to the first request.
Selects(u) ==
    /\ MaySelect(u)
    /\ Upsets
    /\ selected' = u
    /\ loads' = Append(loads, [of |-> u, upto |-> None])
    /\ Clears(loads')
    /\ UNCHANGED <<controller, socket, inbox, shown, start, stop, overruled>>

\* The remote answers with the segments it has.
HistoryIsRead(i) ==
    /\ loads[i].upto = None
    /\ loads' = [loads EXCEPT ![i].upto = number[loads[i].of]]
    /\ UNCHANGED <<controller, socket, inbox, page, start, stop, overruled, mixed, used>>

\* A failed request leaves what is there; the answer for another selection is dropped.
HistoryArrives(i) ==
    /\ loads[i].upto # None
    /\ \/ /\ selected = loads[i].of
          /\ timeline' = WithSegments(timeline, History(loads[i].of, loads[i].upto))
       \/ UNCHANGED timeline
    /\ loads' = RemoveAt(loads, i)
    /\ UNCHANGED <<controller, socket, inbox, shown, selected, start, stop, overruled, mixed,
                   used>>

Serves ==
    \/ StartIsRefused \/ OpeningBegins \/ OpeningFails
    \/ \E u \in Sessions : OpeningSucceeds(u)
    \/ StopIsServed \/ StopIsRefused
Delivers == SocketReopens \/ BootstrapIsSent \/ HandlesEvent
Answers == StartIsAnswered \/ StopIsAnswered

Next ==
    \/ Serves \/ Delivers \/ Answers
    \/ TrayStops \/ StateChanges \/ DeltaIsHeard \/ SegmentIsHeard \/ SocketBreaks
    \/ PageStarts \/ PageStops \/ PreparesNewSession
    \/ \E u \in Sessions : Selects(u)
    \/ \E i \in DOMAIN loads : HistoryIsRead(i) \/ HistoryArrives(i)

\* Requests are served and answered, a socket that broke is opened again after a second,
\* and messages are handled; nothing makes the user or the remote act.
Fairness ==
    /\ WF_vars(Serves) /\ WF_vars(StartIsAnswered) /\ WF_vars(StopIsAnswered)
    /\ WF_vars(Delivers)

Spec == Init /\ [][Next]_vars /\ Fairness

-----------------------------------------------------------------------------
\* Properties.

\* Nothing is on its way to the page.
AtRest ==
    /\ socket = "open" /\ inbox = <<>>
    /\ start.pc = "idle" /\ stop.pc = "idle"

\* The recording notice is right once everything has arrived, unless the answer of a
\* request contradicted the events that had overtaken it (renderCaptureDock).
NoticeIsRight == AtRest /\ ~overruled => (Active(shown) <=> Active(state))

\* While a session streams, it is the selected one: text on the timeline is attributed to
\* the session it belongs to, and a later start resumes that one.
SelectedIsLive == AtRest /\ ~overruled /\ state = "streaming" => selected = session

\* No utterance is on the timeline twice, unless a load met live text or another load.
OneRowEach ==
    ~mixed => \A u \in Utterances : /\ timeline.segments[u] <= 1
                                    /\ u \in timeline.pending => timeline.segments[u] = 0

\* The recording notice is visible whenever a session is captured.
NoticeWhenActive == AtRest /\ Active(state) => Active(shown)

\* Whatever breaks, the notice becomes right again, unless an answer has contradicted the events
\* that overtook it ("overruled").
PageCatchesUp == []<>(overruled \/ (Active(shown) <=> Active(state)))
=============================================================================
