---------------------------- MODULE PageViewProofs ----------------------------
(***************************************************************************)
(* What the page shows, for any number of requests, losses of the event    *)
(* socket, sessions and utterances: the recording notice and the selected  *)
(* session are right whenever nothing is on its way to the page and no     *)
(* answer has contradicted the events, and no utterance is on the timeline *)
(* twice unless a load met live text or another load.                      *)
(***************************************************************************)
EXTENDS PageView, TLAPS

IsStatus(m) == m.type \in {"status", "bootstrap"}

\* Does a message on its way say what the controller's state is?
Coming(queue) == \E i \in DOMAIN queue : IsStatus(queue[i])

\* The last one that does, is among the messages S, ...
Says(queue, S) ==
    \A i \in DOMAIN queue :
        IsStatus(queue[i]) /\ (\A j \in DOMAIN queue : j > i => ~IsStatus(queue[j]))
            => queue[i] \in S

\* ... is one of the state s.
Telling(s) == {m \in Messages : IsStatus(m) /\ m.state = s}
Tells(queue, s) == Says(queue, Telling(s))

\* ... or of the session u.
Naming(u) == {m \in Messages : IsStatus(m) /\ m.session = u}
Names(queue, u) == Says(queue, Naming(u))

\* A session is announced before a state of it.
Followed(queue) ==
    \A i \in DOMAIN queue : queue[i].type = "session" =>
        \E j \in DOMAIN queue : j > i /\ IsStatus(queue[j])

PageTypes ==
    /\ state \in States /\ session \in Sessions \cup {None}
    /\ created \subseteq Sessions
    /\ number \in [Sessions -> 0..MaxUtterances]
    /\ Hearing => session \in Sessions
    /\ inbox \in Seq(Messages)
    /\ shown \in States /\ selected \in Sessions \cup {None}
    /\ start \in Requests /\ stop \in Requests

\* While an answer to a start is awaited that no message has overtaken, the page shows
\* what it hopes for, and it is the state from before that agrees with the controller.
Agrees ==
    /\ start.pc = "idle" \/ start.heard => (Active(shown) <=> Active(state))
    /\ start.pc # "idle" /\ ~start.heard =>
         start.pc \in {"asked", "failed"} /\ (Active(start.before) <=> Active(state))
    /\ stop.pc = "done" /\ ~stop.heard => ~Active(state)

NoticeInv ==
    /\ PageTypes
    /\ Tells(inbox, state)
    /\ socket = "lost" => inbox = <<>>
    /\ socket = "open" /\ ~Coming(inbox) /\ ~overruled => Agrees

-----------------------------------------------------------------------------
\* The queue.

\* Messages are put behind a queue.
LEMMA Joined ==
  ASSUME NEW q \in Seq(Messages), NEW e \in Seq(Messages)
  PROVE  /\ q \o e \in Seq(Messages) /\ Len(q \o e) = Len(q) + Len(e)
         /\ \A i \in 1..Len(q) : (q \o e)[i] = q[i]
         /\ \A i \in 1..Len(e) : (q \o e)[Len(q) + i] = e[i]
  OBVIOUS

\* Those that end with a status say what it says.
LEMMA Spoken ==
  ASSUME NEW q \in Seq(Messages), NEW e \in Seq(Messages), NEW S,
         e # <<>>, IsStatus(e[Len(e)]), e[Len(e)] \in S
  PROVE  /\ q \o e \in Seq(Messages)
         /\ Says(q \o e, S) /\ Coming(q \o e)
<1> DEFINE r == q \o e
<1>1. Len(e) \in Nat \ {0}
  OBVIOUS
<1>2. /\ r \in Seq(Messages) /\ Len(r) = Len(q) + Len(e)
      /\ r[Len(q) + Len(e)] = e[Len(e)]
  BY <1>1, Joined
<1> HIDE DEF r
<1>3. Len(r) \in DOMAIN r /\ IsStatus(r[Len(r)]) /\ r[Len(r)] \in S
  BY <1>1, <1>2
<1>4. Coming(r)
  BY <1>3 DEF Coming
<1>5. ASSUME NEW i \in DOMAIN r, \A j \in DOMAIN r : j > i => ~IsStatus(r[j])
      PROVE  i = Len(r)
  <2>1. i \in 1..Len(r) /\ Len(r) \in Nat
    BY <1>2
  <2>2. ~(Len(r) > i)
    BY <1>3, <1>5
  <2> QED
    BY <2>1, <2>2
<1> QED
  BY <1>2, <1>3, <1>4, <1>5 DEF Says, r

\* Whatever they announce is then followed by a status.
LEMMA SpokenFollows ==
  ASSUME NEW q \in Seq(Messages), NEW e \in Seq(Messages), e # <<>>, IsStatus(e[Len(e)])
  PROVE  Followed(q \o e)
<1> DEFINE r == q \o e
<1>1. Len(e) \in Nat \ {0}
  OBVIOUS
<1>2. /\ r \in Seq(Messages) /\ Len(r) = Len(q) + Len(e)
      /\ r[Len(q) + Len(e)] = e[Len(e)]
  BY <1>1, Joined
<1> HIDE DEF r
<1>3. Len(r) \in 1..Len(r) /\ IsStatus(r[Len(r)]) /\ DOMAIN r = 1..Len(r)
  BY <1>1, <1>2
<1>4. ASSUME NEW i \in DOMAIN r, r[i].type = "session" PROVE Len(r) > i
  <2>1. i # Len(r)
    BY <1>3, <1>4 DEF IsStatus
  <2> QED
    BY <2>1, <1>2, <1>3
<1> QED
  BY <1>3, <1>4 DEF Followed, r

\* A message that is no status leaves what the queue says.
LEMMA Silent ==
  ASSUME NEW q \in Seq(Messages), NEW m \in Messages, NEW S, ~IsStatus(m), Says(q, S)
  PROVE  /\ q \o <<m>> \in Seq(Messages)
         /\ Says(q \o <<m>>, S)
         /\ Coming(q \o <<m>>) <=> Coming(q)
         /\ Followed(q) /\ m.type # "session" => Followed(q \o <<m>>)
<1> DEFINE r == q \o <<m>>
<1>1. /\ r \in Seq(Messages) /\ Len(r) = Len(q) + 1
      /\ \A i \in 1..Len(q) : r[i] = q[i]
      /\ r[Len(q) + 1] = m
  OBVIOUS
<1> HIDE DEF r
<1>2. DOMAIN q = 1..Len(q) /\ DOMAIN r = 1..Len(q) + 1 /\ Len(q) \in Nat
  BY <1>1
<1>3. Coming(r) <=> Coming(q)
  BY <1>1, <1>2 DEF Coming
<1>4. Says(r, S)
  BY <1>1, <1>2 DEF Says
<1>5. Followed(q) /\ m.type # "session" => Followed(r)
  BY <1>1, <1>2 DEF Followed
<1> QED
  BY <1>1, <1>3, <1>4, <1>5 DEF r

\* A message is put in front.
LEMMA Fronted ==
  ASSUME NEW q \in Seq(Messages), NEW m \in Messages, NEW S, IsStatus(m), m \in S,
         Says(q, S)
  PROVE  /\ <<m>> \o q \in Seq(Messages)
         /\ Says(<<m>> \o q, S) /\ Coming(<<m>> \o q)
         /\ Followed(q) => Followed(<<m>> \o q)
<1> DEFINE r == <<m>> \o q
<1>1. /\ r \in Seq(Messages) /\ Len(r) = Len(q) + 1
      /\ r[1] = m
      /\ \A i \in 1..Len(q) : r[1 + i] = q[i]
  OBVIOUS
<1> HIDE DEF r
<1>2. DOMAIN q = 1..Len(q) /\ DOMAIN r = 1..Len(q) + 1 /\ Len(q) \in Nat
  BY <1>1
<1>3. Coming(r)
  BY <1>1, <1>2 DEF Coming
<1>a. ASSUME NEW i \in DOMAIN r, i # 1
      PROVE  i - 1 \in DOMAIN q /\ r[i] = q[i - 1]
  <2>1. i - 1 \in 1..Len(q) /\ 1 + (i - 1) = i
    BY <1>2, <1>a
  <2> QED
    BY <2>1, <1>1, <1>2
<1>b. ASSUME NEW i \in DOMAIN r, NEW j \in DOMAIN q, j > i - 1
      PROVE  1 + j \in DOMAIN r /\ 1 + j > i /\ r[1 + j] = q[j]
  BY <1>b, <1>1, <1>2
<1>4. ASSUME NEW i \in DOMAIN r, IsStatus(r[i]), \A j \in DOMAIN r : j > i => ~IsStatus(r[j])
      PROVE  r[i] \in S
  <2>1. CASE i = 1
    BY <2>1, <1>1
  <2>2. CASE i # 1
    <3>1. i - 1 \in DOMAIN q /\ r[i] = q[i - 1]
      BY <2>2, <1>a
    <3>2. ASSUME NEW j \in DOMAIN q, j > i - 1 PROVE ~IsStatus(q[j])
      BY <3>2, <1>4, <1>b
    <3> QED
      BY <3>1, <3>2, <1>4 DEF Says
  <2> QED
    BY <2>1, <2>2
<1>5. ASSUME Followed(q), NEW i \in DOMAIN r, r[i].type = "session"
      PROVE  \E j \in DOMAIN r : j > i /\ IsStatus(r[j])
  <2>1. i # 1
    BY <1>1, <1>5 DEF IsStatus
  <2>2. i - 1 \in DOMAIN q /\ q[i - 1].type = "session"
    BY <2>1, <1>5, <1>a
  <2>3. PICK j \in DOMAIN q : j > i - 1 /\ IsStatus(q[j])
    BY <2>2, <1>5 DEF Followed
  <2> QED
    BY <2>3, <1>b
<1> QED
  BY <1>1, <1>3, <1>4, <1>5 DEF Says, Followed, r

\* The first message is taken off.
LEMMA Taken ==
  ASSUME NEW q \in Seq(Messages), q # <<>>, NEW S, Says(q, S)
  PROVE  /\ Head(q) \in Messages /\ Tail(q) \in Seq(Messages)
         /\ Says(Tail(q), S)
         /\ ~Coming(Tail(q)) /\ IsStatus(Head(q)) => Head(q) \in S
         /\ ~Coming(Tail(q)) /\ ~IsStatus(Head(q)) => ~Coming(q)
         /\ Followed(q) => /\ Followed(Tail(q))
                           /\ Head(q).type = "session" => Coming(Tail(q))
<1> DEFINE r == Tail(q)
<1>1. /\ Head(q) = q[1] /\ q[1] \in Messages
      /\ r \in Seq(Messages) /\ Len(r) = Len(q) - 1
      /\ \A i \in 1..Len(q) - 1 : r[i] = q[i + 1]
      /\ Len(q) \in Nat \ {0}
  OBVIOUS
<1> HIDE DEF r
<1>2. DOMAIN q = 1..Len(q) /\ DOMAIN r = 1..Len(q) - 1 /\ 1 \in DOMAIN q
  BY <1>1
<1>3. ASSUME NEW i \in DOMAIN q, i > 1 PROVE i - 1 \in DOMAIN r /\ r[i - 1] = q[i]
  <2>1. i - 1 \in 1..Len(q) - 1 /\ (i - 1) + 1 = i
    BY <1>2, <1>3, <1>1
  <2> QED
    BY <2>1, <1>1, <1>2
<1>a. ASSUME NEW i \in DOMAIN r PROVE i + 1 \in DOMAIN q /\ q[i + 1] = r[i]
  BY <1>1, <1>2
<1>4. Says(r, S)
  <2>1. SUFFICES ASSUME NEW i \in DOMAIN r, IsStatus(r[i]),
                        \A j \in DOMAIN r : j > i => ~IsStatus(r[j])
                 PROVE  r[i] \in S
    BY DEF Says
  <2>2. i + 1 \in DOMAIN q /\ q[i + 1] = r[i]
    BY <1>a
  <2>3. ASSUME NEW j \in DOMAIN q, j > i + 1 PROVE ~IsStatus(q[j])
    <3>1. j - 1 \in DOMAIN r /\ r[j - 1] = q[j] /\ j - 1 > i
      BY <1>2, <1>3, <2>3
    <3> QED
      BY <3>1, <2>1
  <2> QED
    BY <2>1, <2>2, <2>3 DEF Says
<1>5. ASSUME ~Coming(r) PROVE \A j \in DOMAIN q : j > 1 => ~IsStatus(q[j])
  BY <1>3, <1>5 DEF Coming
<1>6. ~Coming(r) /\ IsStatus(q[1]) => q[1] \in S
  BY <1>2, <1>5 DEF Says
<1>7. ~Coming(r) /\ ~IsStatus(q[1]) => ~Coming(q)
  <2>1. \A j \in DOMAIN q : j = 1 \/ j > 1
    BY <1>1, <1>2
  <2> QED
    BY <2>1, <1>5 DEF Coming
<1>8. ASSUME Followed(q), q[1].type = "session" PROVE Coming(r)
  <2>1. PICK j \in DOMAIN q : j > 1 /\ IsStatus(q[j])
    BY <1>2, <1>8 DEF Followed
  <2> QED
    BY <2>1, <1>3 DEF Coming
<1>9. ASSUME Followed(q), NEW i \in DOMAIN r, r[i].type = "session"
      PROVE  \E j \in DOMAIN r : j > i /\ IsStatus(r[j])
  <2>1. PICK j \in DOMAIN q : j > i + 1 /\ IsStatus(q[j])
    BY <1>9, <1>a DEF Followed
  <2>2. j - 1 \in DOMAIN r /\ r[j - 1] = q[j] /\ j - 1 > i
    BY <2>1, <1>2, <1>3
  <2> QED
    BY <2>1, <2>2
<1> QED
  BY <1>1, <1>4, <1>6, <1>7, <1>8, <1>9 DEF Followed, r

-----------------------------------------------------------------------------
\* Types.

LEMMA StatusIsMessage ==
  ASSUME NEW s \in States, NEW u \in Sessions \cup {None}
  PROVE  Status(s, u) \in Messages /\ IsStatus(Status(s, u)) /\ Status(s, u).state = s
BY DEF Status, Messages, IsStatus

LEMMA SessionIsMessage ==
  ASSUME NEW u \in Sessions
  PROVE  [type |-> "session", session |-> u] \in Messages
BY DEF Messages

\* What has text is no status.
LEMMA TextIsMessage ==
  ASSUME NEW t \in {"delta", "segment"}, PageTypes, Hearing, number[session] < MaxUtterances
  PROVE  /\ [type |-> t, utterance |-> Utterance] \in Messages
         /\ ~IsStatus([type |-> t, utterance |-> Utterance])
<1>1. Utterance \in Utterances
  BY PageAssumption DEF PageTypes, Utterance, Utterances
<1> QED
  BY <1>1 DEF Messages, IsStatus

LEMMA MessageFields ==
  ASSUME NEW m \in Messages
  PROVE  /\ m.type \in {"status", "bootstrap", "session", "delta", "segment"}
         /\ IsStatus(m) => m.state \in States /\ m.session \in Sessions \cup {None}
         /\ m.type = "session" => m.session \in Sessions
BY DEF Messages, IsStatus

\* Publishing a status, alone or behind another message.
LEMMA StatusLast ==
  ASSUME PageTypes, NEW e \in Seq(Messages), e # <<>>, Publishes(e),
         NEW s \in States, NEW u \in Sessions \cup {None}, e[Len(e)] = Status(s, u)
  PROVE  /\ inbox' \in Seq(Messages)
         /\ socket # "lost" => /\ Tells(inbox', s) /\ Names(inbox', u)
                               /\ Coming(inbox') /\ Followed(inbox')
         /\ socket = "lost" => inbox' = inbox
<1> DEFINE m == Status(s, u)
<1>1. m \in Messages /\ IsStatus(m) /\ m \in Telling(s) /\ m \in Naming(u)
  BY StatusIsMessage DEF Telling, Naming, Status
<1> HIDE DEF m
<1>2. inbox \in Seq(Messages) /\ IsStatus(e[Len(e)]) /\ e[Len(e)] = m
  BY <1>1 DEF PageTypes, m
<1>3. /\ inbox \o e \in Seq(Messages) /\ Coming(inbox \o e) /\ Followed(inbox \o e)
      /\ Says(inbox \o e, Telling(s)) /\ Says(inbox \o e, Naming(u))
  BY <1>1, <1>2, Spoken, SpokenFollows
<1> QED
  BY <1>2, <1>3 DEF Publishes, Tells, Names

LEMMA StatusPublished ==
  ASSUME PageTypes, NEW u \in Sessions \cup {None},
         state' \in States, Publishes(<<Status(state', u)>>)
  PROVE  /\ inbox' \in Seq(Messages)
         /\ socket # "lost" => /\ Tells(inbox', state') /\ Names(inbox', u)
                               /\ Coming(inbox') /\ Followed(inbox')
         /\ socket = "lost" => inbox' = inbox
<1> DEFINE m == Status(state', u)
           e == <<m>>
<1>1. m \in Messages
  BY StatusIsMessage
<1> HIDE DEF m
<1>2. e \in Seq(Messages) /\ e # <<>> /\ Len(e) = 1 /\ e[1] = m
  BY <1>1
<1>3. Publishes(e)
  BY DEF m
<1> HIDE DEF e
<1>4. e[Len(e)] = Status(state', u)
  BY <1>2 DEF m
<1> QED
  BY <1>2, <1>3, <1>4, StatusLast

LEMMA SessionPublished ==
  ASSUME PageTypes, NEW u \in Sessions, state' \in States,
         Publishes(<<[type |-> "session", session |-> u], Status(state', u)>>)
  PROVE  /\ inbox' \in Seq(Messages)
         /\ socket # "lost" => /\ Tells(inbox', state') /\ Names(inbox', u)
                               /\ Coming(inbox') /\ Followed(inbox')
         /\ socket = "lost" => inbox' = inbox
<1> DEFINE l == [type |-> "session", session |-> u]
           m == Status(state', u)
           e == <<l, m>>
<1>1. l \in Messages /\ m \in Messages
  BY StatusIsMessage, SessionIsMessage
<1> HIDE DEF l, m
<1>2. e \in Seq(Messages) /\ e # <<>> /\ Len(e) = 2 /\ e[2] = m
  BY <1>1
<1>3. Publishes(e)
  BY DEF l, m
<1> HIDE DEF e
<1>4. e[Len(e)] = Status(state', u)
  BY <1>2 DEF m
<1> QED
  BY <1>2, <1>3, <1>4, StatusLast

\* What follows for the invariant when a status is published: there is one on its way, or
\* the socket is lost.
LEMMA StatusKeepsNotice ==
  ASSUME NoticeInv, PageTypes', socket' = socket,
         socket # "lost" => Tells(inbox', state') /\ Coming(inbox'),
         socket = "lost" => inbox' = inbox
  PROVE  NoticeInv'
<1>1. CASE socket = "lost"
  <2>1. inbox' = <<>>
    BY <1>1 DEF NoticeInv
  <2> QED
    BY <1>1, <2>1 DEF NoticeInv, Tells, Says
<1>2. CASE socket # "lost"
  BY <1>2 DEF NoticeInv
<1> QED
  BY <1>1, <1>2

LEMMA TextPublished ==
  ASSUME PageTypes, NEW t \in {"delta", "segment"}, Hearing, number[session] < MaxUtterances,
         Publishes(<<[type |-> t, utterance |-> Utterance]>>)
  PROVE  /\ inbox' \in Seq(Messages)
         /\ Coming(inbox') <=> Coming(inbox)
         /\ Tells(inbox, state) => Tells(inbox', state)
         /\ Names(inbox, session) => Names(inbox', session)
         /\ Followed(inbox) => Followed(inbox')
<1> DEFINE m == [type |-> t, utterance |-> Utterance]
<1>1. m \in Messages /\ ~IsStatus(m) /\ m.type # "session"
  BY TextIsMessage
<1>2. Publishes(<<m>>)
  OBVIOUS
<1> HIDE DEF m
<1>3. inbox \in Seq(Messages)
  BY DEF PageTypes
<1>a. Says(inbox, Messages)
  BY <1>3 DEF Says
<1>4. /\ inbox \o <<m>> \in Seq(Messages)
      /\ Coming(inbox \o <<m>>) <=> Coming(inbox)
      /\ Followed(inbox) => Followed(inbox \o <<m>>)
  BY <1>1, <1>3, <1>a, Silent
<1>5. /\ Says(inbox, Telling(state)) => Says(inbox \o <<m>>, Telling(state))
      /\ Says(inbox, Naming(session)) => Says(inbox \o <<m>>, Naming(session))
  BY <1>1, <1>3, Silent
<1> QED
  BY <1>2, <1>3, <1>4, <1>5 DEF Publishes, Tells, Names

-----------------------------------------------------------------------------
\* The steps of the controller.

\* Numbers stay within the bound.
LEMMA OneMore ==
  ASSUME number \in [Sessions -> 0..MaxUtterances], NEW u \in Sessions, number[u] < MaxUtterances,
         number' = [number EXCEPT ![u] = @ + 1]
  PROVE  number' \in [Sessions -> 0..MaxUtterances]
BY PageAssumption

LEMMA ControllerKeepsNotice ==
  ASSUME NoticeInv,
         Serves \/ TrayStops \/ StateChanges \/ DeltaIsHeard \/ SegmentIsHeard
  PROVE  NoticeInv'
<1> USE DEF NoticeInv
<1>1. CASE StartIsRefused
  <2>1. PageTypes'
    BY <1>1 DEF StartIsRefused, PageTypes, Requests, Hearing, controller, page
  <2>2. start' = [start EXCEPT !.pc = "failed"] /\ start.pc = "asked" /\ start \in Requests
    BY <1>1 DEF StartIsRefused, PageTypes
  <2>3. start'.pc = "failed" /\ start'.heard = start.heard /\ start'.before = start.before
    BY <2>2 DEF Requests
  <2> QED
    BY <1>1, <2>1, <2>2, <2>3 DEF StartIsRefused, Agrees, controller, page
<1>2. CASE OpeningBegins
  <2>1. state' \in States /\ Publishes(<<Status(state', None)>>) /\ socket' = socket
    BY <1>2 DEF OpeningBegins, States
  <2>2. /\ inbox' \in Seq(Messages)
        /\ socket # "lost" => Tells(inbox', state') /\ Coming(inbox')
        /\ socket = "lost" => inbox' = inbox
    BY <2>1, StatusPublished
  <2>3. PageTypes'
    BY <1>2, <2>1, <2>2 DEF OpeningBegins, PageTypes, Requests, Hearing, page
  <2> QED
    BY <2>1, <2>2, <2>3, StatusKeepsNotice
<1>3. CASE OpeningFails
  <2>1. state' \in States /\ Publishes(<<Status(state', None)>>) /\ socket' = socket
    BY <1>3 DEF OpeningFails, States
  <2>2. /\ inbox' \in Seq(Messages)
        /\ socket # "lost" => Tells(inbox', state') /\ Coming(inbox')
        /\ socket = "lost" => inbox' = inbox
    BY <2>1, StatusPublished
  <2>3. session' \in Sessions \cup {None} /\ created' \subseteq Sessions
    BY <1>3 DEF OpeningFails, Opened, PageTypes, Requests
  <2>4. PageTypes'
    BY <1>3, <2>1, <2>2, <2>3 DEF OpeningFails, PageTypes, Requests, Hearing, page
  <2> QED
    BY <2>1, <2>2, <2>4, StatusKeepsNotice
<1>4. ASSUME NEW u \in Sessions, OpeningSucceeds(u) PROVE NoticeInv'
  <2>1. /\ state' \in States /\ socket' = socket
        /\ Publishes(<<[type |-> "session", session |-> u], Status(state', u)>>)
    BY <1>4 DEF OpeningSucceeds, States
  <2>2. /\ inbox' \in Seq(Messages)
        /\ socket # "lost" => Tells(inbox', state') /\ Coming(inbox')
        /\ socket = "lost" => inbox' = inbox
    BY <2>1, SessionPublished
  <2>3. start' \in Requests
    BY <1>4 DEF OpeningSucceeds, PageTypes, Requests
  <2>4. PageTypes'
    BY <1>4, <2>1, <2>2, <2>3 DEF OpeningSucceeds, PageTypes, Hearing, page
  <2> QED
    BY <2>1, <2>2, <2>4, StatusKeepsNotice
<1>5. ASSUME Stops, UNCHANGED <<session, created, number, socket, page, start, overruled>>,
             stop' \in Requests,
             stop' = stop \/ stop' = [stop EXCEPT !.pc = "done"]
      PROVE  NoticeInv'
  <2>1. CASE state = "stopped"
    <3>1. UNCHANGED <<state, inbox>>
      BY <1>5, <2>1 DEF Stops
    <3>2. PageTypes'
      BY <1>5, <3>1 DEF PageTypes, Hearing, page
    <3>3. ~Active(state) /\ ~Active(state')
      BY <2>1, <3>1 DEF Active, ActiveStates
    <3> QED
      BY <1>5, <3>1, <3>2, <3>3 DEF Agrees, page
  <2>2. CASE state # "stopped"
    <3>1. state' \in States /\ Publishes(<<Status(state', None)>>) /\ socket' = socket
      BY <1>5, <2>2 DEF Stops, States
    <3>2. /\ inbox' \in Seq(Messages)
          /\ socket # "lost" => Tells(inbox', state') /\ Coming(inbox')
          /\ socket = "lost" => inbox' = inbox
      BY <3>1, StatusPublished
    <3>3. state' = "stopped"
      BY <1>5, <2>2 DEF Stops
    <3>4. PageTypes'
      BY <1>5, <3>1, <3>2, <3>3 DEF PageTypes, Hearing, page
    <3> QED
      BY <3>1, <3>2, <3>4, StatusKeepsNotice
  <2> QED
    BY <2>1, <2>2
<1>6. CASE StopIsServed
  <2>1. stop' \in Requests
    BY <1>6 DEF StopIsServed, PageTypes, Requests
  <2> QED
    BY <1>5, <1>6, <2>1 DEF StopIsServed
<1>7. CASE TrayStops
  <2>1. stop' = stop /\ stop \in Requests
    BY <1>7 DEF TrayStops, PageTypes
  <2> QED
    BY <1>5, <1>7, <2>1 DEF TrayStops
<1>8. CASE StopIsRefused
  <2>1. stop' = [stop EXCEPT !.pc = "failed"] /\ stop \in Requests
    BY <1>8 DEF StopIsRefused, PageTypes
  <2>2. stop' \in Requests /\ stop'.pc = "failed"
    BY <2>1 DEF Requests
  <2>3. PageTypes'
    BY <1>8, <2>2 DEF StopIsRefused, PageTypes, Hearing, controller, page
  <2> QED
    BY <1>8, <2>2, <2>3 DEF StopIsRefused, Agrees, controller, page
<1>9. CASE StateChanges
  <2>1. PICK u \in Sessions \cup {None} : Publishes(<<Status(state', u)>>)
    BY <1>9 DEF StateChanges, PageTypes
  <2>2. state' \in States /\ socket' = socket
    BY <1>9 DEF StateChanges, States
  <2>3. /\ inbox' \in Seq(Messages)
        /\ socket # "lost" => Tells(inbox', state') /\ Coming(inbox')
        /\ socket = "lost" => inbox' = inbox
    BY <2>1, <2>2, StatusPublished
  <2>4. number' \in [Sessions -> 0..MaxUtterances]
    BY <1>9, OneMore DEF StateChanges, PageTypes, Hearing
  <2>5. Hearing' => session' \in Sessions
    BY <1>9 DEF StateChanges, PageTypes, Hearing
  <2>6. PageTypes'
    BY <1>9, <2>2, <2>3, <2>4, <2>5 DEF StateChanges, PageTypes, page
  <2> QED
    BY <2>2, <2>3, <2>6, StatusKeepsNotice
<1>10. ASSUME NEW t \in {"delta", "segment"}, Hearing, number[session] < MaxUtterances,
              Publishes(<<[type |-> t, utterance |-> Utterance]>>),
              number' \in [Sessions -> 0..MaxUtterances],
              UNCHANGED <<state, session, created, socket, page, start, stop, overruled>>
       PROVE  NoticeInv'
  <2>1. /\ inbox' \in Seq(Messages)
        /\ Tells(inbox', state) /\ (Coming(inbox') <=> Coming(inbox))
    BY <1>10, TextPublished
  <2>2. PageTypes'
    BY <1>10, <2>1 DEF PageTypes, Hearing, page
  <2>3. socket = "lost" => inbox' = inbox
    BY <1>10 DEF Publishes
  <2> QED
    BY <1>10, <2>1, <2>2, <2>3 DEF Agrees, page
<1>11. CASE DeltaIsHeard
  <2>1. number' \in [Sessions -> 0..MaxUtterances]
    BY <1>11 DEF DeltaIsHeard, PageTypes, controller
  <2> QED
    BY <1>10, <1>11, <2>1 DEF DeltaIsHeard, controller
<1>12. CASE SegmentIsHeard
  <2>1. number' \in [Sessions -> 0..MaxUtterances]
    BY <1>12, OneMore DEF SegmentIsHeard, PageTypes, Hearing
  <2> QED
    BY <1>10, <1>12, <2>1 DEF SegmentIsHeard
<1> QED
  BY <1>1, <1>2, <1>3, <1>4, <1>6, <1>7, <1>8, <1>9, <1>11, <1>12 DEF Serves

-----------------------------------------------------------------------------
\* The steps of the event socket and of the page.

LEMMA DeliveryKeepsNotice ==
  ASSUME NoticeInv, Delivers \/ SocketBreaks
  PROVE  NoticeInv'
<1> USE DEF NoticeInv
<1>1. CASE SocketBreaks
  <2>1. PageTypes'
    BY <1>1 DEF SocketBreaks, PageTypes, States, Hearing, controller
  <2>2. inbox' = <<>> /\ socket' = "lost"
    BY <1>1 DEF SocketBreaks
  <2> QED
    BY <2>1, <2>2 DEF Tells, Says
<1>2. CASE SocketReopens
  <2>1. PageTypes'
    BY <1>2 DEF SocketReopens, PageTypes, Hearing, controller, page
  <2> QED
    BY <1>2, <2>1 DEF SocketReopens, controller
<1>3. CASE BootstrapIsSent
  <2>1. Bootstrap \in Messages /\ IsStatus(Bootstrap) /\ Bootstrap.state = state
    BY DEF Bootstrap, Messages, IsStatus, PageTypes
  <2>2. inbox' = <<Bootstrap>> \o inbox /\ inbox \in Seq(Messages) /\ state' = state
    BY <1>3 DEF BootstrapIsSent, BootstrapGoesFirst, PageTypes, controller
  <2>3. inbox' \in Seq(Messages) /\ Tells(inbox', state') /\ Coming(inbox')
    BY <2>1, <2>2, Fronted DEF Tells, Telling
  <2>4. PageTypes'
    BY <1>3, <2>3 DEF BootstrapIsSent, PageTypes, Hearing, controller, page
  <2> QED
    BY <1>3, <2>3, <2>4 DEF BootstrapIsSent
<1>4. CASE HandlesEvent
  <2> DEFINE m == Head(inbox)
  <2>1. /\ inbox \in Seq(Messages) /\ inbox # <<>> /\ inbox' = Tail(inbox)
        /\ UNCHANGED <<state, session, created, number, socket>> /\ socket = "open"
    BY <1>4 DEF HandlesEvent, PageTypes, controller
  <2>2. /\ m \in Messages /\ Tail(inbox) \in Seq(Messages)
        /\ Tells(Tail(inbox), state)
        /\ ~Coming(Tail(inbox)) /\ IsStatus(m) => m.state = state
        /\ ~Coming(Tail(inbox)) /\ ~IsStatus(m) => ~Coming(inbox)
    BY <2>1, Taken DEF Tells, Telling
  <2>3. /\ m.type \in {"status", "bootstrap", "session", "delta", "segment"}
        /\ IsStatus(m) => m.state \in States /\ m.session \in Sessions \cup {None}
        /\ m.type = "session" => m.session \in Sessions
    BY <2>2, MessageFields
  <2>4. CASE IsStatus(m)
    <3>1. /\ shown' = m.state /\ selected' \in Sessions \cup {None} /\ Hears /\ overruled' = FALSE
      BY <1>4, <2>3, <2>4
         DEF HandlesEvent, HandlesStatus, HandlesBootstrap, HandlesSession, HandlesText,
             IsStatus, PageTypes
    <3>2. /\ start' \in Requests /\ start'.pc = start.pc
          /\ start'.pc = "idle" \/ start'.heard
          /\ stop' \in Requests /\ stop'.pc = stop.pc
          /\ stop'.pc = "idle" \/ stop'.heard
      BY <3>1 DEF Hears, Heard, PageTypes, Requests
    <3>3. PageTypes'
      BY <2>1, <2>2, <2>3, <2>4, <3>1, <3>2 DEF PageTypes, Hearing
    <3>4. ~Coming(inbox') => shown' = state'
      BY <2>1, <2>2, <2>4, <3>1
    <3>5. ~Coming(inbox') => Agrees'
      BY <3>2, <3>4 DEF Agrees
    <3> QED
      BY <2>1, <2>2, <3>3, <3>5
  <2>5. CASE ~IsStatus(m)
    <3>1. UNCHANGED <<shown, start, stop, overruled>> /\ selected' \in Sessions \cup {None}
      BY <1>4, <2>3, <2>5
         DEF HandlesEvent, HandlesStatus, HandlesBootstrap, HandlesSession, HandlesText,
             IsStatus, PageTypes
    <3>2. PageTypes'
      BY <2>1, <2>2, <3>1 DEF PageTypes, Hearing
    <3>3. ~Coming(inbox') => ~Coming(inbox)
      BY <2>1, <2>2, <2>5
    <3> QED
      BY <2>1, <2>2, <3>1, <3>2, <3>3 DEF Agrees
  <2> QED
    BY <2>4, <2>5
<1> QED
  BY <1>1, <1>2, <1>3, <1>4 DEF Delivers

LEMMA PageKeepsNotice ==
  ASSUME NoticeInv,
         \/ Answers \/ PageStarts \/ PageStops \/ PreparesNewSession
         \/ \E u \in Sessions : Selects(u)
         \/ \E i \in DOMAIN loads : HistoryIsRead(i) \/ HistoryArrives(i)
         \/ UNCHANGED vars
  PROVE  NoticeInv'
<1> USE DEF NoticeInv
<1>1. CASE StartIsAnswered
  <2>1. start \in Requests /\ start.pc \in {"done", "failed"}
    BY <1>1 DEF StartIsAnswered, PageTypes
  <2>2. /\ start' = NoRequest /\ NoRequest \in Requests /\ NoRequest.pc = "idle"
        /\ UNCHANGED <<controller, socket, inbox, stop>>
    BY <1>1 DEF StartIsAnswered, NoRequest, Requests, States
  <2>3. shown' \in States /\ selected' \in Sessions \cup {None}
    BY <1>1, <2>1 DEF StartIsAnswered, PageTypes, Requests
  <2>4. PageTypes'
    BY <2>2, <2>3 DEF PageTypes, Hearing, controller
  <2>5. ASSUME socket = "open", ~Coming(inbox), ~overruled' PROVE Agrees'
    <3>1. Agrees /\ ~overruled
      BY <1>1, <2>5 DEF StartIsAnswered
    <3>2. CASE start.heard
      <4>1. Active(shown') <=> Active(shown)
        BY <1>1, <2>5, <3>2 DEF StartIsAnswered
      <4> QED
        BY <2>2, <3>1, <3>2, <4>1 DEF Agrees, controller
    <3>3. CASE ~start.heard
      <4>1. start.pc = "failed" /\ (Active(start.before) <=> Active(state))
        BY <2>1, <3>1, <3>3 DEF Agrees
      <4>2. shown' = start.before
        BY <1>1, <4>1 DEF StartIsAnswered
      <4> QED
        BY <2>2, <3>1, <4>1, <4>2 DEF Agrees, controller
    <3> QED
      BY <3>2, <3>3
  <2> QED
    BY <2>2, <2>4, <2>5 DEF controller
<1>2. CASE StopIsAnswered
  <2>1. /\ stop' = NoRequest /\ NoRequest \in Requests /\ NoRequest.pc = "idle"
        /\ UNCHANGED <<controller, socket, inbox, start, selected>>
    BY <1>2 DEF StopIsAnswered, NoRequest, Requests, States
  <2>2. shown' = IF stop.pc = "done" THEN "stopped" ELSE shown
    BY <1>2 DEF StopIsAnswered
  <2>3. PageTypes'
    BY <2>1, <2>2 DEF PageTypes, Hearing, controller, States
  <2>4. ASSUME socket = "open", ~Coming(inbox), ~overruled' PROVE Agrees'
    <3>1. Agrees /\ ~overruled /\ (stop.heard => (Active(shown') <=> Active(shown)))
      BY <1>2, <2>4 DEF StopIsAnswered
    <3>2. CASE stop.pc = "done" /\ ~stop.heard
      <4>1. ~Active(state) /\ ~Active(shown')
        BY <2>2, <3>1, <3>2 DEF Agrees, Active, ActiveStates
      <4> QED
        BY <2>1, <3>1, <4>1 DEF Agrees, controller
    <3>3. CASE stop.pc # "done" \/ stop.heard
      <4>1. Active(shown') <=> Active(shown)
        BY <2>2, <3>1, <3>3
      <4> QED
        BY <2>1, <3>1, <4>1 DEF Agrees, controller
    <3> QED
      BY <3>2, <3>3
  <2> QED
    BY <2>1, <2>3, <2>4 DEF controller
<1>3. CASE PageStarts
  <2>1. /\ start' = Asked(selected) /\ shown' = "starting"
        /\ start.pc = "idle" /\ ~Active(shown)
        /\ UNCHANGED <<controller, socket, inbox, selected, stop, overruled>>
    BY <1>3 DEF PageStarts
  <2>2. /\ start' \in Requests /\ start'.pc = "asked" /\ ~start'.heard
        /\ start'.before = shown
    BY <2>1 DEF Asked, NoRequest, Requests, PageTypes, States
  <2>3. PageTypes'
    BY <2>1, <2>2 DEF PageTypes, Hearing, controller, States
  <2>4. Agrees => Agrees'
    BY <2>1, <2>2 DEF Agrees, controller
  <2> QED
    BY <2>1, <2>3, <2>4 DEF controller
<1>4. CASE PageStops
  <2>1. stop' = Asked(None) /\ UNCHANGED <<controller, socket, inbox, page, start, overruled>>
    BY <1>4 DEF PageStops
  <2>2. stop' \in Requests /\ stop'.pc = "asked"
    BY <2>1 DEF Asked, NoRequest, Requests, PageTypes, States
  <2>3. PageTypes'
    BY <2>1, <2>2 DEF PageTypes, Hearing, controller, page
  <2>4. Agrees => Agrees'
    BY <2>1, <2>2 DEF Agrees, controller, page
  <2> QED
    BY <2>1, <2>3, <2>4 DEF controller
<1>5. CASE PreparesNewSession
  <2>1. /\ shown' = "idle" /\ selected' = None /\ ~Active(shown)
        /\ UNCHANGED <<controller, socket, inbox, start, stop, overruled>>
    BY <1>5 DEF PreparesNewSession
  <2>2. PageTypes' /\ ~Active(shown')
    BY <2>1 DEF PageTypes, Hearing, controller, States, Active, ActiveStates
  <2>3. Agrees => Agrees'
    BY <2>1, <2>2 DEF Agrees, controller
  <2> QED
    BY <2>1, <2>2, <2>3 DEF controller
<1>6. ASSUME UNCHANGED <<controller, socket, inbox, shown, start, stop, overruled>>,
             selected' \in Sessions \cup {None}
      PROVE  NoticeInv'
  <2>1. PageTypes'
    BY <1>6 DEF PageTypes, Hearing, controller
  <2> QED
    BY <1>6, <2>1 DEF Agrees, controller
<1>7. ASSUME NEW u \in Sessions, Selects(u) PROVE NoticeInv'
  BY <1>6, <1>7 DEF Selects
<1>8. ASSUME NEW i \in DOMAIN loads, HistoryIsRead(i) \/ HistoryArrives(i) PROVE NoticeInv'
  BY <1>6, <1>8 DEF HistoryIsRead, HistoryArrives, page, PageTypes
<1>9. CASE UNCHANGED vars
  BY <1>6, <1>9 DEF vars, page, PageTypes
<1> QED
  BY <1>1, <1>2, <1>3, <1>4, <1>5, <1>7, <1>8, <1>9 DEF Answers

-----------------------------------------------------------------------------

LEMMA NoticeInit == Init => NoticeInv
<1> SUFFICES ASSUME Init PROVE NoticeInv
  OBVIOUS
<1>1. PageTypes
  BY PageAssumption DEF Init, PageTypes, States, Hearing, NoRequest, Requests
<1>2. Tells(inbox, state)
  BY DEF Init, Tells, Says
<1>3. Agrees
  BY DEF Init, Agrees, NoRequest
<1> QED
  BY <1>1, <1>2, <1>3 DEF Init, NoticeInv

LEMMA NoticeInvHolds == Spec => []NoticeInv
<1>1. NoticeInv /\ [Next]_vars => NoticeInv'
  BY ControllerKeepsNotice, DeliveryKeepsNotice, PageKeepsNotice DEF Next
<1> QED
  BY <1>1, NoticeInit, PTL DEF Spec

\* The recording notice agrees with the controller once everything has arrived, unless the
\* answer of a request contradicted the events that had overtaken it.
THEOREM NoticeStaysRight == Spec => []NoticeIsRight
<1>1. NoticeInv => NoticeIsRight
  <2>1. ASSUME inbox = <<>> PROVE ~Coming(inbox)
    BY <2>1 DEF Coming
  <2> QED
    BY <2>1 DEF NoticeInv, NoticeIsRight, AtRest, Agrees
<1> QED
  BY <1>1, NoticeInvHolds, PTL

-----------------------------------------------------------------------------
\* The selected session.

\* A start is asked for while nothing is shown to record, and answered with the session it
\* opened, which stays the controller's until another start.
StartKnown ==
    /\ start.pc # "idle" => ~Active(start.before)
    /\ start.pc = "done" => start.target = session

\* What makes the session streaming is told together with it.
SelectionKnown ==
    /\ Followed(inbox)
    /\ state = "streaming" => Names(inbox, session)
    /\ socket = "open" /\ ~Coming(inbox) /\ ~overruled /\ state = "streaming" =>
         selected = session

SelectionInv == NoticeInv /\ StartKnown /\ SelectionKnown

\* A message that makes or ends the streaming is on its way, unless the socket is lost.
LEMMA StatusKeepsSelection ==
  ASSUME SelectionInv, socket' = socket,
         socket # "lost" => /\ state' = "streaming" => Names(inbox', session')
                            /\ Coming(inbox') /\ Followed(inbox'),
         socket = "lost" => inbox' = inbox
  PROVE  SelectionKnown'
<1>1. CASE socket = "lost"
  <2>1. inbox' = <<>>
    BY <1>1 DEF SelectionInv, NoticeInv
  <2>2. Followed(inbox') /\ Names(inbox', session')
    BY <2>1 DEF Followed, Names, Says
  <2> QED
    BY <1>1, <2>2 DEF SelectionKnown
<1>2. CASE socket # "lost"
  BY <1>2 DEF SelectionKnown
<1> QED
  BY <1>1, <1>2

LEMMA ControllerKeepsSelection ==
  ASSUME SelectionInv,
         Serves \/ TrayStops \/ StateChanges \/ DeltaIsHeard \/ SegmentIsHeard
  PROVE  StartKnown' /\ SelectionKnown'
<1> USE DEF SelectionInv
<1>0. PageTypes /\ start \in Requests
  BY DEF NoticeInv, PageTypes
<1>1. CASE StartIsRefused
  <2>1. start'.pc = "failed" /\ start'.before = start.before /\ start.pc = "asked"
    BY <1>0, <1>1 DEF StartIsRefused, Requests
  <2> QED
    BY <1>1, <2>1 DEF StartIsRefused, StartKnown, SelectionKnown, controller, page
\* A controller that comes to a state other than "streaming".
<1>2. ASSUME state' \in States \ {"streaming"}, socket' = socket,
             Publishes(<<Status(state', None)>>)
      PROVE  SelectionKnown'
  <2>1. /\ socket # "lost" => Coming(inbox') /\ Followed(inbox')
        /\ socket = "lost" => inbox' = inbox
    BY <1>0, <1>2, StatusPublished
  <2> QED
    BY <1>2, <2>1, StatusKeepsSelection
<1>3. CASE OpeningBegins
  <2>1. start'.pc = "opening" /\ start'.before = start.before /\ start.pc = "asked"
    BY <1>0, <1>3 DEF OpeningBegins, Requests
  <2>2. state' \in States \ {"streaming"} /\ socket' = socket
        /\ Publishes(<<Status(state', None)>>)
    BY <1>3 DEF OpeningBegins, States
  <2> QED
    BY <1>2, <2>1, <2>2 DEF StartKnown
<1>4. CASE OpeningFails
  <2>1. start'.pc = "failed" /\ start'.before = start.before /\ start.pc = "opening"
    BY <1>0, <1>4 DEF OpeningFails, Requests
  <2>2. state' \in States \ {"streaming"} /\ socket' = socket
        /\ Publishes(<<Status(state', None)>>)
    BY <1>4 DEF OpeningFails, States
  <2> QED
    BY <1>2, <2>1, <2>2 DEF StartKnown
<1>5. ASSUME NEW u \in Sessions, OpeningSucceeds(u) PROVE StartKnown' /\ SelectionKnown'
  <2>1. /\ state' \in States /\ session' = u /\ socket' = socket
        /\ Publishes(<<[type |-> "session", session |-> u], Status(state', u)>>)
    BY <1>5 DEF OpeningSucceeds, States
  <2>2. start'.target = u /\ start'.before = start.before /\ start.pc = "opening"
    BY <1>0, <1>5 DEF OpeningSucceeds, Requests
  <2>3. /\ socket # "lost" => Names(inbox', u) /\ Coming(inbox') /\ Followed(inbox')
        /\ socket = "lost" => inbox' = inbox
    BY <1>0, <2>1, SessionPublished
  <2>4. SelectionKnown'
    BY <2>1, <2>3, StatusKeepsSelection
  <2> QED
    BY <2>1, <2>2, <2>4 DEF StartKnown
<1>6. ASSUME Stops, UNCHANGED <<session, socket, selected, start, overruled>>
      PROVE  StartKnown' /\ SelectionKnown'
  <2>1. CASE state = "stopped"
    BY <1>6, <2>1 DEF Stops, StartKnown, SelectionKnown
  <2>2. CASE state # "stopped"
    <3>1. state' \in States \ {"streaming"} /\ Publishes(<<Status(state', None)>>)
      BY <1>6, <2>2 DEF Stops, States
    <3> QED
      BY <1>2, <1>6, <3>1 DEF StartKnown
  <2> QED
    BY <2>1, <2>2
<1>7. CASE StopIsServed \/ TrayStops
  BY <1>6, <1>7 DEF StopIsServed, TrayStops, page
<1>8. CASE StopIsRefused
  BY <1>8 DEF StopIsRefused, StartKnown, SelectionKnown, controller, page
<1>9. CASE StateChanges
  <2>1. UNCHANGED <<session, socket, start>>
    BY <1>9 DEF StateChanges
  <2>2. CASE state' \in States \ {"streaming"} /\ Publishes(<<Status(state', None)>>)
    BY <1>2, <2>1, <2>2 DEF StartKnown
  <2>3. CASE state' = "streaming" /\ Publishes(<<Status(state', session)>>)
    <3>1. session \in Sessions \cup {None} /\ state' \in States
      BY <1>0, <2>3 DEF PageTypes, States
    <3>2. /\ socket # "lost" => Names(inbox', session) /\ Coming(inbox') /\ Followed(inbox')
          /\ socket = "lost" => inbox' = inbox
      BY <1>0, <2>3, <3>1, StatusPublished
    <3>3. SelectionKnown'
      BY <2>1, <3>2, StatusKeepsSelection
    <3> QED
      BY <2>1, <3>3 DEF StartKnown
  <2> QED
    BY <1>9, <2>2, <2>3 DEF StateChanges, States
<1>10. ASSUME NEW t \in {"delta", "segment"}, Hearing, number[session] < MaxUtterances,
              Publishes(<<[type |-> t, utterance |-> Utterance]>>),
              UNCHANGED <<state, session, socket, selected, start, overruled>>
       PROVE  StartKnown' /\ SelectionKnown'
  <2>1. /\ Coming(inbox') <=> Coming(inbox)
        /\ Names(inbox, session) => Names(inbox', session)
        /\ Followed(inbox) => Followed(inbox')
    BY <1>0, <1>10, TextPublished
  <2> QED
    BY <1>10, <2>1 DEF StartKnown, SelectionKnown
<1>11. CASE DeltaIsHeard \/ SegmentIsHeard
  BY <1>10, <1>11 DEF DeltaIsHeard, SegmentIsHeard, controller, page
<1> QED
  BY <1>1, <1>3, <1>4, <1>5, <1>7, <1>8, <1>9, <1>11 DEF Serves

LEMMA DeliveryKeepsSelection ==
  ASSUME SelectionInv, Delivers \/ SocketBreaks
  PROVE  StartKnown' /\ SelectionKnown'
<1> USE DEF SelectionInv
<1>0. inbox \in Seq(Messages) /\ start \in Requests /\ state \in States
      /\ session \in Sessions \cup {None}
  BY DEF NoticeInv, PageTypes
<1>1. CASE SocketBreaks
  <2>1. inbox' = <<>> /\ socket' = "lost" /\ UNCHANGED <<state, session, start>>
    BY <1>1 DEF SocketBreaks, controller
  <2>2. Followed(inbox') /\ Names(inbox', session')
    BY <2>1 DEF Followed, Names, Says
  <2> QED
    BY <2>1, <2>2 DEF StartKnown, SelectionKnown
<1>2. CASE SocketReopens
  BY <1>2 DEF SocketReopens, StartKnown, SelectionKnown, controller, page
<1>3. CASE BootstrapIsSent
  <2>1. Bootstrap \in Messages /\ IsStatus(Bootstrap) /\ Bootstrap.session = session
    BY <1>0 DEF Bootstrap, Messages, IsStatus
  <2>2. inbox' = <<Bootstrap>> \o inbox /\ UNCHANGED <<state, session, start>>
    BY <1>3 DEF BootstrapIsSent, BootstrapGoesFirst, controller
  <2>3. Says(inbox, Messages)
    BY <1>0 DEF Says
  <2>4. Coming(inbox') /\ (Followed(inbox) => Followed(inbox'))
    BY <1>0, <2>1, <2>2, <2>3, Fronted
  <2>5. Names(inbox, session) => Names(inbox', session)
    BY <1>0, <2>1, <2>2, Fronted DEF Names, Naming
  <2> QED
    BY <2>2, <2>4, <2>5 DEF StartKnown, SelectionKnown
<1>4. CASE HandlesEvent
  <2> DEFINE m == Head(inbox)
             r == Tail(inbox)
  <2>1. /\ inbox # <<>> /\ inbox' = r /\ UNCHANGED <<state, session, socket>>
        /\ HandlesStatus \/ HandlesBootstrap \/ HandlesSession \/ HandlesText
    BY <1>4 DEF HandlesEvent, controller
  <2>2. Says(inbox, Messages)
    BY <1>0 DEF Says
  <2>3. /\ m \in Messages /\ r \in Seq(Messages) /\ Followed(r)
        /\ m.type = "session" => Coming(r)
        /\ ~Coming(r) /\ ~IsStatus(m) => ~Coming(inbox)
    BY <1>0, <2>1, <2>2, Taken DEF SelectionKnown
  <2>4. state = "streaming" => /\ Names(r, session)
                               /\ ~Coming(r) /\ IsStatus(m) => m.session = session
    BY <1>0, <2>1, Taken DEF SelectionKnown, Names, Naming
  <2>5. m.type \in {"status", "bootstrap", "session", "delta", "segment"}
    BY <2>3, MessageFields
  <2>6. start'.pc = start.pc /\ start'.before = start.before /\ start'.target = start.target
    BY <1>0, <2>1 DEF HandlesStatus, HandlesBootstrap, HandlesSession, HandlesText, Hears,
                      Heard, Requests
  <2>7. ASSUME ~Coming(r), ~overruled', state = "streaming" PROVE selected' = session
    <3> HIDE DEF r
    <3>1. CASE IsStatus(m)
      <4>1. session # None
        BY <2>7, PageAssumption DEF NoticeInv, PageTypes, Hearing
      <4> QED
        BY <2>1, <2>4, <2>5, <2>7, <3>1, <4>1
           DEF HandlesStatus, HandlesBootstrap, HandlesSession, HandlesText, IsStatus
    <3>2. CASE ~IsStatus(m)
      <4>1. m.type \in {"delta", "segment"} /\ ~Coming(inbox)
        BY <2>3, <2>5, <2>7, <3>2 DEF IsStatus
      <4>2. UNCHANGED <<selected, overruled>>
        BY <2>1, <4>1 DEF HandlesStatus, HandlesBootstrap, HandlesSession, HandlesText
      <4> QED
        BY <1>4, <2>7, <4>1, <4>2 DEF SelectionKnown, HandlesEvent
    <3> QED
      BY <3>1, <3>2
  <2> HIDE DEF r
  <2> QED
    BY <2>1, <2>3, <2>4, <2>6, <2>7 DEF StartKnown, SelectionKnown
<1> QED
  BY <1>1, <1>2, <1>3, <1>4 DEF Delivers

LEMMA PageKeepsSelection ==
  ASSUME SelectionInv,
         \/ Answers \/ PageStarts \/ PageStops \/ PreparesNewSession
         \/ \E u \in Sessions : Selects(u)
         \/ \E i \in DOMAIN loads : HistoryIsRead(i) \/ HistoryArrives(i)
         \/ UNCHANGED vars
  PROVE  StartKnown' /\ SelectionKnown'
<1> USE DEF SelectionInv
\* Once its streaming has arrived, the page shows that the session is captured.
<1>0. socket = "open" /\ ~Coming(inbox) /\ ~overruled /\ state = "streaming" => Active(shown)
  <2>1. Active("streaming")
    BY DEF Active, ActiveStates
  <2> QED
    BY <2>1 DEF NoticeInv, Agrees, StartKnown
<1>1. CASE StartIsAnswered
  <2>1. start' = NoRequest /\ NoRequest.pc = "idle" /\ UNCHANGED <<controller, socket, inbox>>
    BY <1>1 DEF StartIsAnswered, NoRequest
  <2>2. selected' = selected \/ selected' = session
    BY <1>1 DEF StartIsAnswered, StartKnown
  <2>3. ~overruled' => ~overruled
    BY <1>1 DEF StartIsAnswered
  <2> QED
    BY <2>1, <2>2, <2>3 DEF StartKnown, SelectionKnown, controller
<1>2. CASE StopIsAnswered
  <2>1. UNCHANGED <<controller, socket, inbox, start, selected>> /\ (~overruled' => ~overruled)
    BY <1>2 DEF StopIsAnswered
  <2> QED
    BY <2>1 DEF StartKnown, SelectionKnown, controller
<1>3. CASE PageStarts
  <2>1. UNCHANGED <<controller, socket, inbox, selected, overruled>>
        /\ start' = Asked(selected) /\ ~Active(shown)
    BY <1>3 DEF PageStarts
  <2>2. start'.pc = "asked" /\ start'.before = shown
    BY <2>1 DEF Asked, NoRequest
  <2> QED
    BY <2>1, <2>2 DEF StartKnown, SelectionKnown, controller
<1>4. CASE PageStops
  BY <1>4 DEF PageStops, StartKnown, SelectionKnown, controller, page
<1>5. CASE PreparesNewSession
  <2>1. UNCHANGED <<controller, socket, inbox, start, overruled>> /\ ~Active(shown)
    BY <1>5 DEF PreparesNewSession
  <2> QED
    BY <1>0, <2>1 DEF StartKnown, SelectionKnown, controller
<1>6. ASSUME NEW u \in Sessions, Selects(u) PROVE StartKnown' /\ SelectionKnown'
  <2>1. UNCHANGED <<controller, socket, inbox, start, overruled>>
        /\ (Active(shown) => selected' = selected)
    BY <1>6 DEF Selects, MaySelect
  <2> QED
    BY <1>0, <2>1 DEF StartKnown, SelectionKnown, controller
<1>7. ASSUME NEW i \in DOMAIN loads, HistoryIsRead(i) \/ HistoryArrives(i)
      PROVE  StartKnown' /\ SelectionKnown'
  BY <1>7 DEF HistoryIsRead, HistoryArrives, StartKnown, SelectionKnown, controller, page
<1>8. CASE UNCHANGED vars
  BY <1>8 DEF vars, StartKnown, SelectionKnown, controller, page
<1> QED
  BY <1>1, <1>2, <1>3, <1>4, <1>5, <1>6, <1>7, <1>8 DEF Answers

\* While a session streams, the page has selected it once everything has arrived: text is
\* attributed to it, and a later start resumes it, unless the answer of a request
\* contradicted the events that had overtaken it (handleEvent and selectSession in app.js).
THEOREM SelectionStaysLive == Spec => []SelectedIsLive
<1>1. Init => SelectionInv
  <2> SUFFICES ASSUME Init PROVE SelectionInv
    OBVIOUS
  <2>1. Followed(inbox) /\ Names(inbox, session)
    BY DEF Init, Followed, Names, Says
  <2> QED
    BY <2>1, NoticeInit DEF Init, SelectionInv, StartKnown, SelectionKnown, NoRequest
<1>2. SelectionInv /\ [Next]_vars => SelectionInv'
  <2>1. SelectionInv /\ [Next]_vars => NoticeInv'
    BY ControllerKeepsNotice, DeliveryKeepsNotice, PageKeepsNotice DEF SelectionInv, Next
  <2>2. SelectionInv /\ [Next]_vars => StartKnown' /\ SelectionKnown'
    BY ControllerKeepsSelection, DeliveryKeepsSelection, PageKeepsSelection DEF Next
  <2> QED
    BY <2>1, <2>2 DEF SelectionInv
<1>3. SelectionInv => SelectedIsLive
  <2>1. ASSUME inbox = <<>> PROVE ~Coming(inbox)
    BY <2>1 DEF Coming
  <2> QED
    BY <2>1 DEF SelectionInv, SelectionKnown, SelectedIsLive, AtRest
<1> QED
  BY <1>1, <1>2, <1>3, PTL DEF Spec

-----------------------------------------------------------------------------
\* The timeline.

IsText(m) == m.type \in {"delta", "segment"}

\* A segment is the last that is told of an utterance, and it has been counted.
SegmentsLast ==
    \A i \in DOMAIN inbox : inbox[i].type = "segment" =>
        /\ inbox[i].utterance.number < number[inbox[i].utterance.of]
        /\ \A j \in DOMAIN inbox : j > i /\ IsText(inbox[j]) =>
              inbox[j].utterance # inbox[i].utterance

\* What is shown for good is shown once, and nothing more will come of it.
RowsKnown ==
    \A u \in Utterances : timeline.segments[u] # 0 =>
        /\ timeline.segments[u] = 1 /\ u \notin timeline.pending
        /\ u.number < number[u.of]
        /\ \A i \in DOMAIN inbox : IsText(inbox[i]) => inbox[i].utterance # u

\* A load that nothing meets finds an empty timeline, and nothing that could fill it.
LoadAlone ==
    /\ Len(loads) = 1 /\ ~Active(state)
    /\ \A i \in DOMAIN inbox : ~IsText(inbox[i])
    /\ timeline = NoRows

\* A load has read what the server had.
LoadsRead ==
    \A i \in DOMAIN loads : loads[i].upto # None => loads[i].upto <= number[loads[i].of]

RowsKept ==
    /\ SegmentsLast /\ LoadsRead
    /\ ~mixed => RowsKnown
    /\ ~mixed /\ loads # <<>> => LoadAlone

ViewTypes ==
    /\ timeline \in [pending : SUBSET Utterances, segments : [Utterances -> Nat]]
    /\ loads \in Seq(Loads)
    /\ overruled \in BOOLEAN /\ mixed \in BOOLEAN
    /\ used \in [requests : 0..MaxRequests, upsets : 0..MaxUpsets]

RowsInv == NoticeInv /\ ViewTypes /\ RowsKept

LEMMA TextFields ==
  ASSUME NEW m \in Messages, IsText(m)
  PROVE  /\ m.utterance \in Utterances
         /\ m.utterance.of \in Sessions /\ m.utterance.number \in Nat
<1>1. m.utterance \in Utterances
  BY DEF Messages, IsText
<1> QED
  BY <1>1, PageAssumption DEF Utterances

\* The rows are described by what they show of each utterance.
LEMMA RowsTypes ==
  ASSUME timeline \in [pending : SUBSET Utterances, segments : [Utterances -> Nat]]
  PROVE  /\ NoRows \in [pending : SUBSET Utterances, segments : [Utterances -> Nat]]
         /\ \A u \in Utterances : WithDelta(timeline, u) \in
               [pending : SUBSET Utterances, segments : [Utterances -> Nat]]
         /\ \A S : WithSegments(timeline, S) \in
               [pending : SUBSET Utterances, segments : [Utterances -> Nat]]
<1>1. NoRows \in [pending : SUBSET Utterances, segments : [Utterances -> Nat]]
  BY DEF NoRows
<1>2. \A S : Pending(timeline, S) \subseteq Utterances
  BY DEF Pending
<1>3. ASSUME NEW u \in Utterances
      PROVE  WithDelta(timeline, u) \in
               [pending : SUBSET Utterances, segments : [Utterances -> Nat]]
  <2>1. Pending(timeline, {u.number}) \cup {u} \in SUBSET Utterances
    BY <1>2
  <2> QED
    BY <2>1 DEF WithDelta
<1>4. ASSUME NEW S
      PROVE  WithSegments(timeline, S) \in
               [pending : SUBSET Utterances, segments : [Utterances -> Nat]]
  <2>1. Pending(timeline, {u.number : u \in S}) \in SUBSET Utterances
    BY <1>2
  <2>2. [u \in Utterances |-> timeline.segments[u] + IF u \in S THEN 1 ELSE 0]
           \in [Utterances -> Nat]
    OBVIOUS
  <2> QED
    BY <2>1, <2>2 DEF WithSegments
<1> QED
  BY <1>1, <1>3, <1>4

\* A load that is answered leaves the others as they are.
LEMMA Without ==
  ASSUME NEW s \in Seq(Loads), NEW i \in 1..Len(s)
  PROVE  /\ RemoveAt(s, i) \in Seq(Loads) /\ Len(RemoveAt(s, i)) = Len(s) - 1
         /\ \A j \in 1..Len(s) - 1 : \E k \in 1..Len(s) : RemoveAt(s, i)[j] = s[k]
<1>1. PICK front \in Seq(Loads), back \in Seq(Loads) :
        /\ RemoveAt(s, i) = front \o back
        /\ Len(front) = i - 1 /\ \A j \in 1..i - 1 : front[j] = s[j]
        /\ Len(back) = Len(s) - i /\ \A j \in 1..Len(s) - i : back[j] = s[i + j]
  <2> DEFINE f == SubSeq(s, 1, i - 1)
             b == SubSeq(s, i + 1, Len(s))
  <2>1. f \in Seq(Loads) /\ Len(f) = i - 1 /\ \A j \in 1..i - 1 : f[j] = s[j]
    OBVIOUS
  <2>2. b \in Seq(Loads) /\ Len(b) = Len(s) - i /\ \A j \in 1..Len(s) - i : b[j] = s[i + j]
    OBVIOUS
  <2>3. RemoveAt(s, i) = f \o b
    BY DEF RemoveAt
  <2> HIDE DEF f, b
  <2> QED
    BY <2>1, <2>2, <2>3
<1> DEFINE all == front \o back
<1>2. /\ all \in Seq(Loads) /\ Len(all) = Len(front) + Len(back)
      /\ \A j \in 1..Len(front) : all[j] = front[j]
      /\ \A j \in 1..Len(back) : all[Len(front) + j] = back[j]
  OBVIOUS
<1>3. all = RemoveAt(s, i)
  BY <1>1
<1> HIDE DEF all
<1>4. Len(all) = Len(s) - 1
  BY <1>1, <1>2
<1>5. ASSUME NEW j \in 1..Len(s) - 1 PROVE \E k \in 1..Len(s) : all[j] = s[k]
  <2>1. CASE j < i
    <3>1. j \in 1..i - 1 /\ j \in 1..Len(s)
      BY <2>1
    <3>2. all[j] = front[j]
      BY <1>1, <1>2, <3>1
    <3> QED
      BY <1>1, <3>1, <3>2
  <2>2. CASE ~(j < i)
    <3>1. PICK k \in 1..Len(s) - i : (i - 1) + k = j
      <4>1. j - (i - 1) \in 1..Len(s) - i /\ (i - 1) + (j - (i - 1)) = j
        BY <2>2
      <4> QED
        BY <4>1
    <3>2. all[j] = back[k]
      BY <1>1, <1>2, <3>1
    <3>3. i + k \in 1..Len(s) /\ back[k] = s[i + k]
      BY <1>1, <3>1
    <3> QED
      BY <3>2, <3>3
  <2> QED
    BY <2>1, <2>2
<1> QED
  BY <1>2, <1>3, <1>4, <1>5

\* The texts of a queue r are texts of q, in its order.
TextsAmong(r, q) ==
    \E k \in Int : \A i \in DOMAIN r :
        IsText(r[i]) => i + k \in DOMAIN q /\ r[i] = q[i + k]

\* A message taken off, ...
LEMMA TailTexts ==
  ASSUME NEW q \in Seq(Messages), q # <<>>
  PROVE  TextsAmong(Tail(q), q)
<1> DEFINE r == Tail(q)
<1>1. /\ r \in Seq(Messages) /\ Len(r) = Len(q) - 1 /\ Len(q) \in Nat \ {0}
      /\ \A i \in 1..Len(q) - 1 : r[i] = q[i + 1]
  OBVIOUS
<1> HIDE DEF r
<1>2. \A i \in DOMAIN r : i + 1 \in DOMAIN q /\ r[i] = q[i + 1]
  BY <1>1
<1> QED
  BY <1>2 DEF TextsAmong, r

\* ... one that is no text put in front, ...
LEMMA FrontedTexts ==
  ASSUME NEW q \in Seq(Messages), NEW m \in Messages, ~IsText(m)
  PROVE  TextsAmong(<<m>> \o q, q)
<1> DEFINE r == <<m>> \o q
<1>1. /\ r \in Seq(Messages) /\ Len(r) = 1 + Len(q) /\ Len(q) \in Nat /\ r[1] = m
      /\ \A i \in 1..Len(q) : r[1 + i] = q[i]
  OBVIOUS
<1> HIDE DEF r
<1>2. ASSUME NEW i \in DOMAIN r, IsText(r[i])
      PROVE  i + (-1) \in DOMAIN q /\ r[i] = q[i + (-1)]
  <2>1. i # 1 /\ i \in 1..Len(q) + 1
    BY <1>1, <1>2
  <2>2. i + (-1) \in 1..Len(q) /\ 1 + (i + (-1)) = i
    BY <1>1, <2>1
  <2> QED
    BY <1>1, <2>2
<1>3. -1 \in Int
  OBVIOUS
<1> QED
  BY <1>2, <1>3 DEF TextsAmong, r

\* ... and messages that are no text put behind leave the texts what they are.
LEMMA PublishedTexts ==
  ASSUME PageTypes, NEW e \in Seq(Messages), \A i \in 1..Len(e) : ~IsText(e[i]),
         Publishes(e)
  PROVE  TextsAmong(inbox', inbox)
<1> DEFINE r == inbox \o e
<1>1. inbox \in Seq(Messages)
  BY DEF PageTypes
<1>2. /\ r \in Seq(Messages) /\ Len(r) = Len(inbox) + Len(e)
      /\ Len(inbox) \in Nat /\ Len(e) \in Nat
      /\ \A i \in 1..Len(inbox) : r[i] = inbox[i]
      /\ \A i \in 1..Len(e) : r[Len(inbox) + i] = e[i]
  BY <1>1, Joined
<1> HIDE DEF r
<1>3. ASSUME NEW i \in DOMAIN r, IsText(r[i])
      PROVE  i + 0 \in DOMAIN inbox /\ r[i] = inbox[i + 0]
  <2>1. i \in 1..Len(inbox) + Len(e)
    BY <1>2
  <2>2. CASE i \in 1..Len(inbox)
    BY <1>1, <1>2, <2>2
  <2>3. CASE i \notin 1..Len(inbox)
    <3>1. i - Len(inbox) \in 1..Len(e) /\ Len(inbox) + (i - Len(inbox)) = i
      BY <1>2, <2>1, <2>3
    <3> QED
      BY <1>2, <1>3, <3>1
  <2> QED
    BY <2>2, <2>3
<1>4. TextsAmong(r, inbox)
  BY <1>3 DEF TextsAmong
<1>5. \A i \in DOMAIN inbox : i + 0 \in DOMAIN inbox /\ inbox[i] = inbox[i + 0]
  BY <1>1
<1>6. TextsAmong(inbox, inbox)
  BY <1>5 DEF TextsAmong
<1> QED
  BY <1>4, <1>6 DEF Publishes, r

LEMMA StatusHasNoText ==
  ASSUME PageTypes, NEW s \in States, NEW u \in Sessions \cup {None},
         Publishes(<<Status(s, u)>>)
  PROVE  TextsAmong(inbox', inbox)
<1> DEFINE m == Status(s, u)
           e == <<m>>
<1>1. m \in Messages /\ ~IsText(m)
  BY StatusIsMessage DEF Status, IsText
<1> HIDE DEF m
<1>2. e \in Seq(Messages) /\ \A i \in 1..Len(e) : ~IsText(e[i])
  BY <1>1
<1> QED
  BY <1>2, PublishedTexts DEF m

LEMMA SessionHasNoText ==
  ASSUME PageTypes, NEW s \in States, NEW u \in Sessions,
         Publishes(<<[type |-> "session", session |-> u], Status(s, u)>>)
  PROVE  TextsAmong(inbox', inbox)
<1> DEFINE l == [type |-> "session", session |-> u]
           m == Status(s, u)
           e == <<l, m>>
<1>1. m \in Messages /\ ~IsText(m) /\ l \in Messages /\ ~IsText(l)
  BY StatusIsMessage, SessionIsMessage DEF Status, IsText
<1> HIDE DEF l, m
<1>2. e \in Seq(Messages) /\ \A i \in 1..Len(e) : ~IsText(e[i])
  BY <1>1
<1> QED
  BY <1>2, PublishedTexts DEF l, m

LEMMA SameTexts ==
  ASSUME NEW q \in Seq(Messages)
  PROVE  TextsAmong(q, q) /\ TextsAmong(<<>>, q)
<1>1. \A i \in DOMAIN q : i + 0 \in DOMAIN q /\ q[i] = q[i + 0]
  OBVIOUS
<1>2. TextsAmong(q, q)
  <2>1. 0 \in Int
    OBVIOUS
  <2> QED
    BY <1>1, <2>1 DEF TextsAmong
<1>3. DOMAIN <<>> = {}
  OBVIOUS
<1>4. TextsAmong(<<>>, q)
  <2>1. \A i \in DOMAIN <<>> : IsText(<<>>[i]) => i + 0 \in DOMAIN q /\ <<>>[i] = q[i + 0]
    BY <1>3
  <2>2. 0 \in Int
    OBVIOUS
  <2> QED
    BY <2>1, <2>2 DEF TextsAmong
<1> QED
  BY <1>2, <1>4

\* Fewer texts and higher numbers: a segment stays the last of its utterance, and a load has
\* still read what the server had.
LEMMA TextsKept ==
  ASSUME RowsInv, PageTypes', TextsAmong(inbox', inbox),
         \A u \in Sessions : number[u] <= number'[u]
  PROVE  /\ SegmentsLast'
         /\ loads' = loads => LoadsRead'
<1>0. /\ number \in [Sessions -> Int] /\ number' \in [Sessions -> Int]
      /\ inbox \in Seq(Messages) /\ inbox' \in Seq(Messages)
      /\ loads \in Seq(Loads)
  BY PageAssumption DEF RowsInv, ViewTypes, NoticeInv, PageTypes
<1>1. PICK k \in Int : \A i \in DOMAIN inbox' :
        IsText(inbox'[i]) => i + k \in DOMAIN inbox /\ inbox'[i] = inbox[i + k]
  BY DEF TextsAmong
<1>2. ASSUME NEW i \in DOMAIN inbox', inbox'[i].type = "segment"
      PROVE  /\ inbox'[i].utterance.number < number'[inbox'[i].utterance.of]
             /\ \A j \in DOMAIN inbox' : j > i /\ IsText(inbox'[j]) =>
                   inbox'[j].utterance # inbox'[i].utterance
  <2>1. i + k \in DOMAIN inbox /\ inbox'[i] = inbox[i + k] /\ IsText(inbox[i + k])
    BY <1>1, <1>2 DEF IsText
  <2>2. /\ inbox[i + k].utterance.number < number[inbox[i + k].utterance.of]
        /\ \A j \in DOMAIN inbox : j > i + k /\ IsText(inbox[j]) =>
              inbox[j].utterance # inbox[i + k].utterance
    BY <1>2, <2>1 DEF RowsInv, RowsKept, SegmentsLast
  <2>3. inbox[i + k].utterance.of \in Sessions /\ inbox[i + k].utterance.number \in Int
    <3>1. inbox[i + k] \in Messages
      BY <1>0, <2>1
    <3> QED
      BY <2>1, <3>1, TextFields
  <2>4. inbox'[i].utterance.number < number'[inbox'[i].utterance.of]
    BY <1>0, <2>1, <2>2, <2>3
  <2>5. ASSUME NEW j \in DOMAIN inbox', j > i, IsText(inbox'[j])
        PROVE  inbox'[j].utterance # inbox'[i].utterance
    <3>1. j + k \in DOMAIN inbox /\ inbox'[j] = inbox[j + k]
      BY <1>1, <2>5
    <3>2. i \in Int /\ j \in Int /\ k \in Int
      BY <1>0
    <3>3. j + k > i + k
      BY <2>5, <3>2
    <3> QED
      BY <2>1, <2>2, <2>5, <3>1, <3>3
  <2> QED
    BY <2>4, <2>5
<1>3. ASSUME loads' = loads, NEW i \in 1..Len(loads), loads[i].upto # None
      PROVE  loads[i].upto <= number'[loads[i].of]
  <2>1. loads[i].of \in Sessions /\ loads[i].upto \in Int
    <3>1. loads[i] \in Loads
      BY <1>0
    <3> QED
      BY <1>3, <3>1, PageAssumption DEF Loads
  <2>2. loads[i].upto <= number[loads[i].of]
    BY <1>0, <1>3 DEF RowsInv, RowsKept, LoadsRead
  <2> QED
    BY <1>0, <2>1, <2>2
<1>4. SegmentsLast'
  BY <1>2 DEF SegmentsLast
<1>5. loads' = loads => LoadsRead'
  <2>1. DOMAIN loads = 1..Len(loads)
    BY <1>0
  <2> QED
    BY <1>3, <2>1 DEF LoadsRead
<1> QED
  BY <1>4, <1>5

\* A step that leaves the timeline and the loads alone, and lets no capture begin while one
\* of them is outstanding.
LEMMA QuietKeepsRows ==
  ASSUME RowsInv, PageTypes', TextsAmong(inbox', inbox),
         \A u \in Sessions : number[u] <= number'[u],
         timeline' = timeline, loads' = loads,
         ~mixed' => ~mixed /\ (loads # <<>> => ~Active(state'))
  PROVE  RowsKept'
<1>0. /\ number \in [Sessions -> Int] /\ number' \in [Sessions -> Int]
  BY PageAssumption DEF RowsInv, NoticeInv, PageTypes
<1>1. PICK k \in Int : \A i \in DOMAIN inbox' :
        IsText(inbox'[i]) => i + k \in DOMAIN inbox /\ inbox'[i] = inbox[i + k]
  BY DEF TextsAmong
<1>2. ASSUME ~mixed', NEW u \in Utterances, timeline.segments[u] # 0
      PROVE  /\ timeline.segments[u] = 1 /\ u \notin timeline.pending
             /\ u.number < number'[u.of]
             /\ \A i \in DOMAIN inbox' : IsText(inbox'[i]) => inbox'[i].utterance # u
  <2>1. /\ timeline.segments[u] = 1 /\ u \notin timeline.pending
        /\ u.number < number[u.of]
        /\ \A i \in DOMAIN inbox : IsText(inbox[i]) => inbox[i].utterance # u
    BY <1>2 DEF RowsInv, RowsKept, RowsKnown
  <2>2. u.of \in Sessions /\ u.number \in Int
    BY PageAssumption DEF Utterances
  <2> QED
    BY <1>0, <1>1, <2>1, <2>2
<1>3. ASSUME ~mixed', loads # <<>> PROVE LoadAlone'
  <2>1. LoadAlone
    BY <1>3 DEF RowsInv, RowsKept
  <2> QED
    BY <1>1, <1>3, <2>1 DEF LoadAlone
<1> QED
  BY <1>2, <1>3, TextsKept DEF RowsKept, RowsKnown

\* A step that clears the timeline.
LEMMA ClearKeepsRows ==
  ASSUME RowsInv, PageTypes', TextsAmong(inbox', inbox), UNCHANGED number,
         timeline' = NoRows, LoadsRead',
         ~mixed' /\ loads' # <<>> => LoadAlone'
  PROVE  RowsKept'
<1>1. \A u \in Sessions : number[u] <= number'[u]
  BY PageAssumption DEF RowsInv, NoticeInv, PageTypes
<1>2. \A u \in Utterances : timeline'.segments[u] = 0
  BY DEF NoRows
<1> QED
  BY <1>1, <1>2, TextsKept DEF RowsKept, RowsKnown

\* What is outstanding when the timeline is cleared.
LEMMA ClearedAlone ==
  ASSUME PageTypes, NEW loading \in Seq(Loads), Clears(loading), loads' = loading,
         state' = state, TextsAmong(inbox', inbox)
  PROVE  /\ timeline' = NoRows
         /\ ~mixed' /\ loads' # <<>> => LoadAlone'
<1>1. timeline' = NoRows /\ mixed' = Mixes(loading)
  BY DEF Clears
<1>2. ASSUME ~mixed', loading # <<>>
      PROVE  /\ Len(loading) = 1 /\ ~Active(state)
             /\ \A i \in DOMAIN inbox : ~IsText(inbox[i])
  <2>1. ~Mixes(loading)
    BY <1>1, <1>2
  <2>2. /\ ~(Len(loading) > 1) /\ ~Active(state)
        /\ \A i \in DOMAIN inbox : ~IsText(inbox[i])
    BY <1>2, <2>1 DEF Mixes, IsText
  <2>3. Len(loading) \in Nat /\ Len(loading) # 0
    BY <1>2
  <2>4. \A n \in Nat : n # 0 /\ ~(n > 1) => n = 1
    OBVIOUS
  <2>5. Len(loading) = 1
    BY <2>2, <2>3, <2>4
  <2> QED
    BY <2>2, <2>5
<1>3. ASSUME \A i \in DOMAIN inbox : ~IsText(inbox[i]), NEW i \in DOMAIN inbox'
      PROVE  ~IsText(inbox'[i])
  BY <1>3 DEF TextsAmong
<1> QED
  BY <1>1, <1>2, <1>3 DEF LoadAlone

LEMMA UsedBounded ==
  ASSUME used \in [requests : 0..MaxRequests, upsets : 0..MaxUpsets], Asks \/ Upsets
  PROVE  used' \in [requests : 0..MaxRequests, upsets : 0..MaxUpsets]
BY PageAssumption DEF Asks, Upsets

LEMMA NoticeStep == NoticeInv /\ [Next]_vars => NoticeInv'
BY ControllerKeepsNotice, DeliveryKeepsNotice, PageKeepsNotice DEF Next

\* What the session says is new: no segment of it is on its way or shown, and nothing is
\* outstanding while a session is captured.
LEMMA TextKeepsRows ==
  ASSUME RowsInv, PageTypes', NEW t \in {"delta", "segment"}, Hearing,
         number[session] < MaxUtterances,
         Publishes(<<[type |-> t, utterance |-> Utterance]>>),
         timeline' = timeline, loads' = loads, mixed' = mixed, state' = state,
         number' = number \/ number' = [number EXCEPT ![session] = @ + 1],
         t = "segment" => number' = [number EXCEPT ![session] = @ + 1]
  PROVE  RowsKept'
<1> DEFINE m == [type |-> t, utterance |-> Utterance]
           r == inbox \o <<m>>
<1>0. /\ ViewTypes /\ RowsKept /\ PageTypes /\ inbox \in Seq(Messages)
      /\ number \in [Sessions -> Nat] /\ session \in Sessions
  BY PageAssumption DEF RowsInv, NoticeInv, PageTypes
<1>1. /\ \A u \in Sessions : number[u] <= number'[u]
      /\ t = "segment" => number'[session] = number[session] + 1
  BY <1>0
<1>2. ~mixed => loads = <<>>
  BY <1>0 DEF RowsKept, LoadAlone, Hearing, Active, ActiveStates
<1>3. /\ m \in Messages /\ IsText(m) /\ m.type = t
      /\ m.utterance = Utterance /\ Utterance.of = session
      /\ Utterance.number = number[session]
  BY <1>0, TextIsMessage DEF IsText, Utterance
<1>4. Publishes(<<m>>)
  OBVIOUS
<1> HIDE DEF m
<1>5. CASE inbox' = inbox
  <2>1. TextsAmong(inbox', inbox)
    BY <1>0, <1>5, SameTexts
  <2>2. ~mixed' => ~mixed /\ (loads # <<>> => ~Active(state'))
    BY <1>2
  <2> QED
    BY <1>1, <2>1, <2>2, QuietKeepsRows
<1>6. CASE inbox' = r
  <2>1. /\ r \in Seq(Messages) /\ Len(r) = Len(inbox) + 1 /\ Len(inbox) \in Nat
        /\ \A i \in 1..Len(inbox) : r[i] = inbox[i]
        /\ r[Len(inbox) + 1] = m
    BY <1>0, <1>3
  <2> HIDE DEF r
  <2>2. /\ \A i \in DOMAIN r : i \in DOMAIN inbox \/ i = Len(inbox) + 1
        /\ \A i \in DOMAIN inbox : r[i] = inbox[i] /\ i < Len(inbox) + 1
    BY <2>1
  <2>3. ASSUME NEW i \in DOMAIN inbox, inbox[i].type = "segment"
        PROVE  /\ inbox[i].utterance.number < number'[inbox[i].utterance.of]
               /\ inbox[i].utterance # Utterance
    <3>1. inbox[i].utterance.of \in Sessions /\ inbox[i].utterance.number \in Nat
      BY <1>0, <2>3, TextFields DEF IsText
    <3>2. inbox[i].utterance.number < number[inbox[i].utterance.of]
      BY <1>0, <2>3 DEF RowsKept, SegmentsLast
    <3>3. number' \in [Sessions -> Nat]
      BY PageAssumption DEF PageTypes
    <3> QED
      BY <1>0, <1>1, <1>3, <3>1, <3>2, <3>3
  <2>4. ASSUME NEW i \in DOMAIN r, r[i].type = "segment"
        PROVE  r[i].utterance.number < number'[r[i].utterance.of]
    <3>1. CASE i \in DOMAIN inbox
      BY <2>2, <2>3, <2>4, <3>1
    <3>2. CASE i = Len(inbox) + 1
      BY <1>0, <1>1, <1>3, <2>1, <2>4, <3>2
    <3> QED
      BY <2>2, <3>1, <3>2
  <2>5. ASSUME NEW i \in DOMAIN r, r[i].type = "segment",
               NEW j \in DOMAIN r, j > i, IsText(r[j])
        PROVE  r[j].utterance # r[i].utterance
    <3>1. i \in DOMAIN inbox
      BY <2>1, <2>2, <2>5
    <3>2. CASE j \in DOMAIN inbox
      BY <1>0, <2>2, <2>5, <3>1, <3>2 DEF RowsKept, SegmentsLast
    <3>3. CASE j = Len(inbox) + 1
      BY <1>3, <2>1, <2>2, <2>3, <2>5, <3>1, <3>3
    <3> QED
      BY <2>2, <3>2, <3>3
  <2>6. SegmentsLast'
    BY <1>6, <2>4, <2>5 DEF SegmentsLast
  <2>7. LoadsRead'
    <3>1. ASSUME NEW i \in 1..Len(loads), loads[i].upto # None
          PROVE  loads[i].upto <= number'[loads[i].of]
      <4>1. loads[i].of \in Sessions /\ loads[i].upto \in Nat
        <5>1. loads[i] \in Loads
          BY <1>0 DEF ViewTypes
        <5> QED
          BY <3>1, <5>1, PageAssumption DEF Loads
      <4>2. loads[i].upto <= number[loads[i].of]
        BY <1>0, <3>1 DEF RowsKept, LoadsRead, ViewTypes
      <4>3. number' \in [Sessions -> Nat]
        BY PageAssumption DEF PageTypes
      <4> QED
        BY <1>0, <1>1, <4>1, <4>2, <4>3
    <3>2. DOMAIN loads = 1..Len(loads)
      BY <1>0 DEF ViewTypes
    <3> QED
      BY <3>1, <3>2 DEF LoadsRead
  <2>8. ASSUME ~mixed, NEW u \in Utterances, timeline.segments[u] # 0
        PROVE  /\ timeline.segments[u] = 1 /\ u \notin timeline.pending
               /\ u.number < number'[u.of]
               /\ \A i \in DOMAIN r : IsText(r[i]) => r[i].utterance # u
    <3>1. /\ timeline.segments[u] = 1 /\ u \notin timeline.pending
          /\ u.number < number[u.of]
          /\ \A i \in DOMAIN inbox : IsText(inbox[i]) => inbox[i].utterance # u
      BY <1>0, <2>8 DEF RowsKept, RowsKnown
    <3>2. u.of \in Sessions /\ u.number \in Nat
      BY PageAssumption DEF Utterances
    <3>3. number' \in [Sessions -> Nat]
      BY PageAssumption DEF PageTypes
    <3>4. u.number < number'[u.of] /\ Utterance # u
      BY <1>0, <1>1, <1>3, <3>1, <3>2, <3>3
    <3> QED
      BY <1>3, <2>1, <2>2, <3>1, <3>4
  <2> QED
    BY <1>2, <1>6, <2>6, <2>7, <2>8 DEF RowsKept, RowsKnown
<1> QED
  BY <1>4, <1>5, <1>6 DEF Publishes

LEMMA ControllerKeepsRows ==
  ASSUME RowsInv, PageTypes',
         Serves \/ TrayStops \/ StateChanges \/ DeltaIsHeard \/ SegmentIsHeard
  PROVE  ViewTypes' /\ RowsKept'
<1>0. /\ ViewTypes /\ RowsKept /\ PageTypes /\ inbox \in Seq(Messages)
      /\ number \in [Sessions -> Nat] /\ MaxUtterances \in Nat
  BY PageAssumption DEF RowsInv, NoticeInv, PageTypes
<1>a. number' = number => \A u \in Sessions : number[u] <= number'[u]
  BY <1>0
<1>b. ASSUME NEW u \in Sessions, number' = [number EXCEPT ![u] = @ + 1]
      PROVE  /\ \A v \in Sessions : number[v] <= number'[v]
             /\ number'[u] = number[u] + 1
  BY <1>0, <1>b
<1>1. ViewTypes'
  <2>1. /\ UNCHANGED <<timeline, loads, overruled>>
        /\ used' = used \/ Upsets
        /\ mixed' = mixed \/ mixed' = (mixed \/ loads # <<>>)
    BY DEF Serves, StartIsRefused, OpeningBegins, OpeningFails, OpeningSucceeds, StopIsServed,
           StopIsRefused, TrayStops, StateChanges, DeltaIsHeard, SegmentIsHeard, page
  <2>2. used' \in [requests : 0..MaxRequests, upsets : 0..MaxUpsets]
    BY <1>0, <2>1, UsedBounded DEF ViewTypes
  <2> QED
    BY <1>0, <2>1, <2>2 DEF ViewTypes
<1> SUFFICES RowsKept'
  BY <1>1
<1>c. TextsAmong(inbox, inbox)
  BY <1>0, SameTexts
<1>2. CASE StartIsRefused \/ StopIsRefused
  <2>1. number' = number /\ timeline' = timeline /\ loads' = loads
    BY <1>2 DEF StartIsRefused, StopIsRefused, controller, page
  <2>2. mixed' = mixed /\ state' = state /\ inbox' = inbox
    BY <1>2 DEF StartIsRefused, StopIsRefused, controller
  <2>3. ~mixed' => ~mixed /\ (loads # <<>> => ~Active(state'))
    BY <1>0, <2>2 DEF RowsKept, LoadAlone
  <2>4. TextsAmong(inbox', inbox)
    BY <1>c, <2>2
  <2>5. \A u \in Sessions : number[u] <= number'[u]
    BY <1>a, <2>1
  <2> QED
    BY <2>1, <2>3, <2>4, <2>5, QuietKeepsRows
<1>3. CASE OpeningBegins
  <2>1. /\ number' = number /\ timeline' = timeline /\ loads' = loads /\ mixed' = (mixed \/ loads # <<>>)
        /\ Publishes(<<Status("starting", None)>>)
    BY <1>3 DEF OpeningBegins, page
  <2>2. TextsAmong(inbox', inbox)
    BY <1>0, <2>1, StatusHasNoText DEF States
  <2>3. ~mixed' => ~mixed /\ (loads # <<>> => ~Active(state'))
    BY <2>1
  <2> QED
    BY <1>a, <2>1, <2>2, <2>3, QuietKeepsRows
<1>4. CASE OpeningFails
  <2>1. /\ number' = number /\ timeline' = timeline /\ loads' = loads /\ mixed' = mixed /\ state' = "failed"
        /\ Publishes(<<Status("failed", None)>>)
    BY <1>4 DEF OpeningFails, page
  <2>2. TextsAmong(inbox', inbox)
    BY <1>0, <2>1, StatusHasNoText DEF States
  <2>3. ~mixed' => ~mixed /\ (loads # <<>> => ~Active(state'))
    BY <2>1 DEF Active, ActiveStates
  <2> QED
    BY <1>a, <2>1, <2>2, <2>3, QuietKeepsRows
<1>5. ASSUME NEW u \in Sessions, OpeningSucceeds(u) PROVE RowsKept'
  <2>1. /\ number' = number /\ timeline' = timeline /\ loads' = loads /\ mixed' = (mixed \/ loads # <<>>)
        /\ Publishes(<<[type |-> "session", session |-> u], Status("streaming", u)>>)
    BY <1>5 DEF OpeningSucceeds, page
  <2>2. TextsAmong(inbox', inbox)
    BY <1>0, <2>1, SessionHasNoText DEF States
  <2>3. ~mixed' => ~mixed /\ (loads # <<>> => ~Active(state'))
    BY <2>1
  <2> QED
    BY <1>a, <2>1, <2>2, <2>3, QuietKeepsRows
<1>6. CASE StopIsServed \/ TrayStops
  <2>1. number' = number /\ timeline' = timeline /\ loads' = loads /\ mixed' = mixed /\ Stops
    BY <1>6 DEF StopIsServed, TrayStops, page
  <2>2. CASE state = "stopped"
    <3>1. state' = state /\ inbox' = inbox
      BY <2>1, <2>2 DEF Stops
    <3>2. ~mixed' => ~mixed /\ (loads # <<>> => ~Active(state'))
      BY <1>0, <2>1, <3>1 DEF RowsKept, LoadAlone
    <3> QED
      BY <1>a, <1>c, <2>1, <3>1, <3>2, QuietKeepsRows
  <2>3. CASE state # "stopped"
    <3>1. state' = "stopped" /\ Publishes(<<Status("stopped", None)>>)
      BY <2>1, <2>3 DEF Stops
    <3>2. TextsAmong(inbox', inbox)
      BY <1>0, <3>1, StatusHasNoText DEF States
    <3>3. ~mixed' => ~mixed /\ (loads # <<>> => ~Active(state'))
      BY <2>1, <3>1 DEF Active, ActiveStates
    <3> QED
      BY <1>a, <2>1, <3>2, <3>3, QuietKeepsRows
  <2> QED
    BY <2>2, <2>3
<1>7. CASE StateChanges
  <2>1. timeline' = timeline /\ loads' = loads /\ mixed' = (mixed \/ loads # <<>>)
    BY <1>7 DEF StateChanges, page
  <2>2. ~mixed' => ~mixed /\ (loads # <<>> => ~Active(state'))
    BY <2>1
  <2>3. /\ TextsAmong(inbox', inbox)
        /\ \A u \in Sessions : number[u] <= number'[u]
    <3>1. CASE state' \in States /\ Publishes(<<Status(state', None)>>) /\ UNCHANGED number
      BY <1>0, <1>a, <3>1, StatusHasNoText
    <3>2. CASE state = "reconnecting" /\ Publishes(<<Status("streaming", session)>>)
               /\ (UNCHANGED number \/ number' = [number EXCEPT ![session] = @ + 1])
      <4>1. session \in Sessions
        BY <1>0, <3>2 DEF PageTypes, Hearing
      <4>2. \A u \in Sessions : number[u] <= number'[u]
        BY <1>a, <1>b, <3>2, <4>1
      <4> QED
        BY <1>0, <3>2, <4>1, <4>2, StatusHasNoText DEF States
    <3> QED
      BY <1>7, <3>1, <3>2 DEF StateChanges, States
  <2> QED
    BY <2>1, <2>2, <2>3, QuietKeepsRows
<1>8. CASE DeltaIsHeard
  <2>1. /\ Hearing /\ number[session] < MaxUtterances /\ state' = state /\ mixed' = mixed
        /\ Publishes(<<[type |-> "delta", utterance |-> Utterance]>>)
        /\ timeline' = timeline /\ loads' = loads /\ number' = number
    BY <1>8 DEF DeltaIsHeard, controller, page
  <2> QED
    BY <2>1, TextKeepsRows
<1>9. CASE SegmentIsHeard
  <2>1. /\ Hearing /\ number[session] < MaxUtterances /\ state' = state /\ mixed' = mixed
        /\ Publishes(<<[type |-> "segment", utterance |-> Utterance]>>)
        /\ timeline' = timeline /\ loads' = loads
        /\ number' = [number EXCEPT ![session] = @ + 1]
    BY <1>9 DEF SegmentIsHeard, page
  <2> QED
    BY <2>1, TextKeepsRows
<1> QED
  BY <1>2, <1>3, <1>4, <1>5, <1>6, <1>7, <1>8, <1>9 DEF Serves

\* A text that is shown was the next of its utterance, and a segment is its last.
LEMMA HandledTextKeepsRows ==
  ASSUME RowsInv, PageTypes', inbox # <<>>, inbox' = Tail(inbox), HandlesText,
         loads' = loads, state' = state, number' = number
  PROVE  timeline' \in [pending : SUBSET Utterances, segments : [Utterances -> Nat]]
         /\ RowsKept'
<1> DEFINE m == Head(inbox)
           w == m.utterance
<1>0. /\ ViewTypes /\ RowsKept /\ PageTypes /\ inbox \in Seq(Messages)
      /\ number \in [Sessions -> Nat] /\ 1 \in DOMAIN inbox /\ inbox[1] = m
      /\ m \in Messages
  BY PageAssumption DEF RowsInv, NoticeInv, PageTypes
<1>1. /\ IsText(m) /\ mixed' = mixed
      /\ \/ m.type = "delta" /\ timeline' = WithDelta(timeline, w)
         \/ m.type = "segment" /\ timeline' = WithSegments(timeline, {w})
  BY DEF HandlesText, IsText
<1>2. w \in Utterances /\ w.of \in Sessions /\ w.number \in Nat
  BY <1>0, <1>1, TextFields
<1> HIDE DEF m
<1> DEFINE q == Tail(inbox)
<1>3. /\ q \in Seq(Messages) /\ Len(q) = Len(inbox) - 1 /\ Len(inbox) \in Nat
      /\ \A i \in 1..Len(inbox) - 1 : q[i] = inbox[i + 1]
  BY <1>0
<1>4. inbox' = q /\ TextsAmong(q, inbox)
  BY <1>0, TailTexts
<1> HIDE DEF q
<1>5. ASSUME NEW i \in DOMAIN q
      PROVE  i + 1 \in DOMAIN inbox /\ q[i] = inbox[i + 1] /\ i + 1 > 1
  BY <1>0, <1>3
<1>6. SegmentsLast' /\ LoadsRead'
  <2>1. \A u \in Sessions : number[u] <= number'[u]
    BY <1>0
  <2> QED
    BY <1>4, <2>1, TextsKept
<1>7. ~mixed => loads = <<>>
  BY <1>0, <1>1 DEF RowsKept, LoadAlone
<1>8. ASSUME ~mixed PROVE timeline.segments[w] = 0
  BY <1>0, <1>1, <1>2, <1>8 DEF RowsKept, RowsKnown, ViewTypes
<1>9. ASSUME ~mixed, NEW u \in Utterances, timeline.segments[u] # 0
      PROVE  /\ timeline.segments[u] = 1 /\ u \notin timeline.pending /\ u # w
             /\ u.number < number[u.of]
             /\ \A i \in DOMAIN q : IsText(q[i]) => q[i].utterance # u
  <2>1. /\ timeline.segments[u] = 1 /\ u \notin timeline.pending
        /\ u.number < number[u.of]
        /\ \A i \in DOMAIN inbox : IsText(inbox[i]) => inbox[i].utterance # u
    BY <1>0, <1>9 DEF RowsKept, RowsKnown
  <2> QED
    BY <1>5, <1>8, <1>9, <2>1
<1>10. timeline' \in [pending : SUBSET Utterances, segments : [Utterances -> Nat]]
  BY <1>0, <1>1, <1>2, RowsTypes DEF ViewTypes
<1>11. CASE m.type = "delta" /\ timeline' = WithDelta(timeline, w)
  <2>1. /\ timeline'.segments = timeline.segments
        /\ \A u \in timeline'.pending : u \in timeline.pending \/ u = w
    BY <1>0, <1>11 DEF WithDelta, Pending, ViewTypes
  <2>2. ~mixed' => RowsKnown'
    BY <1>1, <1>4, <1>9, <2>1 DEF RowsKnown
  <2> QED
    BY <1>1, <1>6, <1>7, <1>10, <2>2 DEF RowsKept
<1>12. CASE m.type = "segment" /\ timeline' = WithSegments(timeline, {w})
  <2>1. /\ \A u \in Utterances : timeline'.segments[u] =
               timeline.segments[u] + IF u = w THEN 1 ELSE 0
        /\ timeline'.pending = Pending(timeline, {u.number : u \in {w}})
    BY <1>12 DEF WithSegments
  <2>2. w \notin timeline'.pending /\ \A u \in timeline'.pending : u \in timeline.pending
    BY <2>1 DEF Pending
  <2>3. /\ w.number < number[w.of]
        /\ \A i \in DOMAIN q : IsText(q[i]) => q[i].utterance # w
    <3>1. /\ w.number < number[w.of]
          /\ \A j \in DOMAIN inbox : j > 1 /\ IsText(inbox[j]) => inbox[j].utterance # w
      BY <1>0, <1>12 DEF RowsKept, SegmentsLast
    <3> QED
      BY <1>5, <3>1
  <2>4. ASSUME ~mixed, NEW u \in Utterances, timeline'.segments[u] # 0
        PROVE  /\ timeline'.segments[u] = 1 /\ u \notin timeline'.pending
               /\ u.number < number[u.of]
               /\ \A i \in DOMAIN q : IsText(q[i]) => q[i].utterance # u
    <3>1. CASE u = w
      BY <1>8, <2>1, <2>2, <2>3, <2>4, <3>1
    <3>2. CASE u # w
      <4>1. timeline'.segments[u] = timeline.segments[u]
        BY <1>0, <2>1, <3>2 DEF ViewTypes
      <4> QED
        BY <1>9, <2>2, <2>4, <4>1
    <3> QED
      BY <3>1, <3>2
  <2>5. ~mixed' => RowsKnown'
    BY <1>1, <1>4, <2>4 DEF RowsKnown
  <2> QED
    BY <1>1, <1>6, <1>7, <1>10, <2>5 DEF RowsKept
<1> QED
  BY <1>1, <1>11, <1>12

LEMMA DeliveryKeepsRows ==
  ASSUME RowsInv, PageTypes', Delivers \/ SocketBreaks
  PROVE  ViewTypes' /\ RowsKept'
<1>0. /\ ViewTypes /\ RowsKept /\ PageTypes /\ inbox \in Seq(Messages)
      /\ \A u \in Sessions : number[u] <= number[u]
  BY PageAssumption DEF RowsInv, NoticeInv, PageTypes
<1>1. ~mixed => ~mixed /\ (loads # <<>> => ~Active(state))
  BY <1>0 DEF RowsKept, LoadAlone
<1>2. CASE SocketBreaks
  <2>1. /\ inbox' = <<>> /\ timeline' = timeline /\ loads' = loads /\ mixed' = mixed
        /\ state' = state /\ number' = number /\ overruled' = overruled /\ Upsets
    BY <1>2 DEF SocketBreaks, controller
  <2>2. TextsAmong(inbox', inbox)
    BY <1>0, <2>1, SameTexts
  <2>3. ViewTypes'
    BY <1>0, <2>1, UsedBounded DEF ViewTypes
  <2>4. \A u \in Sessions : number[u] <= number'[u]
    BY <1>0, <2>1
  <2>5. ~mixed' => ~mixed /\ (loads # <<>> => ~Active(state'))
    BY <1>1, <2>1
  <2>6. RowsKept'
    BY <2>1, <2>2, <2>4, <2>5, QuietKeepsRows
  <2> QED
    BY <2>3, <2>6
<1>3. CASE SocketReopens \/ BootstrapIsSent
  <2>1. /\ timeline' = timeline /\ loads' = loads /\ mixed' = mixed /\ used' = used
        /\ state' = state /\ number' = number /\ overruled' = overruled
    BY <1>3 DEF SocketReopens, BootstrapIsSent, controller, page
  <2>2. TextsAmong(inbox', inbox)
    <3>1. CASE inbox' = inbox
      BY <1>0, <3>1, SameTexts
    <3>2. CASE inbox' = <<Bootstrap>> \o inbox
      <4>1. Bootstrap \in Messages /\ ~IsText(Bootstrap)
        BY <1>0 DEF Bootstrap, Messages, IsText, PageTypes
      <4> QED
        BY <1>0, <3>2, <4>1, FrontedTexts
    <3> QED
      BY <1>3, <3>1, <3>2 DEF SocketReopens, BootstrapIsSent, BootstrapGoesFirst
  <2>3. ViewTypes'
    BY <1>0, <2>1 DEF ViewTypes
  <2>4. \A u \in Sessions : number[u] <= number'[u]
    BY <1>0, <2>1
  <2>5. ~mixed' => ~mixed /\ (loads # <<>> => ~Active(state'))
    BY <1>1, <2>1
  <2>6. RowsKept'
    BY <2>1, <2>2, <2>4, <2>5, QuietKeepsRows
  <2> QED
    BY <2>3, <2>6
<1>4. CASE HandlesEvent
  <2>1. /\ inbox # <<>> /\ inbox' = Tail(inbox) /\ loads' = loads /\ used' = used
        /\ state' = state /\ number' = number
        /\ HandlesStatus \/ HandlesBootstrap \/ HandlesSession \/ HandlesText
    BY <1>4 DEF HandlesEvent, controller
  <2>2. TextsAmong(inbox', inbox)
    BY <1>0, <2>1, TailTexts
  <2>3. overruled' \in BOOLEAN
    BY <1>0, <2>1 DEF ViewTypes, HandlesStatus, HandlesBootstrap, HandlesSession, HandlesText
  <2>4. \A u \in Sessions : number[u] <= number'[u]
    BY <1>0, <2>1
  <2>5. CASE HandlesStatus \/ HandlesSession
    <3>1. timeline' = timeline /\ mixed' = mixed
      BY <2>5 DEF HandlesStatus, HandlesSession
    <3>2. ViewTypes'
      BY <1>0, <2>1, <2>3, <3>1 DEF ViewTypes
    <3>3. ~mixed' => ~mixed /\ (loads # <<>> => ~Active(state'))
      BY <1>1, <2>1, <3>1
    <3>4. RowsKept'
      BY <2>1, <2>2, <2>4, <3>1, <3>3, QuietKeepsRows
    <3> QED
      BY <3>2, <3>4
  <2>6. CASE HandlesBootstrap
    <3>1. Clears(loads) /\ loads \in Seq(Loads)
      BY <1>0, <2>6 DEF HandlesBootstrap, ViewTypes
    <3>2. timeline' = NoRows /\ (~mixed' /\ loads' # <<>> => LoadAlone')
      BY <1>0, <2>1, <2>2, <3>1, ClearedAlone
    <3>3. LoadsRead'
      BY <2>1, <2>2, <2>4, TextsKept
    <3>4. RowsKept'
      BY <2>1, <2>2, <3>2, <3>3, ClearKeepsRows
    <3>5. mixed' \in BOOLEAN
      BY <3>1 DEF Clears, Mixes
    <3>6. timeline' \in [pending : SUBSET Utterances, segments : [Utterances -> Nat]]
      BY <1>0, <3>2, RowsTypes DEF ViewTypes
    <3> QED
      BY <1>0, <2>1, <2>3, <3>4, <3>5, <3>6 DEF ViewTypes
  <2>7. CASE HandlesText
    <3>1. mixed' = mixed
      BY <2>7 DEF HandlesText
    <3>2. timeline' \in [pending : SUBSET Utterances, segments : [Utterances -> Nat]]
          /\ RowsKept'
      BY <2>1, <2>7, HandledTextKeepsRows
    <3> QED
      BY <1>0, <2>1, <2>3, <3>1, <3>2 DEF ViewTypes
  <2> QED
    BY <2>1, <2>5, <2>6, <2>7
<1> QED
  BY <1>2, <1>3, <1>4 DEF Delivers

\* A load that is alone fills an empty timeline with segments that the server has counted
\* and that nothing on its way repeats.
LEMMA HistoryKeepsRows ==
  ASSUME RowsInv, PageTypes', NEW i \in DOMAIN loads, HistoryArrives(i)
  PROVE  ViewTypes' /\ RowsKept'
<1>0. /\ ViewTypes /\ RowsKept /\ PageTypes /\ inbox \in Seq(Messages)
      /\ loads \in Seq(Loads) /\ i \in 1..Len(loads) /\ number \in [Sessions -> Nat]
      /\ \A u \in Sessions : number[u] <= number[u]
  <2>1. ViewTypes /\ RowsKept /\ PageTypes
    BY DEF RowsInv, NoticeInv
  <2>2. loads \in Seq(Loads) /\ inbox \in Seq(Messages)
    BY <2>1 DEF ViewTypes, PageTypes
  <2>3. i \in 1..Len(loads)
    BY <2>2
  <2>4. number \in [Sessions -> Nat]
    BY <2>1, PageAssumption DEF PageTypes
  <2>5. \A u \in Sessions : number[u] <= number[u]
    BY <2>4
  <2> QED
    BY <2>1, <2>2, <2>3, <2>4, <2>5
<1>1. /\ loads[i].upto # None /\ loads' = RemoveAt(loads, i)
      /\ inbox' = inbox /\ number' = number /\ state' = state /\ mixed' = mixed
      /\ overruled' = overruled /\ used' = used
      /\ \/ timeline' = WithSegments(timeline, History(loads[i].of, loads[i].upto))
         \/ timeline' = timeline
  BY DEF HistoryArrives, controller
<1>2. /\ loads' \in Seq(Loads) /\ Len(loads') = Len(loads) - 1
      /\ \A j \in 1..Len(loads) - 1 : \E k \in 1..Len(loads) : loads'[j] = loads[k]
  <2>1. loads \in Seq(Loads) /\ i \in 1..Len(loads)
    BY <1>0
  <2>2. \A s \in Seq(Loads) : \A k \in 1..Len(s) :
          /\ RemoveAt(s, k) \in Seq(Loads) /\ Len(RemoveAt(s, k)) = Len(s) - 1
          /\ \A j \in 1..Len(s) - 1 : \E l \in 1..Len(s) : RemoveAt(s, k)[j] = s[l]
    BY Without, Zenon
  <2>3. /\ RemoveAt(loads, i) \in Seq(Loads) /\ Len(RemoveAt(loads, i)) = Len(loads) - 1
        /\ \A j \in 1..Len(loads) - 1 :
              \E l \in 1..Len(loads) : RemoveAt(loads, i)[j] = loads[l]
    BY <2>1, <2>2, Zenon
  <2>4. loads' = RemoveAt(loads, i)
    BY <1>1
  <2> QED
    BY <2>3, <2>4, Zenon
<1>3. timeline' \in [pending : SUBSET Utterances, segments : [Utterances -> Nat]]
  BY <1>0, <1>1, RowsTypes DEF ViewTypes
<1>4. ViewTypes'
  BY <1>0, <1>1, <1>2, <1>3 DEF ViewTypes
<1>5. SegmentsLast'
  BY <1>0, <1>1 DEF RowsKept, SegmentsLast
<1>6. LoadsRead'
  <2>1. ASSUME NEW j \in DOMAIN loads', loads'[j].upto # None
        PROVE  loads'[j].upto <= number[loads'[j].of]
    <3>1. j \in 1..Len(loads) - 1
      BY <1>2
    <3>2. PICK k \in 1..Len(loads) : loads'[j] = loads[k]
      BY <1>2, <3>1
    <3> QED
      BY <1>0, <2>1, <3>2 DEF RowsKept, LoadsRead
  <2> QED
    BY <1>1, <2>1 DEF LoadsRead
<1>7. ASSUME ~mixed
      PROVE  RowsKnown' /\ loads' = <<>>
  <2>1. LoadAlone
    BY <1>0, <1>7 DEF RowsKept
  <2>2. Len(loads') = 0
    BY <1>0, <1>2, <2>1 DEF LoadAlone
  <2>3. loads' = <<>>
    BY <1>2, <2>2
  <2>4. timeline = NoRows /\ \A j \in DOMAIN inbox : ~IsText(inbox[j])
    BY <2>1 DEF LoadAlone
  <2>5. CASE timeline' = timeline
    BY <2>3, <2>4, <2>5 DEF RowsKnown, NoRows
  <2>6. CASE timeline' = WithSegments(timeline, History(loads[i].of, loads[i].upto))
    <3> DEFINE S == History(loads[i].of, loads[i].upto)
    <3>1. /\ \A u \in Utterances : timeline'.segments[u] = 0 + IF u \in S THEN 1 ELSE 0
          /\ timeline'.pending = {}
      BY <2>4, <2>6 DEF WithSegments, NoRows, Pending
    <3>2. ASSUME NEW u \in S PROVE u.number < number[u.of]
      <4>1. u \in Utterances /\ u.of = loads[i].of /\ u.number < loads[i].upto
        BY <3>2 DEF History
      <4>2. u.of \in Sessions /\ u.number \in Nat
        BY <4>1, PageAssumption DEF Utterances
      <4>3. loads[i].upto <= number[u.of]
        BY <1>0, <1>1, <4>1 DEF RowsKept, LoadsRead
      <4>4. loads[i].upto \in Nat
        <5>1. loads[i] \in Loads
          BY <1>0
        <5> QED
          BY <1>1, <5>1, PageAssumption DEF Loads
      <4> QED
        BY <1>0, <4>1, <4>2, <4>3, <4>4
    <3> HIDE DEF S
    <3>3. ASSUME NEW u \in Utterances, timeline'.segments[u] # 0 PROVE u \in S
      BY <3>1, <3>3
    <3> QED
      BY <1>1, <2>3, <2>4, <3>1, <3>2, <3>3 DEF RowsKnown
  <2> QED
    BY <1>1, <2>3, <2>5, <2>6
<1> QED
  BY <1>1, <1>4, <1>5, <1>6, <1>7 DEF RowsKept

LEMMA PageKeepsRows ==
  ASSUME RowsInv, PageTypes',
         \/ Answers \/ PageStarts \/ PageStops \/ PreparesNewSession
         \/ \E u \in Sessions : Selects(u)
         \/ \E i \in DOMAIN loads : HistoryIsRead(i) \/ HistoryArrives(i)
         \/ UNCHANGED vars
  PROVE  ViewTypes' /\ RowsKept'
<1>0. /\ ViewTypes /\ RowsKept /\ PageTypes /\ inbox \in Seq(Messages)
      /\ loads \in Seq(Loads) /\ number \in [Sessions -> Nat]
      /\ NoRows \in [pending : SUBSET Utterances, segments : [Utterances -> Nat]]
  <2>1. ViewTypes /\ RowsKept /\ PageTypes
    BY DEF RowsInv, NoticeInv
  <2>2. NoRows \in [pending : SUBSET Utterances, segments : [Utterances -> Nat]]
    BY <2>1, RowsTypes DEF ViewTypes
  <2>3. inbox \in Seq(Messages) /\ number \in [Sessions -> Nat]
    BY <2>1, PageAssumption DEF PageTypes
  <2> QED
    BY <2>1, <2>2, <2>3 DEF ViewTypes
<1>1. ASSUME inbox' = inbox, number' = number
      PROVE  /\ TextsAmong(inbox', inbox)
             /\ \A u \in Sessions : number[u] <= number'[u]
  BY <1>0, <1>1, SameTexts
<1>2. ~mixed => ~mixed /\ (loads # <<>> => ~Active(state))
  BY <1>0 DEF RowsKept, LoadAlone
<1>3. CASE Answers \/ PageStops \/ UNCHANGED vars
  <2>1. /\ inbox' = inbox /\ number' = number /\ state' = state /\ timeline' = timeline
        /\ loads' = loads /\ mixed' = mixed
    BY <1>3 DEF Answers, StartIsAnswered, StopIsAnswered, PageStops, vars, controller, page
  <2>2. overruled' \in BOOLEAN /\ (used' = used \/ Asks)
    BY <1>0, <1>3 DEF Answers, StartIsAnswered, StopIsAnswered, PageStops, vars, ViewTypes
  <2>3. ViewTypes'
    BY <1>0, <2>1, <2>2, UsedBounded DEF ViewTypes
  <2>4. ~mixed' => ~mixed /\ (loads # <<>> => ~Active(state'))
    BY <1>2, <2>1
  <2>5. RowsKept'
    BY <1>1, <2>1, <2>4, QuietKeepsRows
  <2> QED
    BY <2>3, <2>5
<1>4. CASE PageStarts
  <2>1. /\ inbox' = inbox /\ number' = number /\ timeline' = NoRows /\ loads' = loads
        /\ mixed' = (loads # <<>>) /\ overruled' = overruled /\ Asks
    BY <1>4 DEF PageStarts, controller
  <2>2. ViewTypes'
    BY <1>0, <2>1, UsedBounded DEF ViewTypes
  <2>3. LoadsRead'
    BY <1>1, <2>1, TextsKept
  <2>4. ~mixed' /\ loads' # <<>> => LoadAlone'
    BY <2>1
  <2>5. RowsKept'
    BY <1>1, <2>1, <2>3, <2>4, ClearKeepsRows
  <2> QED
    BY <2>2, <2>5
<1>5. CASE PreparesNewSession
  <2>1. /\ inbox' = inbox /\ number' = number /\ state' = state /\ loads' = loads
        /\ Clears(loads) /\ overruled' = overruled /\ used' = used
    BY <1>5 DEF PreparesNewSession, controller
  <2>2. timeline' = NoRows /\ (~mixed' /\ loads' # <<>> => LoadAlone')
    BY <1>0, <1>1, <2>1, ClearedAlone
  <2>3. mixed' \in BOOLEAN
    BY <2>1 DEF Clears, Mixes
  <2>4. ViewTypes'
    BY <1>0, <2>1, <2>2, <2>3 DEF ViewTypes
  <2>5. LoadsRead'
    BY <1>1, <2>1, TextsKept
  <2>6. RowsKept'
    BY <1>1, <2>1, <2>2, <2>5, ClearKeepsRows
  <2> QED
    BY <2>4, <2>6
<1>6. ASSUME NEW u \in Sessions, Selects(u) PROVE ViewTypes' /\ RowsKept'
  <2> DEFINE l == [of |-> u, upto |-> None]
             more == Append(loads, l)
  <2>1. /\ inbox' = inbox /\ number' = number /\ state' = state /\ loads' = more
        /\ Clears(loads') /\ overruled' = overruled /\ Upsets
    BY <1>6 DEF Selects, controller
  <2>2. l \in Loads /\ l.upto = None
    BY DEF Loads
  <2> HIDE DEF l
  <2>3. /\ more \in Seq(Loads) /\ DOMAIN more = 1..Len(loads) + 1
        /\ \A i \in 1..Len(loads) : more[i] = loads[i]
        /\ more[Len(loads) + 1] = l
    BY <1>0, <2>2
  <2> HIDE DEF more
  <2>4. timeline' = NoRows /\ (~mixed' /\ loads' # <<>> => LoadAlone')
    BY <1>0, <1>1, <2>1, <2>3, ClearedAlone
  <2>5. mixed' \in BOOLEAN
    BY <2>1 DEF Clears, Mixes
  <2>6. ViewTypes'
    BY <1>0, <2>1, <2>3, <2>4, <2>5, UsedBounded DEF ViewTypes
  <2>7. LoadsRead'
    <3>1. ASSUME NEW i \in DOMAIN more, more[i].upto # None
          PROVE  more[i].upto <= number[more[i].of]
      <4>1. Len(loads) \in Nat
        BY <1>0
      <4>2. i \in 1..Len(loads)
        BY <2>2, <2>3, <3>1, <4>1
      <4> QED
        BY <1>0, <2>3, <3>1, <4>2 DEF RowsKept, LoadsRead
    <3> QED
      BY <2>1, <3>1 DEF LoadsRead
  <2>8. RowsKept'
    BY <1>1, <2>1, <2>4, <2>7, ClearKeepsRows
  <2> QED
    BY <2>6, <2>8
<1>7. ASSUME NEW i \in DOMAIN loads, HistoryIsRead(i) PROVE ViewTypes' /\ RowsKept'
  <2> DEFINE read == [loads EXCEPT ![i].upto = number[loads[i].of]]
  <2>1. /\ inbox' = inbox /\ number' = number /\ state' = state /\ timeline' = timeline
        /\ mixed' = mixed /\ loads' = read /\ overruled' = overruled /\ used' = used
    BY <1>7 DEF HistoryIsRead, controller, page
  <2>2. loads[i] \in Loads
    BY <1>0
  <2>3. number[loads[i].of] \in 0..MaxUtterances
    BY <1>0, <2>2 DEF Loads, PageTypes
  <2>4. /\ read \in Seq(Loads) /\ Len(read) = Len(loads) /\ DOMAIN read = DOMAIN loads
        /\ \A j \in DOMAIN loads : j # i => read[j] = loads[j]
        /\ read[i].upto = number[loads[i].of] /\ read[i].of = loads[i].of
    BY <1>0, <2>2, <2>3 DEF Loads
  <2> HIDE DEF read
  <2>5. ViewTypes'
    BY <1>0, <2>1, <2>4 DEF ViewTypes
  <2>6. LoadsRead'
    <3>1. ASSUME NEW j \in DOMAIN read, read[j].upto # None
          PROVE  read[j].upto <= number[read[j].of]
      <4>1. CASE j = i
        BY <2>3, <2>4, <4>1, PageAssumption
      <4>2. CASE j # i
        BY <1>0, <2>4, <3>1, <4>2 DEF RowsKept, LoadsRead
      <4> QED
        BY <4>1, <4>2
    <3> QED
      BY <2>1, <3>1 DEF LoadsRead
  <2>7. loads # <<>> <=> loads' # <<>>
    BY <1>0, <2>1, <2>4
  <2>8. LoadAlone => LoadAlone'
    BY <2>1, <2>4 DEF LoadAlone
  <2>9. SegmentsLast' /\ (RowsKnown => RowsKnown')
    BY <1>0, <2>1 DEF RowsKept, SegmentsLast, RowsKnown
  <2>10. RowsKept'
    BY <1>0, <2>1, <2>6, <2>7, <2>8, <2>9 DEF RowsKept
  <2> QED
    BY <2>5, <2>10
<1>8. ASSUME NEW i \in DOMAIN loads, HistoryArrives(i) PROVE ViewTypes' /\ RowsKept'
  BY <1>8, HistoryKeepsRows
<1> QED
  BY <1>3, <1>4, <1>5, <1>6, <1>7, <1>8

LEMMA RowsInitially == Init => RowsInv
<1> SUFFICES ASSUME Init PROVE RowsInv
  OBVIOUS
<1>1. NoticeInv
  BY NoticeInit
<1>2. /\ NoRows \in [pending : SUBSET Utterances, segments : [Utterances -> Nat]]
      /\ \A u \in Utterances : NoRows.segments[u] = 0
  BY DEF NoRows
<1>3. loads \in Seq(Loads) /\ loads = <<>> /\ DOMAIN loads = {} /\ DOMAIN inbox = {}
  BY DEF Init
<1>4. ViewTypes
  <2>1. used \in [requests : 0..MaxRequests, upsets : 0..MaxUpsets]
    BY PageAssumption DEF Init
  <2> QED
    BY <1>2, <1>3, <2>1 DEF Init, ViewTypes
<1>5. RowsKept
  BY <1>2, <1>3 DEF Init, RowsKept, SegmentsLast, LoadsRead, RowsKnown
<1> QED
  BY <1>1, <1>4, <1>5 DEF RowsInv

LEMMA RowsStep == RowsInv /\ [Next]_vars => RowsInv'
<1> SUFFICES ASSUME RowsInv, [Next]_vars PROVE RowsInv'
  OBVIOUS
<1>1. NoticeInv' /\ PageTypes'
  BY NoticeStep DEF RowsInv, NoticeInv
<1>2. ViewTypes' /\ RowsKept'
  BY <1>1, ControllerKeepsRows, DeliveryKeepsRows, PageKeepsRows DEF Next
<1> QED
  BY <1>1, <1>2 DEF RowsInv

\* The variables have their types: what handleEvent takes from the event socket is a message,
\* and the requests and loads of the page are awaited for sessions of the server.
THEOREM PageTypesHold == Spec => []TypeOK
<1> DEFINE SocketKnown == socket \in {"lost", "subscribed", "open"}
<1>1. RowsInv /\ SocketKnown => TypeOK
  BY DEF RowsInv, NoticeInv, PageTypes, ViewTypes, TypeOK
<1>2. Init => SocketKnown
  BY DEF Init
<1>3. SocketKnown /\ [Next]_vars => SocketKnown'
  <2>1. CASE socket' = socket
    BY <2>1
  <2>2. CASE SocketBreaks \/ SocketReopens \/ BootstrapIsSent
    BY <2>2 DEF SocketBreaks, SocketReopens, BootstrapIsSent
  <2>3. [Next]_vars => \/ socket' = socket
                       \/ SocketBreaks \/ SocketReopens \/ BootstrapIsSent
    BY DEF Next, Serves, Delivers, Answers, StartIsRefused, OpeningBegins, OpeningSucceeds,
           OpeningFails, StopIsServed, StopIsRefused, HandlesEvent, StartIsAnswered,
           StopIsAnswered, TrayStops, StateChanges, DeltaIsHeard, SegmentIsHeard, PageStarts,
           PageStops, PreparesNewSession, Selects, HistoryIsRead, HistoryArrives, vars
  <2> QED
    BY <2>1, <2>2, <2>3
<1> QED
  BY <1>1, <1>2, <1>3, RowsInitially, RowsStep, PTL DEF Spec

\* No utterance is on the timeline twice, unless a load met live text or another load
\* (renderDelta, renderSegment and selectSession in app.js).
THEOREM RowsStaySingle == Spec => []OneRowEach
<1>1. RowsInv => OneRowEach
  <2> SUFFICES ASSUME RowsInv, ~mixed, NEW u \in Utterances
               PROVE  /\ timeline.segments[u] <= 1
                      /\ u \in timeline.pending => timeline.segments[u] = 0
    BY DEF OneRowEach
  <2>1. timeline.segments[u] \in Nat
    BY DEF RowsInv, ViewTypes
  <2>2. timeline.segments[u] # 0 => timeline.segments[u] = 1 /\ u \notin timeline.pending
    BY DEF RowsInv, RowsKept, RowsKnown
  <2> QED
    BY <2>1, <2>2
<1> QED
  BY <1>1, RowsInitially, RowsStep, PTL DEF Spec
=============================================================================
