--------------------------- MODULE ServicesProofs ---------------------------
(***************************************************************************)
(* For any number of tokens and controllers: the credential, the token and *)
(* the controller agree whatever overlaps; and while requests are made in  *)
(* order, no session with a valid token is forgotten or hidden, and the    *)
(* open event socket follows the session that records.                     *)
(***************************************************************************)
EXTENDS Services, TLAPS

\* What a request in progress holds.
HeldKnown ==
    /\ Awaits("login") => held["login"] \in Tokens
    /\ \A k \in Kinds \ {"login"} : Awaits(k) => held[k] \in Controllers

\* One request at a time, at most one session, and it is live.
OneAtATime ==
    /\ \A j, k \in Kinds : pc[j] # "idle" /\ pc[k] # "idle" => j = k
    /\ \A c, d \in recording : c = d
    /\ \A c \in recording : mode[c] = "live" /\ c \notin notices

\* What records while a request or a notice is pending: nothing, or what the request, or a
\* refusal, may forget.
PendingIsHarmless ==
    /\ (\E k \in {"logout", "start", "stop"} : Awaits(k)) => recording = {}
    /\ Awaits("start") => held["start"] = controller /\ notices = {} /\ view = "main"
    /\ Awaits("history") =>
        \A c \in recording : c = held["history"] \/ Refuses(authOf[c])
    /\ notices # {} => \A c \in recording : Refuses(authOf[c])
    /\ pc["login"] # "idle" => view = "login"

\* What OnlyRefusedAreForgotten and RecordingIsVisible say of requests in order.
NoneIsLost ==
    \A c \in recording : (c = controller /\ view = "main") \/ Refuses(authOf[c])

InOrder == OneAtATime /\ PendingIsHarmless /\ NoneIsLost

\* The login view has no socket, and no controller but the one of the login that bootstraps.
PageAgrees ==
    /\ view = "login" =>
        /\ socket = "off"
        /\ controller # None => pc["login"] = "bootstrapping"
    /\ pc["login"] # "idle" => view = "login"
    /\ pc["logout"] # "idle" => view = "main" /\ socket = "off"

\* No session can be started with the credential there is.
StoredIsRefused == stored # None => Refuses(stored)

\* A session that is forgotten, or about to be, leaves no credential that is worth anything.
ForgottenIsOver ==
    /\ pc["login"] # "idle" => recording = {} /\ notices = {}
    /\ notices # {} => StoredIsRefused
    /\ recording \subseteq {controller} \/ StoredIsRefused

\* An open socket follows the controller that records, and the one that could.
SubscriberIsCurrent ==
    /\ socket = "open" => StoredIsRefused \/ (controller # None /\ subscribed = controller)
    /\ socket = "open" /\ controller \in recording => subscribed = controller

InSight == ForgottenIsOver /\ SubscriberIsCurrent

ServicesInv ==
    /\ TypeOK /\ CredentialsAgree /\ HeldKnown /\ PageAgrees
    /\ orderly => InOrder /\ InSight

-----------------------------------------------------------------------------
\* What the pieces of Services do.

\* A new controller is none that records or is pending, and belongs to the token.
LEMMA Installed ==
  ASSUME TypeOK, NEW t \in Tokens, SetAuthenticated(t)
  PROVE  /\ controller' \in Controllers /\ token' = t
         /\ authOf' \in [Controllers -> Tokens \cup {None}] /\ authOf'[controller'] = t
         /\ controller' \notin recording
         /\ \A c \in recording : authOf'[c] = authOf[c]
  BY DEF SetAuthenticated, Fresh, TypeOK

\* authenticated() keeps the controller there is, and makes one only if there is none.
LEMMA AuthenticatedKeeps ==
  ASSUME TypeOK, CredentialsAgree, Authenticated
  PROVE  /\ stored # None /\ stored' = stored /\ token' = stored
         /\ controller' \in Controllers
         /\ authOf' \in [Controllers -> Tokens \cup {None}] /\ authOf'[controller'] = stored
         /\ controller # None => controller' = controller
         /\ \A c \in recording : authOf'[c] = authOf[c]
<1>1. CASE token = stored /\ controller # None
  BY <1>1 DEF Authenticated, TypeOK, CredentialsAgree
<1>2. CASE ~(token = stored /\ controller # None)
  <2>1. stored \in Tokens /\ SetAuthenticated(stored) /\ stored' = stored
    BY <1>2 DEF Authenticated, TypeOK
  <2>2. controller = None
    BY <1>2 DEF CredentialsAgree
  <2> QED
    BY <2>1, <2>2, Installed, ServicesAssumption
<1> QED
  BY <1>1, <1>2

\* A request begins or ends: what the others hold stays.
LEMMA Observed ==
  ASSUME TypeOK, Observes
  PROVE  orderly' \in BOOLEAN
  BY Zenon DEF Observes, Settled, TypeOK

LEMMA Begun ==
  ASSUME TypeOK, HeldKnown, NEW k \in Kinds, NEW what,
         what \in (IF k = "login" THEN Tokens ELSE Controllers), Begins(k, what)
  PROVE  /\ pc' \in [Kinds -> {"idle", "awaiting", "bootstrapping"}]
         /\ held' \in [Kinds -> Controllers \cup Tokens \cup {None}]
         /\ orderly' \in BOOLEAN /\ HeldKnown'
<1>1. orderly' \in BOOLEAN
  BY Observed DEF Begins
<1>2. HeldKnown'
  BY DEF Begins, TypeOK, HeldKnown, Awaits, Kinds
<1> QED
  BY <1>1, <1>2 DEF Begins, TypeOK

LEMMA Ended ==
  ASSUME TypeOK, HeldKnown, NEW k \in Kinds, Ends(k)
  PROVE  /\ pc' \in [Kinds -> {"idle", "awaiting", "bootstrapping"}]
         /\ held' \in [Kinds -> Controllers \cup Tokens \cup {None}]
         /\ orderly' \in BOOLEAN /\ HeldKnown'
  BY DEF Ends, TypeOK, HeldKnown, Awaits, Kinds

-----------------------------------------------------------------------------
LEMMA ServicesStart == Init => ServicesInv
<1> SUFFICES ASSUME Init PROVE ServicesInv
  OBVIOUS
<1>1. TypeOK
  BY DEF Init, TypeOK, Kinds
<1>2. CredentialsAgree /\ HeldKnown
  BY DEF Init, CredentialsAgree, HeldKnown, Awaits, Kinds
<1>3. InOrder
  BY DEF Init, InOrder, OneAtATime, PendingIsHarmless, NoneIsLost, Awaits, Kinds
<1>4. PageAgrees /\ InSight
  BY DEF Init, PageAgrees, InSight, ForgottenIsOver, SubscriberIsCurrent, Kinds
<1> QED
  BY <1>1, <1>2, <1>3, <1>4 DEF ServicesInv

\* The credential and what is held, whatever overlaps.
LEMMA CredentialStep ==
  ASSUME TypeOK, CredentialsAgree, HeldKnown, [Next]_vars
  PROVE  TypeOK' /\ CredentialsAgree' /\ HeldKnown'
<1> DEFINE Goal == TypeOK' /\ CredentialsAgree' /\ HeldKnown'
<1>k. "login" \in Kinds /\ "logout" \in Kinds /\ "history" \in Kinds /\ "start" \in Kinds
        /\ "stop" \in Kinds
  BY DEF Kinds
<1>1. CASE UNCHANGED vars
  BY <1>1 DEF vars, login, sessions, requests, page, TypeOK, CredentialsAgree, HeldKnown, Awaits
<1>2. ASSUME NEW t \in Tokens, LoginBegins(t)
      PROVE  Goal
  <2>1. Begins("login", t)
    BY <1>2 DEF LoginBegins
  <2> QED
    BY <1>2, <2>1, <1>k, Begun DEF LoginBegins, login, sessions, page, TypeOK, CredentialsAgree
<1>3. ASSUME NEW t \in Tokens, Revoke(t)
      PROVE  Goal
  BY <1>3 DEF Revoke, login, sessions, requests, page, TypeOK, CredentialsAgree, HeldKnown,
              Awaits
<1>4. CASE LoginSucceeds
  <2>1. SetAuthenticated(held["login"]) /\ held["login"] \in Tokens
    BY <1>4, <1>k DEF LoginSucceeds, HeldKnown
  <2>2. HeldKnown'
    BY <1>4 DEF LoginSucceeds, HeldKnown, Awaits, TypeOK, Kinds
  <2>3. CredentialsAgree'
    BY <1>4, <2>1, Installed, ServicesAssumption DEF LoginSucceeds, CredentialsAgree
  <2>4. TypeOK'
    BY <1>4, <2>1, Installed DEF LoginSucceeds, TypeOK, sessions, page
  <2> QED
    BY <2>2, <2>3, <2>4
<1>5. CASE LoginRefused \/ LoginUnavailable
  <2>1. Ends("login")
    BY <1>5 DEF LoginRefused, LoginUnavailable
  <2> QED
    BY <1>5, <2>1, <1>k, Ended
       DEF LoginRefused, LoginUnavailable, DeletesCredential, Forgets, KeyringFails,
           ClearAuthenticated, login, sessions, page, TypeOK, CredentialsAgree
<1>6. ASSUME LoginBootstraps \/ PageLoads, Authenticated
      PROVE  Goal
  <2>1. CredentialsAgree'
    BY <1>6, AuthenticatedKeeps, ServicesAssumption DEF CredentialsAgree, TypeOK
  <2>2. CASE LoginBootstraps
    <3>1. Ends("login")
      BY <2>2 DEF LoginBootstraps
    <3> QED
      BY <1>6, <2>1, <2>2, <3>1, <1>k, Ended, AuthenticatedKeeps
         DEF LoginBootstraps, ShowsMain, ShowsLogin, sessions, TypeOK
  <2>3. CASE PageLoads
    <3>1. HeldKnown'
      BY <2>3 DEF PageLoads, requests, HeldKnown, Awaits
    <3> QED
      BY <1>6, <2>1, <2>3, <3>1, AuthenticatedKeeps
         DEF PageLoads, ShowsMain, sessions, requests, TypeOK
  <2> QED
    BY <1>6, <2>2, <2>3
<1>7. ASSUME LoginBootstraps \/ PageLoads, ~Authenticated
      PROVE  Goal
  <2>1. UNCHANGED login
    BY <1>7 DEF LoginBootstraps, PageLoads, ShowsMain, ShowsLogin
  <2>2. CASE LoginBootstraps
    <3>1. Ends("login")
      BY <2>2 DEF LoginBootstraps
    <3> QED
      BY <1>7, <2>1, <2>2, <3>1, <1>k, Ended
         DEF LoginBootstraps, ShowsMain, ShowsLogin, login, sessions, TypeOK, CredentialsAgree
  <2>3. CASE PageLoads
    <3>1. HeldKnown'
      BY <2>3 DEF PageLoads, requests, HeldKnown, Awaits
    <3> QED
      BY <1>7, <2>1, <2>3, <3>1
         DEF PageLoads, ShowsMain, login, sessions, requests, TypeOK, CredentialsAgree
  <2> QED
    BY <1>7, <2>2, <2>3
<1>8. CASE LogoutBegins
  <2>1. Begins("logout", controller) /\ controller \in Controllers
    BY <1>8 DEF LogoutBegins, TypeOK
  <2> QED
    BY <1>8, <2>1, <1>k, Begun DEF LogoutBegins, Stops, login, TypeOK, CredentialsAgree
<1>9. CASE LogoutAtOnce
  <2>1. orderly' \in BOOLEAN
    BY <1>9, Observed DEF LogoutAtOnce, AtOnce
  <2>2. HeldKnown'
    BY <1>9 DEF LogoutAtOnce, AtOnce, requests, HeldKnown, Awaits
  <2>3. CredentialsAgree'
    BY <1>9 DEF LogoutAtOnce, LogoutAnswers, Forgets, KeyringFails, ClearAuthenticated, login,
                CredentialsAgree
  <2> QED
    BY <1>9, <2>1, <2>2, <2>3
       DEF LogoutAtOnce, AtOnce, LogoutAnswers, Forgets, KeyringFails, ClearAuthenticated,
           Stops, login, sessions, requests, TypeOK
<1>10. CASE LogoutCompletes
  <2>1. Ends("logout")
    BY <1>10 DEF LogoutCompletes
  <2> QED
    BY <1>10, <2>1, <1>k, Ended
       DEF LogoutCompletes, LogoutAnswers, Forgets, KeyringFails, ClearAuthenticated,
           HasStopped, login, TypeOK, CredentialsAgree
<1>11. ASSUME HistoryBegins \/ StartBegins \/ StopBegins
       PROVE  Goal
  <2>1. Authenticated
    BY <1>11 DEF HistoryBegins, StartBegins, StopBegins
  <2>2. PICK k \in Kinds \ {"login"} : Begins(k, controller')
    BY <1>11, <1>k DEF HistoryBegins, StartBegins, StopBegins
  <2>3. CredentialsAgree'
    BY <2>1, AuthenticatedKeeps, ServicesAssumption DEF CredentialsAgree, TypeOK
  <2> QED
    BY <1>11, <2>1, <2>2, <2>3, Begun, AuthenticatedKeeps
       DEF HistoryBegins, StartBegins, StopBegins, Stops, sessions, page, TypeOK
<1>12. CASE StopAtOnce
  <2>1. Authenticated
    BY <1>12 DEF StopAtOnce
  <2>2. CredentialsAgree'
    BY <2>1, AuthenticatedKeeps, ServicesAssumption DEF CredentialsAgree, TypeOK
  <2>3. orderly' \in BOOLEAN
    BY <1>12, Observed DEF StopAtOnce, AtOnce
  <2>4. HeldKnown'
    BY <1>12 DEF StopAtOnce, AtOnce, requests, HeldKnown, Awaits
  <2> QED
    BY <1>12, <2>1, <2>2, <2>3, <2>4, AuthenticatedKeeps
       DEF StopAtOnce, AtOnce, Stops, page, requests, TypeOK
<1>13. CASE HistoryIsAnswered \/ StartAnswers \/ StopCompletes
  <2>1. PICK k \in Kinds \ {"login"} : Awaits(k) /\ Ends(k)
    BY <1>13, <1>k
       DEF HistoryIsAnswered, HistoryAnswers, HistoryRefused, StartAnswers, StartSucceeds,
           StartFails, StartRefused, StopCompletes
  <2>2. CredentialsAgree'
    BY <1>13
       DEF HistoryIsAnswered, HistoryAnswers, HistoryRefused, StartAnswers, StartSucceeds,
           StartFails, StartRefused, StopCompletes, DeletesCredential, Forgets, KeyringFails,
           ClearAuthenticated, login, CredentialsAgree
  <2>3. held["start"] \in Controllers \/ ~StartSucceeds
    BY <1>k DEF StartSucceeds, HeldKnown
  <2> QED
    BY <1>13, <2>1, <2>2, <2>3, Ended
       DEF HistoryIsAnswered, HistoryAnswers, HistoryRefused, StartAnswers, StartSucceeds,
           StartFails, StartRefused, StopCompletes, HasStopped, DeletesCredential, Forgets,
           KeyringFails, ClearAuthenticated, login, sessions, page, TypeOK
<1>14. ASSUME NEW c \in Controllers, SessionEnds(c) \/ AuthorisationIsLost(c)
       PROVE  Goal
  BY <1>14 DEF SessionEnds, AuthorisationIsLost, login, requests, page, TypeOK,
               CredentialsAgree, HeldKnown, Awaits
<1>15. ASSUME NEW c \in Controllers, ServicesAreTold(c)
       PROVE  Goal
  BY <1>15 DEF ServicesAreTold, ClearAuthenticated, requests, page, TypeOK, CredentialsAgree,
               HeldKnown, Awaits
<1>16. CASE SocketIsAccepted
  <2>1. CredentialsAgree'
    BY <1>16, AuthenticatedKeeps, ServicesAssumption DEF SocketIsAccepted, CredentialsAgree, TypeOK
  <2> QED
    BY <1>16, <2>1, AuthenticatedKeeps
       DEF SocketIsAccepted, sessions, requests, TypeOK, HeldKnown, Awaits
<1>17. CASE SocketCloses \/ SocketRetries
  BY <1>17 DEF SocketCloses, SocketRetries, login, sessions, requests, TypeOK, CredentialsAgree,
               HeldKnown, Awaits
<1> QED
  BY <1>1, <1>2, <1>3, <1>4, <1>5, <1>6, <1>7, <1>8, <1>9, <1>10, <1>11, <1>12, <1>13, <1>14,
     <1>15, <1>16, <1>17
     DEF Next, LoginAnswers, SocketMoves
-----------------------------------------------------------------------------
\* The login view keeps neither a socket nor, once bootstrapped, a controller.
LEMMA PageStep ==
  ASSUME TypeOK, CredentialsAgree, PageAgrees, [Next]_vars
  PROVE  PageAgrees'
<1> USE DEF PageAgrees, TypeOK, Kinds
<1>1. CASE UNCHANGED vars
  BY <1>1 DEF vars, login, sessions, requests, page
<1>2. ASSUME NEW t \in Tokens, LoginBegins(t) \/ Revoke(t)
      PROVE  PageAgrees'
  BY <1>2 DEF LoginBegins, Revoke, Begins, login, page, requests
<1>3. CASE LoginSucceeds
  BY <1>3 DEF LoginSucceeds, Awaits, page
<1>4. CASE LoginRefused \/ LoginUnavailable
  BY <1>4 DEF LoginRefused, LoginUnavailable, Awaits, Ends, DeletesCredential, Forgets,
              KeyringFails, ClearAuthenticated, login, page
<1>5. CASE LoginBootstraps
  <2>1. CASE ShowsMain
    BY <1>5, <2>1 DEF LoginBootstraps, ShowsMain, Ends
  <2>2. CASE ShowsLogin
    BY <1>5, <2>2 DEF LoginBootstraps, ShowsLogin, Ends, CredentialsAgree, login
  <2> QED
    BY <1>5, <2>1, <2>2 DEF LoginBootstraps
<1>6. CASE PageLoads
  BY <1>6 DEF PageLoads, ShowsMain, CredentialsAgree, login, requests
<1>7. CASE LogoutBegins
  BY <1>7 DEF LogoutBegins, Begins, login
<1>8. CASE LogoutAtOnce \/ LogoutCompletes
  BY <1>8 DEF LogoutAtOnce, LogoutCompletes, AtOnce, Awaits, Ends, LogoutAnswers, Forgets,
              KeyringFails, ClearAuthenticated, login, requests
<1>9. CASE HistoryBegins \/ StartBegins \/ StopBegins \/ StopAtOnce
  BY <1>9 DEF HistoryBegins, StartBegins, StopBegins, StopAtOnce, Begins, AtOnce, page, requests
<1>10. CASE HistoryIsAnswered \/ StartAnswers \/ StopCompletes
  BY <1>10 DEF HistoryIsAnswered, HistoryAnswers, HistoryRefused, StartAnswers, StartSucceeds,
               StartFails, StartRefused, StopCompletes, Ends, DeletesCredential, Forgets,
               KeyringFails, ClearAuthenticated, login, page
<1>11. ASSUME NEW c \in Controllers,
              SessionEnds(c) \/ AuthorisationIsLost(c) \/ ServicesAreTold(c)
       PROVE  PageAgrees'
  BY <1>11 DEF SessionEnds, AuthorisationIsLost, ServicesAreTold, ClearAuthenticated, login,
               requests, page
<1>12. CASE SocketMoves
  BY <1>12 DEF SocketMoves, SocketIsAccepted, SocketCloses, SocketRetries, login, requests
<1> QED
  BY <1>1, <1>2, <1>3, <1>4, <1>5, <1>6, <1>7, <1>8, <1>9, <1>10, <1>11, <1>12
     DEF Next, LoginAnswers

-----------------------------------------------------------------------------
\* A request that begins in order finds nothing pending and no other session.
LEMMA FoundSettled ==
  ASSUME Observes, orderly'
  PROVE  orderly /\ Settled
  BY Zenon DEF Observes

\* The only request in progress ends: none is.
LEMMA NoneInProgress ==
  ASSUME TypeOK, OneAtATime, NEW k \in Kinds, pc[k] # "idle", Ends(k)
  PROVE  orderly' = orderly /\ \A j \in Kinds : pc'[j] = "idle"
  BY DEF TypeOK, OneAtATime, Ends

\* While requests are made in order, no session with a valid token is lost.
LEMMA OrderStep ==
  ASSUME ServicesInv, [Next]_vars, orderly'
  PROVE  InOrder'
<1> USE DEF ServicesInv, InOrder, OneAtATime, PendingIsHarmless, NoneIsLost, Awaits, Kinds
<1>1. CASE UNCHANGED vars
  BY <1>1 DEF vars, login, sessions, requests, page, Refuses
<1>2. ASSUME NEW t \in Tokens, LoginBegins(t)
      PROVE  InOrder'
  <2>1. Settled /\ orderly
    BY <1>2, FoundSettled DEF LoginBegins, Begins
  <2> QED
    BY <1>2, <2>1 DEF LoginBegins, Begins, Settled, login, sessions, page, Refuses, TypeOK
<1>3. ASSUME NEW t \in Tokens, Revoke(t)
      PROVE  InOrder'
  BY <1>3 DEF Revoke, login, sessions, requests, page, Refuses
<1>4. CASE LoginSucceeds
  <2>1. SetAuthenticated(held["login"]) /\ held["login"] \in Tokens
    BY <1>4 DEF LoginSucceeds, HeldKnown
  <2> QED
    BY <1>4, <2>1, Installed DEF LoginSucceeds, sessions, page, Refuses, TypeOK
<1>5. CASE LoginRefused \/ LoginUnavailable
  <2>1. orderly /\ \A k \in Kinds : pc'[k] = "idle"
    BY <1>5, NoneInProgress DEF LoginRefused, LoginUnavailable, Ends
  <2>2. \A c \in recording : Refuses(authOf[c])
    BY <1>5, <2>1 DEF LoginRefused, LoginUnavailable
  <2>3. authOf' = authOf
    BY <1>5 DEF LoginRefused, LoginUnavailable, DeletesCredential, Forgets, KeyringFails,
                ClearAuthenticated, login
  <2> QED
    BY <1>5, <2>1, <2>2, <2>3 DEF LoginRefused, LoginUnavailable, sessions, page, Refuses
<1>6. CASE LoginBootstraps
  <2>1. \A c \in recording : Refuses(authOf[c]) /\ authOf'[c] = authOf[c]
    BY <1>6, AuthenticatedKeeps
       DEF LoginBootstraps, ShowsMain, ShowsLogin, Ends, login
  <2> QED
    BY <1>6, <2>1 DEF LoginBootstraps, Ends, sessions, Refuses, TypeOK
<1>7. CASE PageLoads
  <2>1. CASE Authenticated /\ view' = "main"
    BY <1>7, <2>1, AuthenticatedKeeps, ServicesAssumption
       DEF PageLoads, sessions, requests, Refuses, TypeOK, HeldKnown
  <2>2. CASE stored = None /\ view' = "login" /\ UNCHANGED login
    <3>1. controller = None
      BY <2>2 DEF CredentialsAgree
    <3> QED
      BY <1>7, <2>2, <3>1, ServicesAssumption
         DEF PageLoads, login, sessions, requests, Refuses, TypeOK, HeldKnown
  <2> QED
    BY <1>7, <2>1, <2>2 DEF PageLoads, ShowsMain
<1>8. CASE LogoutBegins
  <2>1. Settled /\ orderly
    BY <1>8, FoundSettled DEF LogoutBegins, Begins
  <2> QED
    BY <1>8, <2>1 DEF LogoutBegins, Begins, Stops, Settled, MustAwait, Refuses, TypeOK
<1>9. CASE LogoutAtOnce
  <2>1. Settled /\ orderly
    BY <1>9, FoundSettled DEF LogoutAtOnce, AtOnce
  <2>2. recording = {} /\ recording' = {} /\ notices' = {}
    BY <1>9, <2>1, ServicesAssumption DEF LogoutAtOnce, Stops, MustAwait, Settled, sessions, TypeOK
  <2> QED
    BY <1>9, <2>1, <2>2 DEF LogoutAtOnce, AtOnce, Settled, requests
<1>10. CASE LogoutCompletes
  <2>1. recording' = {}
    BY <1>10 DEF LogoutCompletes, HasStopped, Ends
  <2> QED
    BY <1>10, <2>1 DEF LogoutCompletes, HasStopped, Ends, TypeOK
<1>11. CASE HistoryBegins
  <2>1. Settled /\ orderly
    BY <1>11, FoundSettled DEF HistoryBegins, Begins
  <2> QED
    BY <1>11, <2>1, AuthenticatedKeeps, ServicesAssumption
       DEF HistoryBegins, Begins, Settled, sessions, page, Refuses, TypeOK
<1>12. CASE StartBegins
  <2>1. Settled /\ orderly
    BY <1>12, FoundSettled DEF StartBegins, Begins
  <2>2. recording = {} /\ recording' = {}
    BY <1>12, <2>1, AuthenticatedKeeps, ServicesAssumption DEF StartBegins, Settled, TypeOK
  <2> QED
    BY <1>12, <2>1, <2>2 DEF StartBegins, Begins, Settled, page, TypeOK
<1>13. CASE StopBegins
  <2>1. Settled /\ orderly
    BY <1>13, FoundSettled DEF StopBegins, Begins
  <2> QED
    BY <1>13, <2>1, AuthenticatedKeeps
       DEF StopBegins, Begins, Stops, Settled, MustAwait, page, Refuses, TypeOK
<1>14. CASE StopAtOnce
  <2>1. Settled /\ orderly
    BY <1>14, FoundSettled DEF StopAtOnce, AtOnce
  <2>2. recording = {} /\ recording' = {} /\ notices' = {}
    BY <1>14, <2>1, AuthenticatedKeeps, ServicesAssumption
       DEF StopAtOnce, Stops, MustAwait, Settled, TypeOK
  <2> QED
    BY <1>14, <2>1, <2>2 DEF StopAtOnce, AtOnce, Settled, requests
<1>15. CASE HistoryIsAnswered
  <2>1. orderly /\ \A k \in Kinds : pc'[k] = "idle"
    BY <1>15, NoneInProgress DEF HistoryIsAnswered, HistoryAnswers, HistoryRefused, Ends
  <2>2. CASE HistoryAnswers
    BY <2>1, <2>2 DEF HistoryAnswers, login, sessions, page, Refuses
  <2>3. CASE HistoryRefused
    <3>1. \A c \in recording : Refuses(authOf[c])
      BY <2>1, <2>3 DEF HistoryRefused
    <3>2. authOf' = authOf
      BY <2>3 DEF HistoryRefused, DeletesCredential, Forgets, KeyringFails, ClearAuthenticated,
                  login
    <3> QED
      BY <2>1, <2>3, <3>1, <3>2 DEF HistoryRefused, sessions, page, Refuses
  <2> QED
    BY <1>15, <2>2, <2>3 DEF HistoryIsAnswered
<1>16. CASE StartSucceeds
  <2>1. recording' = {controller} /\ mode'[controller] = "live"
    BY <1>16 DEF StartSucceeds, Ends, HeldKnown, TypeOK
  <2> QED
    BY <1>16, <2>1 DEF StartSucceeds, Ends, login, page, TypeOK
<1>17. CASE StartFails \/ StartRefused \/ StopCompletes
  <2>1. PICK k \in {"start", "stop"} : Awaits(k) /\ Ends(k)
    BY <1>17 DEF StartFails, StartRefused, StopCompletes
  <2>2. orderly /\ \A j \in Kinds : pc'[j] = "idle"
    BY <2>1, NoneInProgress DEF Ends
  <2>3. recording' = {}
    BY <1>17, <2>2 DEF StartFails, StartRefused, StopCompletes, HasStopped
  <2> QED
    BY <2>2, <2>3
<1>18. ASSUME NEW c \in Controllers, SessionEnds(c)
       PROVE  InOrder'
  BY <1>18 DEF SessionEnds, MustAwait, login, requests, page, Refuses, TypeOK
<1>19. ASSUME NEW c \in Controllers, AuthorisationIsLost(c)
       PROVE  InOrder'
  BY <1>19 DEF AuthorisationIsLost, MustAwait, login, requests, page, Refuses, TypeOK
<1>20. ASSUME NEW c \in Controllers, ServicesAreTold(c)
       PROVE  InOrder'
  BY <1>20 DEF ServicesAreTold, ClearAuthenticated, requests, page, Refuses, TypeOK
<1>21. CASE SocketIsAccepted
  BY <1>21, AuthenticatedKeeps, ServicesAssumption
     DEF SocketIsAccepted, sessions, requests, Refuses, TypeOK, HeldKnown
<1>22. CASE SocketCloses \/ SocketRetries
  BY <1>22 DEF SocketCloses, SocketRetries, login, sessions, requests, Refuses
<1> QED
  BY <1>1, <1>2, <1>3, <1>4, <1>5, <1>6, <1>7, <1>8, <1>9, <1>10, <1>11, <1>12, <1>13, <1>14,
     <1>15, <1>16, <1>17, <1>18, <1>19, <1>20, <1>21, <1>22
     DEF Next, LoginAnswers, StartAnswers, SocketMoves

\* While requests are made in order, the socket keeps up with the controller.
LEMMA InSightStep ==
  ASSUME ServicesInv, [Next]_vars, orderly'
  PROVE  InSight'
<1> USE DEF InSight, ForgottenIsOver, SubscriberIsCurrent, StoredIsRefused, Refuses, Kinds
<1>0. /\ orderly /\ TypeOK /\ CredentialsAgree /\ HeldKnown /\ PageAgrees /\ InOrder
      /\ ForgottenIsOver /\ SubscriberIsCurrent
  <2>1. orderly
    BY DEF Next, vars, ServicesInv, LoginAnswers, StartAnswers, HistoryIsAnswered, SocketMoves,
           LoginBegins, Revoke, LoginSucceeds, LoginRefused, LoginUnavailable, LoginBootstraps,
           PageLoads, LogoutBegins, LogoutAtOnce, LogoutCompletes, HistoryBegins,
           HistoryAnswers, HistoryRefused, StartBegins, StartSucceeds, StartFails,
           StartRefused, StopBegins, StopAtOnce, StopCompletes, SessionEnds,
           AuthorisationIsLost, ServicesAreTold, SocketIsAccepted, SocketCloses,
           SocketRetries, Begins, AtOnce, Ends, Observes
  <2> QED
    BY <2>1 DEF ServicesInv
<1>1. CASE UNCHANGED vars
  BY <1>0, <1>1 DEF vars, login, sessions, requests, page
<1>2. ASSUME NEW t \in Tokens, LoginBegins(t)
      PROVE  InSight'
  <2>1. Settled /\ view = "login" /\ pc["login"] = "idle"
    BY <1>2, FoundSettled DEF LoginBegins, Begins
  <2>2. recording = {} /\ notices = {}
    BY <1>0, <2>1, ServicesAssumption DEF Settled, PageAgrees, TypeOK
  <2> QED
    BY <1>0, <1>2, <2>2 DEF LoginBegins, login, sessions, page
<1>3. ASSUME NEW t \in Tokens, Revoke(t)
      PROVE  InSight'
  BY <1>0, <1>3 DEF Revoke, login, sessions, requests, page
<1>4. CASE LoginSucceeds
  BY <1>0, <1>4 DEF LoginSucceeds, Awaits, PageAgrees, sessions, page
<1>5. CASE LoginRefused \/ LoginUnavailable
  BY <1>0, <1>5 DEF LoginRefused, LoginUnavailable, Awaits, Ends, TypeOK, PageAgrees,
                    DeletesCredential, Forgets, KeyringFails, ClearAuthenticated, login,
                    sessions, page
<1>6. CASE LoginBootstraps \/ PageLoads
  <2>1. CASE Authenticated /\ socket' = "connecting"
    <3>1. recording' = recording /\ notices' = notices /\ valid' = valid
      BY <1>6 DEF LoginBootstraps, PageLoads, sessions
    <3>2. pc'["login"] = "idle"
      BY <1>0, <1>6 DEF LoginBootstraps, PageLoads, Ends, requests, TypeOK
    <3>3. stored' = stored /\ (controller # None => controller' = controller)
      BY <1>0, <2>1, AuthenticatedKeeps
    <3>4. controller = None => recording = {} \/ StoredIsRefused
      BY <1>0, ServicesAssumption DEF TypeOK
    <3> QED
      BY <1>0, <2>1, <3>1, <3>2, <3>3, <3>4
  <2>2. CASE stored = None /\ UNCHANGED login
    BY <1>0, <1>6, <2>2, ServicesAssumption
       DEF LoginBootstraps, PageLoads, Ends, login, sessions, requests, TypeOK, CredentialsAgree
  <2> QED
    BY <1>6, <2>1, <2>2 DEF LoginBootstraps, PageLoads, ShowsMain, ShowsLogin
<1>7. CASE LogoutBegins
  BY <1>0, <1>7 DEF LogoutBegins, Begins, Stops, login, PageAgrees, TypeOK
<1>8. CASE LogoutAtOnce \/ LogoutCompletes
  <2>1. socket' = "off"
    BY <1>0, <1>8 DEF LogoutAtOnce, LogoutCompletes, Awaits, PageAgrees
  <2>2. recording' = recording /\ notices' \subseteq notices /\ valid' = valid
    BY <1>8 DEF LogoutAtOnce, LogoutCompletes, Stops, HasStopped, sessions
  <2>3. pc["login"] = "idle" /\ pc'["login"] = "idle"
    BY <1>0, <1>8 DEF LogoutAtOnce, LogoutCompletes, AtOnce, Awaits, Ends, PageAgrees, requests,
                      TypeOK
  <2>4. stored' = None \/ UNCHANGED login
    BY <1>8 DEF LogoutAtOnce, LogoutCompletes, LogoutAnswers, Forgets, KeyringFails
  <2> QED
    BY <1>0, <2>1, <2>2, <2>3, <2>4 DEF login
<1>9. CASE HistoryBegins \/ StartBegins \/ StopBegins \/ StopAtOnce
  <2>1. Authenticated /\ view = "main" /\ UNCHANGED page /\ valid' = valid
    BY <1>9 DEF HistoryBegins, StartBegins, StopBegins, StopAtOnce
  <2>2. recording' \subseteq recording /\ notices' \subseteq notices
    BY <1>9 DEF HistoryBegins, StartBegins, StopBegins, StopAtOnce, Stops, sessions
  <2>3. pc["login"] = "idle" /\ pc'["login"] = "idle"
    BY <1>0, <1>9, <2>1 DEF HistoryBegins, StartBegins, StopBegins, StopAtOnce, Begins, AtOnce,
                            PageAgrees, requests, TypeOK
  <2>4. /\ stored' = stored /\ controller' # None
        /\ controller # None => controller' = controller
        /\ controller = None => recording \subseteq {} \/ StoredIsRefused
    BY <1>0, <2>1, AuthenticatedKeeps, ServicesAssumption DEF TypeOK
  <2>5. ForgottenIsOver'
    BY <1>0, <2>1, <2>2, <2>3, <2>4
  <2>6. controller' \in recording' => controller' = controller
    BY <1>0, <2>1, <2>2, <2>4, AuthenticatedKeeps DEF Authenticated, SetAuthenticated, Fresh
  <2>7. SubscriberIsCurrent'
    BY <1>0, <2>1, <2>2, <2>4, <2>6 DEF page
  <2> QED
    BY <2>5, <2>7
<1>10. CASE StartSucceeds
  <2>1. held["start"] = controller /\ recording = {} /\ controller \in Controllers
    BY <1>0, <1>10 DEF StartSucceeds, InOrder, PendingIsHarmless, HeldKnown
  <2>2. stored \in valid
    BY <1>0, <1>10, <2>1, ServicesAssumption
       DEF StartSucceeds, CredentialsAgree, TypeOK
  <2>3. recording' = {controller} /\ UNCHANGED <<login, notices, valid, page>>
    BY <1>10, <2>1 DEF StartSucceeds
  <2>4. notices = {} /\ pc["login"] = "idle" /\ pc'["login"] = "idle"
    BY <1>0, <1>10 DEF StartSucceeds, Awaits, Ends, InOrder, OneAtATime, PendingIsHarmless, TypeOK
  <2>5. socket = "open" => subscribed = controller
    BY <1>0, <2>2, ServicesAssumption DEF TypeOK
  <2>6. controller # None
    BY <2>1, ServicesAssumption
  <2> QED
    BY <2>3, <2>4, <2>5, <2>6 DEF login, page
<1>11. CASE HistoryIsAnswered \/ StartFails \/ StartRefused \/ StopCompletes
  <2>1. /\ recording' = recording /\ notices' = notices /\ valid' = valid /\ UNCHANGED page
        /\ (stored' = None /\ controller' = None) \/ UNCHANGED login
    BY <1>11 DEF HistoryIsAnswered, HistoryAnswers, HistoryRefused, StartFails, StartRefused,
                 StopCompletes, HasStopped, DeletesCredential, Forgets, KeyringFails,
                 ClearAuthenticated, sessions
  <2>2. pc'["login"] = pc["login"]
    BY <1>0, <1>11 DEF HistoryIsAnswered, HistoryAnswers, HistoryRefused, StartFails,
                       StartRefused, StopCompletes, Ends, TypeOK
  <2>3. ForgottenIsOver'
    BY <1>0, <2>1, <2>2 DEF login
  <2>4. SubscriberIsCurrent'
    BY <1>0, <2>1, ServicesAssumption DEF login, page, TypeOK
  <2> QED
    BY <2>3, <2>4
<1>12. ASSUME NEW c \in Controllers, SessionEnds(c) \/ AuthorisationIsLost(c)
       PROVE  InSight'
  BY <1>0, <1>12, ServicesAssumption
     DEF SessionEnds, AuthorisationIsLost, MustAwait, CredentialsAgree, login, requests, page,
         TypeOK
<1>13. ASSUME NEW c \in Controllers, ServicesAreTold(c)
       PROVE  InSight'
  BY <1>0, <1>13, ServicesAssumption
     DEF ServicesAreTold, ClearAuthenticated, requests, page, TypeOK
<1>14. CASE SocketMoves
  <2>1. CASE SocketIsAccepted
    BY <1>0, <2>1, AuthenticatedKeeps, ServicesAssumption
       DEF SocketIsAccepted, sessions, requests, TypeOK
  <2>2. CASE SocketCloses \/ SocketRetries
    BY <1>0, <2>2 DEF SocketCloses, SocketRetries, login, sessions, requests
  <2> QED
    BY <1>14, <2>1, <2>2 DEF SocketMoves
<1> QED
  BY <1>1, <1>2, <1>3, <1>4, <1>5, <1>6, <1>7, <1>8, <1>9, <1>10, <1>11, <1>12, <1>13, <1>14
     DEF Next, LoginAnswers, StartAnswers

LEMMA ServicesHolds == Init /\ [][Next]_vars => []ServicesInv
<1>1. ServicesInv /\ [Next]_vars => ServicesInv'
  BY CredentialStep, PageStep, OrderStep, InSightStep DEF ServicesInv
<1> QED
  BY ServicesStart, <1>1, PTL

-----------------------------------------------------------------------------
\* The state has the types the code gives it.
THEOREM ServicesTypes == Spec => []TypeOK
  BY ServicesHolds, PTL DEF Spec, ServicesInv

\* Whatever overlaps and whatever the keyring does, an installed controller sends the stored
\* token (Services._token, .controller and the keyring).
THEOREM CredentialsStayAgreed == Spec => []CredentialsAgree
  BY ServicesHolds, PTL DEF Spec, ServicesInv

\* While requests are made one after the other, only a session whose token is refused is ever
\* forgotten while it records.
THEOREM ForgottenIsRefused == Spec => []OnlyRefusedAreForgotten
<1>1. ServicesInv => OnlyRefusedAreForgotten
  BY DEF ServicesInv, InOrder, NoneIsLost, OnlyRefusedAreForgotten
<1> QED
  BY ServicesHolds, <1>1, PTL DEF Spec

\* ... and a session with a valid token is in sight of the page's stop button.
THEOREM RecordingStaysVisible == Spec => []RecordingIsVisible
<1>1. ServicesInv => RecordingIsVisible
  BY DEF ServicesInv, InOrder, NoneIsLost, RecordingIsVisible
<1> QED
  BY ServicesHolds, <1>1, PTL DEF Spec

\* ... and while the page's event socket is open, it carries that session's events: no request
\* replaces a controller under the page unless its credential is worth nothing any more.
THEOREM EventsReachThePage == Spec => []EventsReachPage
<1>1. ServicesInv => EventsReachPage
  BY DEF ServicesInv, InSight, SubscriberIsCurrent, EventsReachPage
<1> QED
  BY ServicesHolds, <1>1, PTL DEF Spec
=============================================================================
