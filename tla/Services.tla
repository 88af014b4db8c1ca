------------------------------- MODULE Services -------------------------------
(***************************************************************************)
(* Services (api.py): the lifetime of the persisted credential and of the  *)
(* remote and controller that belong to it, under requests that await the  *)
(* remote service; with the part of the page (static/app.js) that decides  *)
(* between the login and the main view and keeps the event websocket.      *)
(*                                                                         *)
(* An action is the code between two awaits.  Requests of one kind are not *)
(* made concurrently; resume is start, and the three history routes are    *)
(* one.  A controller and its remote are one object; what it does between  *)
(* its calls is SessionController's subject and reduced to: it may record, *)
(* end, or lose its authorisation.  A request that changes nothing (an     *)
(* invalid body, a 409, a 401 without credential) is no step.              *)
(***************************************************************************)
CONSTANTS
    None,          \* Python's None
    Tokens,        \* API tokens a user may paste
    Controllers    \* DesktopSessionController objects; a name is reused once nothing holds it

ASSUME ServicesAssumption == None \notin Tokens \cup Controllers

VARIABLES
    stored,        \* the token in the operating system's keyring
    token,         \* services._token
    controller,    \* services.controller, and services._remote with it
    authOf,        \* the token each controller's remote sends
    mode,          \* each controller's state: "quiet" stands for all that allow a start
    recording,     \* controllers with a capture and a stream
    notices,       \* controllers that will call _on_background_authentication_failure
    pc, held,      \* per kind of request: where it is, the controller or token it holds
    valid,         \* tokens the remote service accepts
    view,          \* the page shows "login" or "main"
    socket,        \* the page's event socket; "off" when state.eventSocket is null
    subscribed,    \* the controller whose events the socket's handler forwards
    orderly        \* history: every request has found the program Settled

login == <<stored, token, controller, authOf>>
sessions == <<mode, recording, notices>>
requests == <<pc, held>>
page == <<view, socket, subscribed>>
vars == <<login, sessions, requests, valid, page, orderly>>

Kinds == {"login", "logout", "history", "start", "stop"}

TypeOK ==
    /\ stored \in Tokens \cup {None} /\ token \in Tokens \cup {None}
    /\ controller \in Controllers \cup {None}
    /\ authOf \in [Controllers -> Tokens \cup {None}]
    /\ mode \in [Controllers -> {"quiet", "starting", "live"}]
    /\ recording \subseteq Controllers /\ notices \subseteq Controllers
    /\ pc \in [Kinds -> {"idle", "awaiting", "bootstrapping"}]
    /\ held \in [Kinds -> Controllers \cup Tokens \cup {None}]
    /\ valid \subseteq Tokens
    /\ view \in {"login", "main"}
    /\ socket \in {"off", "connecting", "open", "closed"}
    /\ subscribed \in Controllers \cup {None}
    /\ orderly \in BOOLEAN

\* A token may have been stored by an earlier run of the program.
Init ==
    /\ stored \in Tokens \cup {None}
    /\ token = None /\ controller = None
    /\ authOf = [c \in Controllers |-> None]
    /\ mode = [c \in Controllers |-> "quiet"]
    /\ recording = {} /\ notices = {}
    /\ pc = [k \in Kinds |-> "idle"] /\ held = [k \in Kinds |-> None]
    /\ valid = Tokens
    /\ view = "login" /\ socket = "off" /\ subscribed = None
    /\ orderly = TRUE

-----------------------------------------------------------------------------
\* Pieces of Services.

Fresh(c) ==
    /\ c \notin recording \cup notices \cup {controller, subscribed}
    /\ \A k \in Kinds : held[k] # c

\* Mutant: its two arguments are swapped.
SwapsArguments(t) ==
    /\ \E c \in Controllers :
        /\ Fresh(c)
        /\ token' = c
        /\ authOf' = [authOf EXCEPT ![c] = t]
    /\ controller' = t

\* set_authenticated, and what authenticated() does for a credential without controller.
SetAuthenticated(t) ==
    /\ \E c \in Controllers :
        /\ Fresh(c)
        /\ controller' = c
        /\ authOf' = [authOf EXCEPT ![c] = t]
    /\ token' = t

\* Mutant: every call makes a controller of its own.
AlwaysCreates ==
    /\ stored # None
    /\ SetAuthenticated(stored)
    /\ UNCHANGED stored

\* authenticated(): the request goes on with controller'.
Authenticated ==
    /\ stored # None
    /\ IF token = stored /\ controller # None
       THEN UNCHANGED <<token, controller, authOf>>
       ELSE SetAuthenticated(stored)
    /\ UNCHANGED stored

ClearAuthenticated == token' = None /\ controller' = None /\ UNCHANGED authOf

\* Mutant: the credential is deleted, the controller is not forgotten.
OnlyDeletes == stored' = None /\ UNCHANGED <<token, controller, authOf>>

\* delete_token and clear_authenticated, together (_delete_invalid_credential, logout) ...
Forgets == stored' = None /\ ClearAuthenticated

\* ... unless the keyring fails, and the request with it (503).
KeyringFails == UNCHANGED login

DeletesCredential == Forgets \/ KeyringFails

\* Nothing is pending, and nothing records that the program has forgotten.
Settled ==
    /\ \A k \in Kinds : pc[k] = "idle"
    /\ notices = {} /\ recording \subseteq {controller}
Observes == orderly' = (orderly /\ Settled)

Begins(k, what) ==
    /\ pc[k] = "idle"
    /\ pc' = [pc EXCEPT ![k] = "awaiting"]
    /\ held' = [held EXCEPT ![k] = what]
    /\ Observes
AtOnce(k) == pc[k] = "idle" /\ Observes /\ UNCHANGED requests
Awaits(k) == pc[k] = "awaiting"
Ends(k) ==
    /\ pc' = [pc EXCEPT ![k] = "idle"]
    /\ held' = [held EXCEPT ![k] = None]
    /\ UNCHANGED orderly

\* The remote answers 401 or 403, or closes with 4401.
Refuses(t) == t \notin valid

-----------------------------------------------------------------------------
\* The login form: verify, then store, then install; then the page bootstraps.

LoginBegins(t) ==
    /\ view = "login"
    /\ Begins("login", t)
    /\ UNCHANGED <<login, sessions, valid, page>>

LoginSucceeds ==
    /\ Awaits("login") /\ ~Refuses(held["login"])
    /\ stored' = held["login"]
    /\ SetAuthenticated(held["login"])
    /\ pc' = [pc EXCEPT !["login"] = "bootstrapping"]
    /\ UNCHANGED <<sessions, held, valid, page, orderly>>

LoginRefused ==
    /\ Awaits("login") /\ Refuses(held["login"])
    /\ DeletesCredential
    /\ Ends("login")
    /\ UNCHANGED <<sessions, valid, page>>

\* The remote does not answer, or the keyring does not take the token: 503.
LoginUnavailable ==
    /\ Awaits("login")
    /\ Ends("login")
    /\ UNCHANGED <<login, sessions, valid, page>>

\* GET /api/bootstrap and applyBootstrap: the view follows the credential, and the main
\* view connects a new socket.
ShowsMain == Authenticated /\ view' = "main" /\ socket' = "connecting" /\ subscribed' = None
ShowsLogin == stored = None /\ view' = "login" /\ UNCHANGED <<login, socket, subscribed>>

LoginBootstraps ==
    /\ pc["login"] = "bootstrapping"
    /\ ShowsMain \/ ShowsLogin
    /\ Ends("login")
    /\ UNCHANGED <<sessions, valid>>

\* The page is loaded anew, though not while it awaits a login or a logout.
PageLoads ==
    /\ pc["login"] = "idle" /\ pc["logout"] = "idle"
    /\ \/ ShowsMain
       \/ /\ stored = None /\ view' = "login" /\ socket' = "off" /\ subscribed' = None
          /\ UNCHANGED login
    /\ UNCHANGED <<sessions, requests, valid, orderly>>

-----------------------------------------------------------------------------
\* controller.stop() ends the recording at once and awaits the stream's end, if there is
\* one; a controller that has stopped already returns.

MustAwait(c) == c \in recording /\ mode[c] # "quiet"

\* Its first part and, when nothing is awaited, the whole of it.  It cancels the reader, and
\* with it the notice that a reader was about to give (a recovery's goes on).
Stops(c) ==
    /\ IF MustAwait(c)
       THEN recording' = recording \ {c} /\ UNCHANGED mode
       ELSE mode' = [mode EXCEPT ![c] = "quiet"] /\ UNCHANGED recording
    /\ notices' \in {notices, notices \ {c}}

\* Its last: "stopped" is published, whatever has happened meanwhile.
HasStopped(c) == mode' = [mode EXCEPT ![c] = "quiet"] /\ UNCHANGED <<recording, notices>>

\* Mutant: the logout does not stop the controller.
LogoutWithoutStop ==
    /\ view = "main" /\ controller # None
    /\ Begins("logout", controller)
    /\ socket' = "off" /\ subscribed' = None
    /\ UNCHANGED <<login, sessions, valid, view>>

\* signOut closes the page's socket, then asks.
LogoutBegins ==
    /\ view = "main" /\ controller # None /\ MustAwait(controller)
    /\ Begins("logout", controller)
    /\ Stops(controller)
    /\ socket' = "off" /\ subscribed' = None
    /\ UNCHANGED <<login, valid, view>>

\* The page leaves the main view only when the logout succeeds.
LogoutAnswers ==
    \/ Forgets /\ view' = "login"
    \/ KeyringFails /\ UNCHANGED view

LogoutAtOnce ==
    /\ view = "main" /\ (controller # None => ~MustAwait(controller))
    /\ AtOnce("logout")
    /\ IF controller = None THEN UNCHANGED sessions ELSE Stops(controller)
    /\ LogoutAnswers
    /\ socket' = "off" /\ subscribed' = None
    /\ UNCHANGED valid

LogoutCompletes ==
    /\ Awaits("logout")
    /\ HasStopped(held["logout"])
    /\ LogoutAnswers
    /\ Ends("logout")
    /\ UNCHANGED <<valid, socket, subscribed>>

-----------------------------------------------------------------------------
\* GET /api/sessions and its two siblings.

HistoryBegins ==
    /\ view = "main"
    /\ Authenticated
    /\ Begins("history", controller')
    /\ UNCHANGED <<sessions, valid, page>>

HistoryAnswers ==
    /\ Awaits("history")
    /\ Ends("history")
    /\ UNCHANGED <<login, sessions, valid, page>>

HistoryRefused ==
    /\ Awaits("history") /\ Refuses(authOf[held["history"]])
    /\ DeletesCredential
    /\ Ends("history")
    /\ UNCHANGED <<sessions, valid, page>>

\* POST /api/sessions and .../resume.

StartBegins ==
    /\ view = "main"
    /\ Authenticated
    /\ mode[controller'] = "quiet"
    /\ Begins("start", controller')
    /\ mode' = [mode EXCEPT ![controller'] = "starting"]
    /\ UNCHANGED <<recording, notices, valid, page>>

StartSucceeds ==
    /\ Awaits("start") /\ ~Refuses(authOf[held["start"]])
    /\ mode' = [mode EXCEPT ![held["start"]] = "live"]
    /\ recording' = recording \cup {held["start"]}
    /\ Ends("start")
    /\ UNCHANGED <<login, notices, valid, page>>

\* A device, or the remote, is not available.
StartFails ==
    /\ Awaits("start")
    /\ HasStopped(held["start"])
    /\ Ends("start")
    /\ UNCHANGED <<login, valid, page>>

StartRefused ==
    /\ Awaits("start") /\ Refuses(authOf[held["start"]])
    /\ HasStopped(held["start"])
    /\ DeletesCredential
    /\ Ends("start")
    /\ UNCHANGED <<valid, page>>

\* POST /api/sessions/stop: controller.stop raises no remote error.

StopBegins ==
    /\ view = "main"
    /\ Authenticated
    /\ MustAwait(controller')
    /\ Begins("stop", controller')
    /\ Stops(controller')
    /\ UNCHANGED <<valid, page>>

StopAtOnce ==
    /\ view = "main"
    /\ Authenticated
    /\ ~MustAwait(controller')
    /\ AtOnce("stop")
    /\ Stops(controller')
    /\ UNCHANGED <<valid, page>>

StopCompletes ==
    /\ Awaits("stop")
    /\ HasStopped(held["stop"])
    /\ Ends("stop")
    /\ UNCHANGED <<login, valid, page>>

-----------------------------------------------------------------------------
\* What controllers and the remote service do by themselves.

\* The remote ends the session, the connection is lost for good, or a device is.
SessionEnds(c) ==
    /\ MustAwait(c)
    /\ recording' = recording \ {c}
    /\ mode' = [mode EXCEPT ![c] = "quiet"]
    /\ UNCHANGED <<login, notices, requests, valid, page, orderly>>

\* The reader or a recovery meets a refusal: the recording ends (in a recovery a little
\* later, together with the notice) ...
AuthorisationIsLost(c) ==
    /\ MustAwait(c) /\ Refuses(authOf[c])
    /\ recording' = recording \ {c}
    /\ notices' = notices \cup {c}
    /\ UNCHANGED <<login, mode, requests, valid, page, orderly>>

\* ... and once its stream is closed, Services is told: it swallows a failure of the
\* keyring and forgets its controller either way.
ServicesAreTold(c) ==
    /\ c \in notices
    /\ notices' = notices \ {c}
    /\ mode' = [mode EXCEPT ![c] = "quiet"]
    /\ stored' \in {stored, None}
    /\ ClearAuthenticated
    /\ UNCHANGED <<recording, requests, valid, page, orderly>>

Revoke(t) ==
    /\ t \in valid /\ valid' = valid \ {t}
    /\ UNCHANGED <<login, sessions, requests, page, orderly>>

-----------------------------------------------------------------------------
\* The page's event socket and its handler.

SocketIsAccepted ==
    /\ socket = "connecting"
    /\ Authenticated
    /\ socket' = "open" /\ subscribed' = controller'
    /\ UNCHANGED <<sessions, requests, valid, view, orderly>>

\* Without a credential the handler closes it; the network may, too.
SocketCloses ==
    /\ socket \in {"connecting", "open"}
    /\ socket' = "closed" /\ subscribed' = None
    /\ UNCHANGED <<login, sessions, requests, valid, view, orderly>>

\* After a second, unless the page has signed out.
SocketRetries ==
    /\ socket = "closed"
    /\ socket' = "connecting"
    /\ UNCHANGED <<login, sessions, requests, valid, view, subscribed, orderly>>

-----------------------------------------------------------------------------
LoginAnswers == LoginSucceeds \/ LoginRefused \/ LoginUnavailable \/ LoginBootstraps
StartAnswers == StartSucceeds \/ StartFails \/ StartRefused
HistoryIsAnswered == HistoryAnswers \/ HistoryRefused
SocketMoves == SocketIsAccepted \/ SocketCloses \/ SocketRetries

Next ==
    \/ \E t \in Tokens : LoginBegins(t) \/ Revoke(t)
    \/ LoginAnswers \/ PageLoads
    \/ LogoutBegins \/ LogoutAtOnce \/ LogoutCompletes
    \/ HistoryBegins \/ HistoryIsAnswered
    \/ StartBegins \/ StartAnswers
    \/ StopBegins \/ StopAtOnce \/ StopCompletes
    \/ \E c \in Controllers : SessionEnds(c) \/ AuthorisationIsLost(c) \/ ServicesAreTold(c)
    \/ SocketMoves

Spec == Init /\ [][Next]_vars

-----------------------------------------------------------------------------
(***************************************************************************)
(* Properties.                                                             *)
(***************************************************************************)

\* Keyring, token and controller agree, in spite of failing keyrings and late answers: a
\* controller that is installed sends the token that is stored.
CredentialsAgree ==
    /\ (controller = None) = (token = None)
    /\ controller # None => token = stored /\ authOf[controller] = token

\* While requests are made one after the other, what records is the session of the controller
\* that requests reach, or one whose token the service refuses (logout,
\* _delete_invalid_credential, _on_background_authentication_failure).
OnlyRefusedAreForgotten ==
    orderly => \A c \in recording : c = controller \/ Refuses(authOf[c])

\* Under the same condition a session with a valid token is in the main view, where the
\* recording notice and the stop button are.
RecordingIsVisible ==
    orderly => \A c \in recording : view = "main" \/ Refuses(authOf[c])

\* Likewise, the events of the session that records reach the page while its socket is open
\* (authenticated() must not replace a controller that is in use).
EventsReachPage ==
    orderly /\ socket = "open" /\ controller \in recording => subscribed = controller
=============================================================================
