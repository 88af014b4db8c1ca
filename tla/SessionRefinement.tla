-------------------------- MODULE SessionRefinement --------------------------
(***************************************************************************)
(* SessionController keeps ListeningPromise: the refinement mapping.       *)
(***************************************************************************)
EXTENDS SessionController

phase == CASE state = "idle" -> "none"
           [] state = "starting" -> "opening"
           [] state \in {"streaming", "reconnecting"} -> "listening"
           [] state \in Terminal -> "over"

Promise == INSTANCE ListeningPromise WITH phase <- phase, recording <- running # {}

\* Every step of the controller (session.py) is a step of the promise or hidden
\* from it, and what the promise says must happen does.
KeepsPromise == Promise!Spec
=============================================================================
