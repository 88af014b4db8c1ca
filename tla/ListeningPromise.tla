--------------------------- MODULE ListeningPromise ---------------------------
(***************************************************************************)
(* What the desktop client promises its user about one capture: nothing is *)
(* recorded outside a session, a session that is over is revived only by a *)
(* new opening, and recording that stops does not resume by itself.        *)
(***************************************************************************)
VARIABLES phase, recording
vars == <<phase, recording>>

Phases == {"none", "opening", "listening", "over"}

TypeOK == phase \in Phases /\ recording \in BOOLEAN

Init == phase = "none" /\ recording = FALSE

Open == phase \in {"none", "over"} /\ phase' = "opening" /\ UNCHANGED recording

Listen == phase = "opening" /\ phase' = "listening" /\ recording' = TRUE

\* Capture stops before the end of the session is published ...
FallSilent == phase = "listening" /\ recording' = FALSE /\ UNCHANGED phase

\* ... or with it.
Finish == phase' = "over" /\ recording' = FALSE

Next == Open \/ Listen \/ FallSilent \/ Finish

\* An opening is decided, and a session that fell silent is declared over.
Fairness == /\ WF_vars(phase = "opening" /\ (Listen \/ Finish))
            /\ WF_vars(phase = "listening" /\ ~recording /\ Finish)

Spec == Init /\ [][Next]_vars /\ Fairness
=============================================================================
