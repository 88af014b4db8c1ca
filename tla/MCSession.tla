------------------------------ MODULE MCSession ------------------------------
(***************************************************************************)
(* Instances of SessionController for TLC.  Names of streams and captures  *)
(* are interchangeable, and so are the remote sessions.                    *)
(***************************************************************************)
EXTENDS SessionRefinement, TLC

Names == Permutations(Streams) \cup Permutations(Captures) \cup Permutations(Uuids)
=============================================================================
