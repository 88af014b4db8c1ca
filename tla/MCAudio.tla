------------------------------- MODULE MCAudio -------------------------------
(***************************************************************************)
(* Instances of AudioPath for TLC.  Remote sessions are interchangeable.   *)
(***************************************************************************)
EXTENDS AudioPath

Names == Permutations(Sessions)
=============================================================================
