----------------------------- MODULE MCServices -----------------------------
(***************************************************************************)
(* Instances of Services for TLC.  Tokens are interchangeable, and so are  *)
(* the names of controllers.                                               *)
(***************************************************************************)
EXTENDS Services, TLC

Names == Permutations(Tokens) \cup Permutations(Controllers)
=============================================================================
