---------------------------- MODULE MCCredentials ----------------------------
(***************************************************************************)
(* Credentials with two actor ids, three tokens and two requests.          *)
(***************************************************************************)
EXTENDS Credentials, TLC

MCSymmetry == Permutations(Ids) \cup Permutations(Tokens) \cup Permutations(Procs)
=============================================================================
