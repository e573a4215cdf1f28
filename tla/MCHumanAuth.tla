----------------------------- MODULE MCHumanAuth -----------------------------
(***************************************************************************)
(* HumanAuth with two people who share a display name, and two requests at *)
(* a time.                                                                 *)
(***************************************************************************)
EXTENDS HumanAuth, TLC

MCNameOf == [u \in Subjects |-> CHOOSE n \in Names : TRUE]
MCSymmetry == Permutations(Procs) \cup Permutations(Subjects) \cup Permutations(Sids)
=============================================================================
