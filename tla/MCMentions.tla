----------------------------- MODULE MCMentions -----------------------------
(***************************************************************************)
(* Mentions with three spellings of one name, the last of them the folded  *)
(* one, so that every lookup can miss, match or be ambiguous.              *)
(***************************************************************************)
EXTENDS Mentions, TLC

MCNames == {"Bo", "BO", "bo"}
MCLower == [n \in MCNames |-> "bo"]
MCSymmetry == Permutations(Agents)
=============================================================================
