------------------------------- MODULE MCBoard -------------------------------
(***************************************************************************)
(* Board on two actors, with MaxPosts timestamps: every post takes one, so *)
(* at most MaxPosts posts exist.                                           *)
(***************************************************************************)
EXTENDS Board, TLC

CONSTANT MaxPosts

MCInstants == 1 .. MaxPosts
MCSymmetry == Permutations(Actors) \cup Permutations(Threads)
=============================================================================
