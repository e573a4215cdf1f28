------------------------------ MODULE MCBoardTx ------------------------------
(***************************************************************************)
(* BoardTx on two actors, one thread and two concurrent requests.          *)
(***************************************************************************)
EXTENDS BoardTx, TLC

\* A reply names one watcher, the other actor or (the same as naming nobody)
\* its author; a post mentions everybody but its author.
MCExtraLists == {<<a>> : a \in Actors}
MCNoExtras   == {<< >>}
MCMentions   == {Actors}
MCNoMentions == {{}}
MCSymmetry   == Permutations(Actors) \cup Permutations(Procs)
=============================================================================
