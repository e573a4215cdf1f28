-------------------------------- MODULE MCPush --------------------------------
(***************************************************************************)
(* Push on two actors, both agents, one a human or both humans, with one   *)
(* thread and MaxPosts posts.                                              *)
(***************************************************************************)
EXTENDS Push

CONSTANT MaxPosts

MCInstants == 1 .. MaxPosts
=============================================================================
