------------------------------- MODULE MCBoot -------------------------------
(***************************************************************************)
(* Boot with two probes at a time.  MaxOutages bounds the changes of the   *)
(* database and Keycloak, not the attempts made meanwhile: the backoff     *)
(* reaches its cap.                                                        *)
(***************************************************************************)
EXTENDS Boot
=============================================================================
