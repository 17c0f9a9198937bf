-------------------------- MODULE MCNetworkClient --------------------------
(***************************************************************************)
(* Instances of NetworkClient.                                             *)
(***************************************************************************)
EXTENDS NetworkClient
=============================================================================
