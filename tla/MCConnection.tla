---------------------------- MODULE MCConnection ----------------------------
(***************************************************************************)
(* An instance of Connection small enough for TLC: a guarded computer, an  *)
(* open one that is of use as a bounce, and a hot key for each.            *)
(***************************************************************************)
EXTENDS Connection

CONSTANTS bank, internic

MCSystems ==
  [ip \in Ips |-> IF ip = bank THEN <<"proxy", "monitor">> ELSE <<>>]

MCAccounts == {bank} \X Levels

MCRecodes ==
  [h \in Hosts |-> IF h = bank THEN {"admin"} ELSE {}]

MCSavedRoute == <<Gateway, internic>>
=============================================================================
