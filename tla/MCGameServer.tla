---------------------------- MODULE MCGameServer ----------------------------
(***************************************************************************)
(* Instances of GameServer small enough for TLC.  The configurations give  *)
(* every constant its value; MCWords is the whole range of a word.         *)
(***************************************************************************)
EXTENDS GameServer

MCWords == 0..(WordSize - 1)
=============================================================================
