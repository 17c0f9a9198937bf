---------------------------- MODULE MCLogTools ----------------------------
(***************************************************************************)
(* Instances of LogTools small enough for TLC.                             *)
(***************************************************************************)
EXTENDS LogTools

MCDates == 0..MaxEntries

\* The player connects without a bounce; everybody else is elsewhere.
MCRoutes == {Localhost}

MCForgeries == {<<TEXT, Elsewhere>>}
=============================================================================
