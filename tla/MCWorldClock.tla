---------------------------- MODULE MCWorldClock ----------------------------
(***************************************************************************)
(* Instances of WorldClock.                                                *)
(***************************************************************************)
EXTENDS WorldClock

\* Seconds where the game has minutes, hours and days, in proportion, so that the
\* dates of the events crowd and tie within the gap of World::Update.
MCWarned == {<<3, 1>>, <<4, 2>>}
MCPeriods == <<6>>
=============================================================================
