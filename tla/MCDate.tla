------------------------------- MODULE MCDate -------------------------------
(***************************************************************************)
(* Instances of Date: the dates at which every carry and every borrow is   *)
(* one step away.                                                          *)
(***************************************************************************)
EXTENDS Date

On(y, mo, d, h, mi, s) ==
  [second |-> s, minute |-> mi, hour |-> h, day |-> d, month |-> mo, year |-> y]

MCStarts ==
  {On(2010, 4, 14, 14, 0, 0), On(2010, 1, 1, 0, 0, 0), On(2009, 12, 30, 23, 59, 59)}

MCAmounts == {-97, -60, -31, -30, -1, 0, 1, 16, 24, 30, 59, 61, 96}
=============================================================================
