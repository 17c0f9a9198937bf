-------------------------------- MODULE Date --------------------------------
(***************************************************************************)
(* The date of the game world (src/uplink/src/world/date.cpp): six fields, *)
(* months of thirty days, advanced by any number of any unit, forwards or  *)
(* backwards.  Due dates, run dates of events and the trace on a player    *)
(* are all computed with it.  Each Advance operation adds to its field,    *)
(* carries what is too much into the next unit and borrows from it what is *)
(* too little; the two conditions are tested one after the other, and the  *)
(* first may leave day 0 or month 0 for the second.                        *)
(*                                                                         *)
(* The module has one date that is set once and then advanced; WorldClock  *)
(* takes from here that a date is a count of seconds.                      *)
(***************************************************************************)
EXTENDS Integers

CONSTANTS
  Epoch,    (* the year from which Seconds counts                          *)
  Starts,   (* the dates that SetDate is called with                       *)
  Amounts,  (* the arguments of the Advance operations                     *)
  MaxMoves  (* bound on the operations of one behaviour                    *)

CalendarDate ==
  [second: 0..59, minute: 0..59, hour: 0..23, day: 1..30, month: 1..12, year: Int]

ASSUME ConstantsAssumption ==
  /\ Epoch \in Int
  /\ Starts \subseteq CalendarDate
  /\ Amounts \subseteq Int
  /\ MaxMoves \in Nat

VARIABLES
  date,   (* the six fields                                                *)
  start,  (* history: the date as it was set                               *)
  passed, (* history: the seconds it was asked to advance since            *)
  moves   (* history: the operations since                                 *)

vars == <<date, start, passed, moves>>

-----------------------------------------------------------------------------
(* The operations on the fields.                                           *)

AdvanceYear(d, n) == [d EXCEPT !.year = @ + n]

AdvanceMonth(d, n) ==
  LET month  == d.month + n
      over   == IF month > 12
                THEN AdvanceYear([d EXCEPT !.month = month % 12], 1 + (month - 12) \div 12)
                ELSE [d EXCEPT !.month = month]
      borrow == 1 + (-over.month) \div 12
  IN IF over.month < 1
     THEN AdvanceYear([over EXCEPT !.month = @ + 12 * borrow], -borrow)
     ELSE over

\* Mutant: the second condition is an else of the first.
AdvanceDayOnce(d, n) ==
  LET day    == d.day + n
      borrow == 1 + (-day) \div 30
  IN IF day > 30 THEN AdvanceMonth([d EXCEPT !.day = day % 30], 1 + (day - 30) \div 30)
     ELSE IF day < 1 THEN AdvanceMonth([d EXCEPT !.day = day + 30 * borrow], -borrow)
     ELSE [d EXCEPT !.day = day]

\* Mutant: a multiple of thirty is put right in the day, as in server_date.cpp,
\* and the month that was carried for it stays.
AdvanceDayCorrected(d, n) ==
  LET day    == d.day + n
      rest   == IF day % 30 = 0 THEN 30 ELSE day % 30
      borrow == 1 + (-day) \div 30
  IN IF day > 30 THEN AdvanceMonth([d EXCEPT !.day = rest], 1 + (day - 30) \div 30)
     ELSE IF day < 1 THEN AdvanceMonth([d EXCEPT !.day = day + 30 * borrow], -borrow)
     ELSE [d EXCEPT !.day = day]

AdvanceDay(d, n) ==
  LET day    == d.day + n
      over   == IF day > 30
                THEN AdvanceMonth([d EXCEPT !.day = day % 30], 1 + (day - 30) \div 30)
                ELSE [d EXCEPT !.day = day]
      borrow == 1 + (-over.day) \div 30
  IN IF over.day < 1
     THEN AdvanceMonth([over EXCEPT !.day = @ + 30 * borrow], -borrow)
     ELSE over

AdvanceHour(d, n) ==
  LET hour   == d.hour + n
      borrow == 1 + (-hour - 1) \div 24
  IN IF hour > 23 THEN AdvanceDay([d EXCEPT !.hour = hour % 24], 1 + (hour - 24) \div 24)
     ELSE IF hour < 0 THEN AdvanceDay([d EXCEPT !.hour = hour + 24 * borrow], -borrow)
     ELSE [d EXCEPT !.hour = hour]

AdvanceMinute(d, n) ==
  LET minute == d.minute + n
      borrow == 1 + (-minute - 1) \div 60
  IN IF minute > 59
     THEN AdvanceHour([d EXCEPT !.minute = minute % 60], 1 + (minute - 60) \div 60)
     ELSE IF minute < 0
     THEN AdvanceHour([d EXCEPT !.minute = minute + 60 * borrow], -borrow)
     ELSE [d EXCEPT !.minute = minute]

AdvanceSecond(d, n) ==
  LET second == d.second + n
      borrow == 1 + (-second - 1) \div 60
  IN IF second > 59
     THEN AdvanceMinute([d EXCEPT !.second = second % 60], 1 + (second - 60) \div 60)
     ELSE IF second < 0
     THEN AdvanceMinute([d EXCEPT !.second = second + 60 * borrow], -borrow)
     ELSE [d EXCEPT !.second = second]

\* Mutant: the comparison forgets the hour.
BeforeButHours(d, e) ==
  \/ d.year < e.year
  \/ d.year = e.year /\ d.month < e.month
  \/ d.year = e.year /\ d.month = e.month /\ d.day < e.day
  \/ /\ d.year = e.year /\ d.month = e.month /\ d.day = e.day
     /\ d.minute < e.minute \/ (d.minute = e.minute /\ d.second < e.second)

\* Before; After(d, e) has the same clauses with the comparisons reversed.
Before(d, e) ==
  \/ d.year < e.year
  \/ d.year = e.year /\ d.month < e.month
  \/ d.year = e.year /\ d.month = e.month /\ d.day < e.day
  \/ /\ d.year = e.year /\ d.month = e.month /\ d.day = e.day
     /\ \/ d.hour < e.hour
        \/ d.hour = e.hour /\ d.minute < e.minute
        \/ d.hour = e.hour /\ d.minute = e.minute /\ d.second < e.second

After(d, e) == Before(e, d)

-----------------------------------------------------------------------------
(* One date, set and advanced.                                             *)

Init ==
  /\ start \in Starts
  /\ date = AdvanceSecond(start, 0)
  /\ passed = 0
  /\ moves = 0

Moved(seconds) ==
  /\ moves < MaxMoves
  /\ moves' = moves + 1
  /\ passed' = passed + seconds
  /\ UNCHANGED start

Second(n) == date' = AdvanceSecond(date, n) /\ Moved(n)
Minute(n) == date' = AdvanceMinute(date, n) /\ Moved(60 * n)
Hour(n)   == date' = AdvanceHour(date, n) /\ Moved(3600 * n)
Day(n)    == date' = AdvanceDay(date, n) /\ Moved(86400 * n)
Month(n)  == date' = AdvanceMonth(date, n) /\ Moved(2592000 * n)

Next == \E n \in Amounts : Second(n) \/ Minute(n) \/ Hour(n) \/ Day(n) \/ Month(n)

Spec == Init /\ [][Next]_vars

-----------------------------------------------------------------------------
(* Properties                                                              *)

\* What the assertions at the end of Date::Update expect of a date, with the
\* thirty days a month has.
TypeOK ==
  /\ date \in CalendarDate
  /\ start \in CalendarDate
  /\ passed \in Int
  /\ moves \in Nat

\* The seconds from the start of the year Epoch.
Seconds(d) ==
  d.second + 60 * (d.minute + 60 * (d.hour + 24 * ((d.day - 1)
    + 30 * ((d.month - 1) + 12 * (d.year - Epoch)))))

\* However a date is advanced, by whatever units in whatever order, forwards
\* and backwards, it is exactly as many seconds away as it was asked to be.
NoSecondLost == Seconds(date) = Seconds(start) + passed

\* Before and After, which compare field by field, tell which of two dates is
\* the earlier, after any carrying and borrowing.
OrderAgrees ==
  /\ Before(date, start) <=> passed < 0
  /\ After(date, start) <=> passed > 0
=============================================================================
