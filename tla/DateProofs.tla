----------------------------- MODULE DateProofs -----------------------------
(***************************************************************************)
(* Theorems about Date: every Advance operation, applied to any calendar   *)
(* date with any argument, yields a calendar date exactly that far away,   *)
(* and the comparison of fields is the comparison of seconds.              *)
(***************************************************************************)
EXTENDS Date, TLAPS

-----------------------------------------------------------------------------
(* The operations, from the largest unit down: each carries into the next  *)
(* larger one, so each lemma rests on the one before it.  A carry out of   *)
(* the days may leave day 0 for the borrow that follows, so the months     *)
(* take a date whose day is any number.                                    *)

LooseDate ==
  [second: 0..59, minute: 0..59, hour: 0..23, day: Int, month: 1..12, year: Int]

\* How many of each unit have gone by since the year 0: what the operation on
\* that unit moves.
Months(d)     == d.month + 12 * d.year
Days(d)       == d.day + 30 * Months(d)
Hours(d)      == d.hour + 24 * Days(d)
Minutes(d)    == d.minute + 60 * Hours(d)
AllSeconds(d) == d.second + 60 * Minutes(d)

\* Each of these counts is an integer.
LEMMA MeasuresAreIntegers ==
  ASSUME NEW d \in CalendarDate
  PROVE  /\ Months(d) \in Int /\ Days(d) \in Int /\ Hours(d) \in Int
         /\ Minutes(d) \in Int /\ AllSeconds(d) \in Int
<1>1. Months(d) \in Int
  BY DEF CalendarDate, Months
<1>2. Days(d) \in Int
  BY <1>1 DEF CalendarDate, Days
<1>3. Hours(d) \in Int
  BY <1>2 DEF CalendarDate, Hours
<1>4. Minutes(d) \in Int
  BY <1>3 DEF CalendarDate, Minutes
<1>5. AllSeconds(d) \in Int
  BY <1>4 DEF CalendarDate, AllSeconds
<1> QED BY <1>1, <1>2, <1>3, <1>4, <1>5

\* What a carry takes out of a field and puts into the next unit is what was
\* in the field, for the four radices of a date.
LEMMA CarryExact ==
  ASSUME NEW v \in Int
  PROVE  /\ 1 + (v - 12) \div 12 \in Int /\ v % 12 \in 0..11
         /\ (v % 12) + 12 * (1 + (v - 12) \div 12) = v
         /\ 1 + (v - 24) \div 24 \in Int /\ v % 24 \in 0..23
         /\ (v % 24) + 24 * (1 + (v - 24) \div 24) = v
         /\ 1 + (v - 30) \div 30 \in Int /\ v % 30 \in 0..29
         /\ (v % 30) + 30 * (1 + (v - 30) \div 30) = v
         /\ 1 + (v - 60) \div 60 \in Int /\ v % 60 \in 0..59
         /\ (v % 60) + 60 * (1 + (v - 60) \div 60) = v
BY SMT

\* What is borrowed brings a field that counts from 0 into its range.
LEMMA BorrowFits ==
  ASSUME NEW v \in Int, v < 0
  PROVE  /\ 1 + (-v - 1) \div 24 \in Int /\ v + 24 * (1 + (-v - 1) \div 24) \in 0..23
         /\ 1 + (-v - 1) \div 60 \in Int /\ v + 60 * (1 + (-v - 1) \div 60) \in 0..59
BY SMT

\* AdvanceMonth moves by n months and leaves the smaller fields alone.
LEMMA MonthExact ==
  ASSUME NEW d \in LooseDate, NEW n \in Int
  PROVE  /\ AdvanceMonth(d, n) \in LooseDate
         /\ Months(AdvanceMonth(d, n)) = Months(d) + n
         /\ AdvanceMonth(d, n).second = d.second
         /\ AdvanceMonth(d, n).minute = d.minute
         /\ AdvanceMonth(d, n).hour = d.hour
         /\ AdvanceMonth(d, n).day = d.day
<1> DEFINE month  == d.month + n
           over   == IF month > 12
                     THEN AdvanceYear([d EXCEPT !.month = month % 12], 1 + (month - 12) \div 12)
                     ELSE [d EXCEPT !.month = month]
           borrow == 1 + (-over.month) \div 12
           result == IF over.month < 1
                     THEN AdvanceYear([over EXCEPT !.month = @ + 12 * borrow], -borrow)
                     ELSE over
<1>1. AdvanceMonth(d, n) = result
  BY DEF AdvanceMonth
<1>2. month \in Int
  BY DEF LooseDate
<1>3. /\ over \in [second: 0..59, minute: 0..59, hour: 0..23, day: Int, month: Int, year: Int]
      /\ over.month <= 12
      /\ over.month + 12 * over.year = d.month + n + 12 * d.year
      /\ over.second = d.second /\ over.minute = d.minute
      /\ over.hour = d.hour /\ over.day = d.day
  <2>1. CASE month > 12
    <3>1. over = [d EXCEPT !.month = month % 12, !.year = d.year + (1 + (month - 12) \div 12)]
      BY <2>1 DEF AdvanceYear, LooseDate
    <3>2. /\ month % 12 \in 0..11 /\ (month - 12) \div 12 \in Int
          /\ (month % 12) + 12 * (1 + (month - 12) \div 12) = month
      BY <1>2, SMT
    <3> HIDE DEF over, month
    <3>3. /\ over.month = month % 12 /\ over.year = d.year + (1 + (month - 12) \div 12)
          /\ over.second = d.second /\ over.minute = d.minute
          /\ over.hour = d.hour /\ over.day = d.day
      BY <3>1 DEF LooseDate
    <3>4. over \in [second: 0..59, minute: 0..59, hour: 0..23, day: Int, month: Int, year: Int]
      <4>1. d.year + (1 + (month - 12) \div 12) \in Int /\ month % 12 \in Int
        BY <3>2 DEF LooseDate
      <4> QED BY <3>1, <4>1 DEF LooseDate
    <3>5. over.month + 12 * over.year = month + 12 * d.year
      <4>1. d.year \in Int /\ month \in Int
        BY <1>2 DEF LooseDate
      <4> QED BY <3>2, <3>3, <4>1
    <3> QED BY <3>2, <3>3, <3>4, <3>5 DEF month
  <2>2. CASE ~(month > 12)
    BY <1>2, <2>2 DEF LooseDate
  <2> QED BY <2>1, <2>2
<1> HIDE DEF over, month
<1>4. CASE over.month < 1
  <2>1. /\ borrow \in Int
        /\ over.month + 12 * borrow \in 1..12
    BY <1>3, <1>4, SMT
  <2> HIDE DEF borrow
  <2>2. result = [over EXCEPT !.month = over.month + 12 * borrow, !.year = over.year + (-borrow)]
    BY <1>3, <1>4 DEF AdvanceYear
  <2>3. result \in LooseDate
    <3>1. over.year + (-borrow) \in Int
      BY <1>3, <2>1
    <3> QED BY <1>3, <2>1, <2>2, <3>1 DEF LooseDate
  <2>4. /\ result.month = over.month + 12 * borrow /\ result.year = over.year + (-borrow)
        /\ result.second = d.second /\ result.minute = d.minute
        /\ result.hour = d.hour /\ result.day = d.day
    BY <1>3, <2>2
  <2>5. result.month + 12 * result.year = d.month + 12 * d.year + n
    <3>1. d.month \in Int /\ d.year \in Int /\ over.month \in Int /\ over.year \in Int
      BY <1>3 DEF LooseDate
    <3> HIDE DEF result
    <3>2. /\ result.month + 12 * result.year
               = (over.month + 12 * borrow) + 12 * (over.year + (-borrow))
          /\ over.month + 12 * over.year = d.month + n + 12 * d.year
      BY <1>3, <2>4
    <3> QED BY <2>1, <3>1, <3>2
  <2> QED BY <1>1, <2>3, <2>4, <2>5 DEF Months
<1>5. CASE ~(over.month < 1)
  BY <1>1, <1>3, <1>5 DEF LooseDate, Months
<1> QED BY <1>4, <1>5

\* AdvanceDay moves by n days and leaves the time of day alone.
LEMMA DayExact ==
  ASSUME NEW d \in CalendarDate, NEW n \in Int
  PROVE  /\ AdvanceDay(d, n) \in CalendarDate
         /\ Days(AdvanceDay(d, n)) = Days(d) + n
         /\ AdvanceDay(d, n).second = d.second
         /\ AdvanceDay(d, n).minute = d.minute
         /\ AdvanceDay(d, n).hour = d.hour
<1> DEFINE day    == d.day + n
           over   == IF day > 30
                     THEN AdvanceMonth([d EXCEPT !.day = day % 30], 1 + (day - 30) \div 30)
                     ELSE [d EXCEPT !.day = day]
           borrow == 1 + (-over.day) \div 30
           result == IF over.day < 1
                     THEN AdvanceMonth([over EXCEPT !.day = @ + 30 * borrow], -borrow)
                     ELSE over
<1>1. AdvanceDay(d, n) = result
  BY DEF AdvanceDay
<1>2. day \in Int /\ d.day \in Int
  BY DEF CalendarDate
<1>3. \A e \in LooseDate : Months(e) \in Int
  BY DEF LooseDate, Months
<1>4. d \in LooseDate
  BY DEF LooseDate, CalendarDate
<1>5. /\ over \in LooseDate
      /\ over.day <= 30
      /\ over.day + 30 * Months(over) = d.day + n + 30 * Months(d)
      /\ over.second = d.second /\ over.minute = d.minute /\ over.hour = d.hour
  <2>1. CASE day > 30
    <3> DEFINE rest  == [d EXCEPT !.day = day % 30]
               carry == 1 + (day - 30) \div 30
    <3>1. /\ day % 30 \in 0..29 /\ carry \in Int
          /\ (day % 30) + 30 * carry = day
      BY <1>2, SMT
    <3>2. over = AdvanceMonth(rest, carry)
      BY <2>1
    <3> HIDE DEF over, carry, day
    <3>3. /\ rest \in LooseDate
          /\ rest.day = day % 30 /\ rest.month = d.month /\ rest.year = d.year
          /\ rest.second = d.second /\ rest.minute = d.minute /\ rest.hour = d.hour
      <4> DEFINE part == day % 30
      <4>1. part \in Int
        BY <3>1
      <4>2. rest = [d EXCEPT !.day = part]
        OBVIOUS
      <4> HIDE DEF part, rest
      <4>3. rest \in LooseDate
        BY <1>4, <4>1, <4>2 DEF LooseDate
      <4>4. /\ rest.day = part /\ rest.month = d.month /\ rest.year = d.year
            /\ rest.second = d.second /\ rest.minute = d.minute /\ rest.hour = d.hour
        BY <1>4, <4>2 DEF LooseDate
      <4> QED BY <4>3, <4>4 DEF part
    <3>4. Months(rest) = Months(d)
      BY <3>3 DEF Months
    <3> HIDE DEF rest
    <3>5. /\ over \in LooseDate
          /\ Months(over) = Months(rest) + carry
          /\ over.second = rest.second /\ over.minute = rest.minute
          /\ over.hour = rest.hour /\ over.day = rest.day
      BY <3>1, <3>2, <3>3, MonthExact
    <3>6. over.day + 30 * Months(over) = day + 30 * Months(d)
      <4>1. Months(d) \in Int
        BY <1>3, <1>4
      <4>2. over.day = day % 30 /\ Months(over) = Months(d) + carry
        BY <3>3, <3>4, <3>5
      <4> QED BY <3>1, <4>1, <4>2
    <3> QED BY <3>1, <3>3, <3>5, <3>6 DEF day
  <2>2. CASE ~(day > 30)
    <3>1. over = [d EXCEPT !.day = day]
      BY <2>2
    <3>2. /\ over \in LooseDate
          /\ over.day = day /\ over.month = d.month /\ over.year = d.year
          /\ over.second = d.second /\ over.minute = d.minute /\ over.hour = d.hour
      BY <1>2, <1>4, <3>1 DEF LooseDate
    <3>3. Months(over) = Months(d)
      BY <3>2 DEF Months
    <3> QED BY <1>2, <2>2, <3>2, <3>3
  <2> QED BY <2>1, <2>2
<1> HIDE DEF over, day
<1>6. CASE over.day < 1
  <2> DEFINE filled == [over EXCEPT !.day = over.day + 30 * borrow]
  <2>1. over.day \in Int
    BY <1>5 DEF LooseDate
  <2>2. borrow \in Int /\ over.day + 30 * borrow \in 1..30
    BY <1>6, <2>1, SMT
  <2>3. result = AdvanceMonth(filled, -borrow)
    BY <1>5, <1>6
  <2> HIDE DEF borrow, result
  <2>4. /\ filled \in LooseDate
        /\ filled.day = over.day + 30 * borrow
        /\ filled.month = over.month /\ filled.year = over.year
        /\ filled.second = d.second /\ filled.minute = d.minute /\ filled.hour = d.hour
    BY <1>5, <2>2 DEF LooseDate
  <2>5. Months(filled) = Months(over)
    BY <2>4 DEF Months
  <2> HIDE DEF filled
  <2>6. /\ result \in LooseDate
        /\ Months(result) = Months(filled) + (-borrow)
        /\ result.second = filled.second /\ result.minute = filled.minute
        /\ result.hour = filled.hour /\ result.day = filled.day
    <3>1. -borrow \in Int
      BY <2>2
    <3> QED BY <2>3, <2>4, <3>1, MonthExact
  <2>7. result.day + 30 * Months(result) = over.day + 30 * Months(over)
    <3>1. Months(over) \in Int
      BY <1>3, <1>5
    <3>2. result.day = over.day + 30 * borrow /\ Months(result) = Months(over) + (-borrow)
      BY <2>4, <2>5, <2>6
    <3> QED BY <2>1, <2>2, <3>1, <3>2
  <2>8. result \in CalendarDate
    BY <2>2, <2>4, <2>6 DEF LooseDate, CalendarDate
  <2>9. over.day + 30 * Months(over) = Days(d) + n
    <3>1. Months(d) \in Int
      BY <1>3, <1>4
    <3> QED BY <1>2, <1>5, <3>1 DEF Days
  <2> QED BY <1>1, <2>4, <2>6, <2>7, <2>8, <2>9 DEF Days
<1>7. CASE ~(over.day < 1)
  <2>1. result = over
    BY <1>7
  <2>2. over \in CalendarDate
    BY <1>5, <1>7 DEF LooseDate, CalendarDate
  <2>3. Days(over) = Days(d) + n
    <3>1. Months(d) \in Int
      BY <1>3, <1>4
    <3> QED BY <1>2, <1>5, <3>1 DEF Days
  <2> QED BY <1>1, <1>5, <2>1, <2>2, <2>3
<1> QED BY <1>6, <1>7

\* AdvanceHour moves by n hours and leaves the minutes and seconds alone.
LEMMA HourExact ==
  ASSUME NEW d \in CalendarDate, NEW n \in Int
  PROVE  /\ AdvanceHour(d, n) \in CalendarDate
         /\ Hours(AdvanceHour(d, n)) = Hours(d) + n
         /\ AdvanceHour(d, n).second = d.second
         /\ AdvanceHour(d, n).minute = d.minute
<1> DEFINE hour == d.hour + n
           result == AdvanceHour(d, n)
<1> SUFFICES /\ result \in CalendarDate
             /\ Hours(result) = Hours(d) + n
             /\ result.second = d.second
             /\ result.minute = d.minute
  OBVIOUS
<1>1. /\ hour \in Int /\ d.hour \in Int
      /\ Days(d) \in Int
  BY MeasuresAreIntegers DEF CalendarDate
<1>2. /\ hour > 23 => result = AdvanceDay([d EXCEPT !.hour = hour % 24],
                                          1 + (hour - 24) \div 24)
      /\ hour < 0 => LET borrow == 1 + (-hour - 1) \div 24
                     IN result = AdvanceDay([d EXCEPT !.hour = hour + 24 * borrow], -borrow)
      /\ hour \in 0..23 => result = [d EXCEPT !.hour = hour]
  BY <1>1 DEF AdvanceHour
<1>3. hour = d.hour + n
  OBVIOUS
<1> HIDE DEF hour, result
<1>4. ASSUME NEW v \in 0..23, NEW carry \in Int,
             v + 24 * carry = hour,
             result = AdvanceDay([d EXCEPT !.hour = v], carry)
      PROVE  /\ result \in CalendarDate
             /\ Hours(result) = Hours(d) + n
             /\ result.second = d.second
             /\ result.minute = d.minute
  <2> DEFINE rest == [d EXCEPT !.hour = v]
  <2>1. /\ rest \in CalendarDate
        /\ rest.hour = v
        /\ Days(rest) = Days(d)
        /\ rest.second = d.second
        /\ rest.minute = d.minute
    BY DEF CalendarDate, Days, Months
  <2>2. result = AdvanceDay(rest, carry)
    BY <1>4
  <2> HIDE DEF rest
  <2>3. /\ result \in CalendarDate
        /\ Days(result) = Days(rest) + carry
        /\ result.hour = rest.hour
        /\ result.second = rest.second
        /\ result.minute = rest.minute
    BY <2>1, <2>2, DayExact
  <2>4. Hours(result) = Hours(d) + n
    <3>1. result.hour = v /\ Days(result) = Days(d) + carry
      BY <2>1, <2>3
    <3> QED BY <1>1, <1>3, <1>4, <3>1 DEF Hours
  <2> QED BY <2>1, <2>3, <2>4
<1>5. CASE hour > 23
  <2> DEFINE carry == 1 + (hour - 24) \div 24
  <2>1. /\ carry \in Int /\ hour % 24 \in 0..23
        /\ (hour % 24) + 24 * carry = hour
    BY <1>1, CarryExact
  <2>2. result = AdvanceDay([d EXCEPT !.hour = hour % 24], carry)
    BY <1>2, <1>5
  <2> HIDE DEF carry
  <2> QED BY <1>4, <2>1, <2>2
<1>6. CASE hour < 0
  <2> DEFINE borrow == 1 + (-hour - 1) \div 24
  <2>1. borrow \in Int /\ hour + 24 * borrow \in 0..23
    BY <1>1, <1>6, BorrowFits
  <2>2. result = AdvanceDay([d EXCEPT !.hour = hour + 24 * borrow], -borrow)
    BY <1>2, <1>6
  <2> HIDE DEF borrow
  <2>3. -borrow \in Int /\ (hour + 24 * borrow) + 24 * (-borrow) = hour
    BY <1>1, <2>1
  <2> QED BY <1>4, <2>1, <2>2, <2>3
<1>7. CASE hour \in 0..23
  <2>1. /\ result \in CalendarDate
        /\ result.hour = hour
        /\ Days(result) = Days(d)
        /\ result.second = d.second
        /\ result.minute = d.minute
    BY <1>2, <1>7 DEF CalendarDate, Days, Months
  <2> QED BY <1>1, <1>3, <2>1 DEF Hours
<1> QED BY <1>1, <1>5, <1>6, <1>7

\* AdvanceMinute moves by n minutes and leaves the seconds alone.
LEMMA MinuteExact ==
  ASSUME NEW d \in CalendarDate, NEW n \in Int
  PROVE  /\ AdvanceMinute(d, n) \in CalendarDate
         /\ Minutes(AdvanceMinute(d, n)) = Minutes(d) + n
         /\ AdvanceMinute(d, n).second = d.second
<1> DEFINE minute == d.minute + n
           result == AdvanceMinute(d, n)
<1> SUFFICES /\ result \in CalendarDate
             /\ Minutes(result) = Minutes(d) + n
             /\ result.second = d.second
  OBVIOUS
<1>1. /\ minute \in Int /\ d.minute \in Int
      /\ Hours(d) \in Int
  BY MeasuresAreIntegers DEF CalendarDate
<1>2. /\ minute > 59 => result = AdvanceHour([d EXCEPT !.minute = minute % 60],
                                          1 + (minute - 60) \div 60)
      /\ minute < 0 => LET borrow == 1 + (-minute - 1) \div 60
                     IN result = AdvanceHour([d EXCEPT !.minute = minute + 60 * borrow], -borrow)
      /\ minute \in 0..59 => result = [d EXCEPT !.minute = minute]
  BY <1>1 DEF AdvanceMinute
<1>3. minute = d.minute + n
  OBVIOUS
<1> HIDE DEF minute, result
<1>4. ASSUME NEW v \in 0..59, NEW carry \in Int,
             v + 60 * carry = minute,
             result = AdvanceHour([d EXCEPT !.minute = v], carry)
      PROVE  /\ result \in CalendarDate
             /\ Minutes(result) = Minutes(d) + n
             /\ result.second = d.second
  <2> DEFINE rest == [d EXCEPT !.minute = v]
  <2>1. /\ rest \in CalendarDate
        /\ rest.minute = v
        /\ Hours(rest) = Hours(d)
        /\ rest.second = d.second
    BY DEF CalendarDate, Hours, Days, Months
  <2>2. result = AdvanceHour(rest, carry)
    BY <1>4
  <2> HIDE DEF rest
  <2>3. /\ result \in CalendarDate
        /\ Hours(result) = Hours(rest) + carry
        /\ result.minute = rest.minute
        /\ result.second = rest.second
    BY <2>1, <2>2, HourExact
  <2>4. Minutes(result) = Minutes(d) + n
    <3>1. result.minute = v /\ Hours(result) = Hours(d) + carry
      BY <2>1, <2>3
    <3> QED BY <1>1, <1>3, <1>4, <3>1 DEF Minutes
  <2> QED BY <2>1, <2>3, <2>4
<1>5. CASE minute > 59
  <2> DEFINE carry == 1 + (minute - 60) \div 60
  <2>1. /\ carry \in Int /\ minute % 60 \in 0..59
        /\ (minute % 60) + 60 * carry = minute
    BY <1>1, CarryExact
  <2>2. result = AdvanceHour([d EXCEPT !.minute = minute % 60], carry)
    BY <1>2, <1>5
  <2> HIDE DEF carry
  <2> QED BY <1>4, <2>1, <2>2
<1>6. CASE minute < 0
  <2> DEFINE borrow == 1 + (-minute - 1) \div 60
  <2>1. borrow \in Int /\ minute + 60 * borrow \in 0..59
    BY <1>1, <1>6, BorrowFits
  <2>2. result = AdvanceHour([d EXCEPT !.minute = minute + 60 * borrow], -borrow)
    BY <1>2, <1>6
  <2> HIDE DEF borrow
  <2>3. -borrow \in Int /\ (minute + 60 * borrow) + 60 * (-borrow) = minute
    BY <1>1, <2>1
  <2> QED BY <1>4, <2>1, <2>2, <2>3
<1>7. CASE minute \in 0..59
  <2>1. /\ result \in CalendarDate
        /\ result.minute = minute
        /\ Hours(result) = Hours(d)
        /\ result.second = d.second
    BY <1>2, <1>7 DEF CalendarDate, Hours, Days, Months
  <2> QED BY <1>1, <1>3, <2>1 DEF Minutes
<1> QED BY <1>1, <1>5, <1>6, <1>7

\* AdvanceSecond moves by n seconds.
LEMMA SecondExact ==
  ASSUME NEW d \in CalendarDate, NEW n \in Int
  PROVE  /\ AdvanceSecond(d, n) \in CalendarDate
         /\ AllSeconds(AdvanceSecond(d, n)) = AllSeconds(d) + n
<1> DEFINE second == d.second + n
           result == AdvanceSecond(d, n)
<1> SUFFICES /\ result \in CalendarDate
             /\ AllSeconds(result) = AllSeconds(d) + n
  OBVIOUS
<1>1. /\ second \in Int /\ d.second \in Int
      /\ Minutes(d) \in Int
  BY MeasuresAreIntegers DEF CalendarDate
<1>2. /\ second > 59 => result = AdvanceMinute([d EXCEPT !.second = second % 60],
                                          1 + (second - 60) \div 60)
      /\ second < 0 => LET borrow == 1 + (-second - 1) \div 60
                     IN result = AdvanceMinute([d EXCEPT !.second = second + 60 * borrow], -borrow)
      /\ second \in 0..59 => result = [d EXCEPT !.second = second]
  BY <1>1 DEF AdvanceSecond
<1>3. second = d.second + n
  OBVIOUS
<1> HIDE DEF second, result
<1>4. ASSUME NEW v \in 0..59, NEW carry \in Int,
             v + 60 * carry = second,
             result = AdvanceMinute([d EXCEPT !.second = v], carry)
      PROVE  /\ result \in CalendarDate
             /\ AllSeconds(result) = AllSeconds(d) + n
  <2> DEFINE rest == [d EXCEPT !.second = v]
  <2>1. /\ rest \in CalendarDate
        /\ rest.second = v
        /\ Minutes(rest) = Minutes(d)
    BY DEF CalendarDate, Minutes, Hours, Days, Months
  <2>2. result = AdvanceMinute(rest, carry)
    BY <1>4
  <2> HIDE DEF rest
  <2>3. /\ result \in CalendarDate
        /\ Minutes(result) = Minutes(rest) + carry
        /\ result.second = rest.second
    BY <2>1, <2>2, MinuteExact
  <2>4. AllSeconds(result) = AllSeconds(d) + n
    <3>1. result.second = v /\ Minutes(result) = Minutes(d) + carry
      BY <2>1, <2>3
    <3> QED BY <1>1, <1>3, <1>4, <3>1 DEF AllSeconds
  <2> QED BY <2>1, <2>3, <2>4
<1>5. CASE second > 59
  <2> DEFINE carry == 1 + (second - 60) \div 60
  <2>1. /\ carry \in Int /\ second % 60 \in 0..59
        /\ (second % 60) + 60 * carry = second
    BY <1>1, CarryExact
  <2>2. result = AdvanceMinute([d EXCEPT !.second = second % 60], carry)
    BY <1>2, <1>5
  <2> HIDE DEF carry
  <2> QED BY <1>4, <2>1, <2>2
<1>6. CASE second < 0
  <2> DEFINE borrow == 1 + (-second - 1) \div 60
  <2>1. borrow \in Int /\ second + 60 * borrow \in 0..59
    BY <1>1, <1>6, BorrowFits
  <2>2. result = AdvanceMinute([d EXCEPT !.second = second + 60 * borrow], -borrow)
    BY <1>2, <1>6
  <2> HIDE DEF borrow
  <2>3. -borrow \in Int /\ (second + 60 * borrow) + 60 * (-borrow) = second
    BY <1>1, <2>1
  <2> QED BY <1>4, <2>1, <2>2, <2>3
<1>7. CASE second \in 0..59
  <2>1. /\ result \in CalendarDate
        /\ result.second = second
        /\ Minutes(result) = Minutes(d)
    BY <1>2, <1>7 DEF CalendarDate, Minutes, Hours, Days, Months
  <2> QED BY <1>1, <1>3, <2>1 DEF AllSeconds
<1> QED BY <1>1, <1>5, <1>6, <1>7

-----------------------------------------------------------------------------
(* The comparison, and the properties of the specification.                *)

\* The seconds from the day before the year 0 to the start of the year Epoch.
Offset == 60 * (60 * (24 * (1 + 30 * (1 + 12 * Epoch))))

\* Seconds counts from the year Epoch what AllSeconds counts from the year 0.
LEMMA SecondsFromEpoch ==
  ASSUME NEW d \in CalendarDate
  PROVE  /\ AllSeconds(d) \in Int /\ Offset \in Int
         /\ Seconds(d) = AllSeconds(d) - Offset
<1>1. AllSeconds(d) \in Int
  BY MeasuresAreIntegers
<1>2. Offset \in Int
  BY ConstantsAssumption, SMT DEF Offset
<1>3. Seconds(d) = AllSeconds(d) - Offset
  <2> DEFINE second == d.second  minute == d.minute  hour == d.hour
             day == d.day        month == d.month    year == d.year
  <2>1. /\ second \in Int /\ minute \in Int /\ hour \in Int
        /\ day \in Int /\ month \in Int /\ year \in Int /\ Epoch \in Int
    BY ConstantsAssumption DEF CalendarDate
  <2>2. Seconds(d) = second + 60 * (minute + 60 * (hour + 24 * ((day - 1)
                       + 30 * ((month - 1) + 12 * (year - Epoch)))))
    BY Zenon DEF Seconds
  <2>3. AllSeconds(d) = second + 60 * (minute + 60 * (hour + 24 * (day
                          + 30 * (month + 12 * year))))
    BY Zenon DEF AllSeconds, Minutes, Hours, Days, Months
  <2> HIDE DEF second, minute, hour, day, month, year
  <2> QED BY <2>1, <2>2, <2>3, SMT DEF Offset
<1> QED BY <1>1, <1>2, <1>3

\* A count in a smaller unit is in the order of the larger one first.
LEMMA LargerUnitDecides ==
  ASSUME NEW a \in Int, NEW b \in Int
  PROVE  /\ \A u, v \in 0..59 : /\ u + 60 * a < v + 60 * b <=> a < b \/ (a = b /\ u < v)
                                /\ u + 60 * a = v + 60 * b <=> a = b /\ u = v
         /\ \A u, v \in 0..23 : /\ u + 24 * a < v + 24 * b <=> a < b \/ (a = b /\ u < v)
                                /\ u + 24 * a = v + 24 * b <=> a = b /\ u = v
         /\ \A u, v \in 1..30 : /\ u + 30 * a < v + 30 * b <=> a < b \/ (a = b /\ u < v)
                                /\ u + 30 * a = v + 30 * b <=> a = b /\ u = v
BY SMT

\* Before, which compares field by field, is the order of the seconds.
LEMMA BeforeIsEarlier ==
  ASSUME NEW d \in CalendarDate, NEW e \in CalendarDate
  PROVE  Before(d, e) <=> AllSeconds(d) < AllSeconds(e)
<1>1. Months(d) < Months(e) <=> d.year < e.year \/ (d.year = e.year /\ d.month < e.month)
  BY SMT DEF Months, CalendarDate
<1>2. Months(d) = Months(e) <=> d.year = e.year /\ d.month = e.month
  BY SMT DEF Months, CalendarDate
<1> DEFINE Later(x, y, u, v) == x < y \/ (x = y /\ u < v)
<1>3. /\ Months(d) \in Int /\ Days(d) \in Int /\ Hours(d) \in Int /\ Minutes(d) \in Int
      /\ Months(e) \in Int /\ Days(e) \in Int /\ Hours(e) \in Int /\ Minutes(e) \in Int
      /\ d.day \in 1..30 /\ d.hour \in 0..23 /\ d.minute \in 0..59 /\ d.second \in 0..59
      /\ e.day \in 1..30 /\ e.hour \in 0..23 /\ e.minute \in 0..59 /\ e.second \in 0..59
  BY MeasuresAreIntegers DEF CalendarDate
<1>4. /\ Days(d) < Days(e) <=> Later(Months(d), Months(e), d.day, e.day)
      /\ Days(d) = Days(e) <=> Months(d) = Months(e) /\ d.day = e.day
  <2>1. /\ Days(d) = d.day + 30 * Months(d)
        /\ Days(e) = e.day + 30 * Months(e)
    BY DEF Days
  <2> DEFINE a == Months(d)  b == Months(e)  u == d.day  v == e.day
  <2>2. a \in Int /\ b \in Int /\ u \in 1..30 /\ v \in 1..30
    BY <1>3
  <2> HIDE DEF a, b, u, v
  <2>3. /\ u + 30 * a < v + 30 * b <=> a < b \/ (a = b /\ u < v)
        /\ u + 30 * a = v + 30 * b <=> a = b /\ u = v
    BY <2>2, LargerUnitDecides
  <2> QED BY <2>1, <2>3 DEF a, b, u, v
<1>5. /\ Hours(d) < Hours(e) <=> Later(Days(d), Days(e), d.hour, e.hour)
      /\ Hours(d) = Hours(e) <=> Days(d) = Days(e) /\ d.hour = e.hour
  <2>1. /\ Hours(d) = d.hour + 24 * Days(d)
        /\ Hours(e) = e.hour + 24 * Days(e)
    BY DEF Hours
  <2> DEFINE a == Days(d)  b == Days(e)  u == d.hour  v == e.hour
  <2>2. a \in Int /\ b \in Int /\ u \in 0..23 /\ v \in 0..23
    BY <1>3
  <2> HIDE DEF a, b, u, v
  <2>3. /\ u + 24 * a < v + 24 * b <=> a < b \/ (a = b /\ u < v)
        /\ u + 24 * a = v + 24 * b <=> a = b /\ u = v
    BY <2>2, LargerUnitDecides
  <2> QED BY <2>1, <2>3 DEF a, b, u, v
<1>6. /\ Minutes(d) < Minutes(e) <=> Later(Hours(d), Hours(e), d.minute, e.minute)
      /\ Minutes(d) = Minutes(e) <=> Hours(d) = Hours(e) /\ d.minute = e.minute
  <2>1. /\ Minutes(d) = d.minute + 60 * Hours(d)
        /\ Minutes(e) = e.minute + 60 * Hours(e)
    BY DEF Minutes
  <2> DEFINE a == Hours(d)  b == Hours(e)  u == d.minute  v == e.minute
  <2>2. a \in Int /\ b \in Int /\ u \in 0..59 /\ v \in 0..59
    BY <1>3
  <2> HIDE DEF a, b, u, v
  <2>3. /\ u + 60 * a < v + 60 * b <=> a < b \/ (a = b /\ u < v)
        /\ u + 60 * a = v + 60 * b <=> a = b /\ u = v
    BY <2>2, LargerUnitDecides
  <2> QED BY <2>1, <2>3 DEF a, b, u, v
<1>7. /\ AllSeconds(d) < AllSeconds(e) <=> Later(Minutes(d), Minutes(e), d.second, e.second)
      /\ AllSeconds(d) = AllSeconds(e) <=> Minutes(d) = Minutes(e) /\ d.second = e.second
  <2>1. /\ AllSeconds(d) = d.second + 60 * Minutes(d)
        /\ AllSeconds(e) = e.second + 60 * Minutes(e)
    BY DEF AllSeconds
  <2> DEFINE a == Minutes(d)  b == Minutes(e)  u == d.second  v == e.second
  <2>2. a \in Int /\ b \in Int /\ u \in 0..59 /\ v \in 0..59
    BY <1>3
  <2> HIDE DEF a, b, u, v
  <2>3. /\ u + 60 * a < v + 60 * b <=> a < b \/ (a = b /\ u < v)
        /\ u + 60 * a = v + 60 * b <=> a = b /\ u = v
    BY <2>2, LargerUnitDecides
  <2> QED BY <2>1, <2>3 DEF a, b, u, v
<1> QED BY <1>1, <1>2, <1>4, <1>5, <1>6, <1>7 DEF Before

\* Every property of the specification follows from the first two, which
\* every operation preserves.
IInv == TypeOK /\ NoSecondLost

\* Setting the date changes none of its fields.
LEMMA InitEstablishes == Init => IInv
<1> SUFFICES ASSUME Init PROVE IInv
  OBVIOUS
<1>1. start \in CalendarDate /\ passed = 0 /\ moves = 0
  BY ConstantsAssumption DEF Init
<1>2. date \in CalendarDate /\ AllSeconds(date) = AllSeconds(start) + 0
  BY <1>1, SecondExact DEF Init
<1>3. Seconds(date) = Seconds(start) + passed
  BY <1>1, <1>2, SecondsFromEpoch, SMT
<1> QED BY <1>1, <1>2, <1>3 DEF IInv, TypeOK, NoSecondLost

\* A step that moves the date by the seconds it adds to passed keeps both.
LEMMA MovedExactly ==
  ASSUME IInv, NEW n \in Int, Moved(n),
         date' \in CalendarDate, AllSeconds(date') = AllSeconds(date) + n
  PROVE  IInv'
<1>1. /\ date \in CalendarDate /\ start \in CalendarDate
      /\ passed \in Int /\ moves \in Nat
      /\ Seconds(date) = Seconds(start) + passed
  BY DEF IInv, TypeOK, NoSecondLost
<1>2. /\ moves' = moves + 1 /\ passed' = passed + n /\ start' = start
  BY DEF Moved
<1>3. TypeOK'
  BY <1>1, <1>2 DEF TypeOK
<1>4. Seconds(date') = Seconds(start) + passed'
  BY <1>1, <1>2, SecondsFromEpoch, SMT
<1>5. NoSecondLost'
  BY <1>2, <1>4 DEF NoSecondLost, Seconds
<1> QED BY <1>3, <1>5 DEF IInv

\* No operation, with any argument, loses a second.
LEMMA NextPreserves == IInv /\ [Next]_vars => IInv'
<1> SUFFICES ASSUME IInv, [Next]_vars PROVE IInv'
  OBVIOUS
<1>1. CASE UNCHANGED vars
  BY <1>1 DEF IInv, TypeOK, NoSecondLost, Seconds, vars
<1>2. date \in CalendarDate
  BY DEF IInv, TypeOK
<1>3. ASSUME NEW n \in Amounts, Second(n) PROVE IInv'
  <2>1. n \in Int /\ date' = AdvanceSecond(date, n) /\ Moved(n)
    BY <1>3, ConstantsAssumption DEF Second
  <2>2. date' \in CalendarDate /\ AllSeconds(date') = AllSeconds(date) + n
    BY <1>2, <2>1, SecondExact
  <2> QED BY <2>1, <2>2, MovedExactly
<1>4. ASSUME NEW n \in Amounts, Minute(n) PROVE IInv'
  <2>1. n \in Int /\ date' = AdvanceMinute(date, n) /\ Moved(60 * n)
    BY <1>4, ConstantsAssumption DEF Minute
  <2>2. /\ date' \in CalendarDate /\ Minutes(date') = Minutes(date) + n
        /\ date'.second = date.second
    BY <1>2, <2>1, MinuteExact
  <2>3. AllSeconds(date') = AllSeconds(date) + 60 * n
    BY <1>2, <2>1, <2>2, MeasuresAreIntegers, SMT DEF AllSeconds, CalendarDate
  <2> QED BY <2>1, <2>2, <2>3, MovedExactly
<1>5. ASSUME NEW n \in Amounts, Hour(n) PROVE IInv'
  <2>1. n \in Int /\ date' = AdvanceHour(date, n) /\ Moved(3600 * n)
    BY <1>5, ConstantsAssumption DEF Hour
  <2>2. /\ date' \in CalendarDate /\ Hours(date') = Hours(date) + n
        /\ date'.minute = date.minute /\ date'.second = date.second
    BY <1>2, <2>1, HourExact
  <2>3. AllSeconds(date') = AllSeconds(date) + 3600 * n
    BY <1>2, <2>1, <2>2, MeasuresAreIntegers, SMT DEF AllSeconds, Minutes, CalendarDate
  <2>4. 3600 * n \in Int
    BY <2>1, SMT
  <2> QED BY <2>1, <2>2, <2>3, <2>4, MovedExactly
<1>6. ASSUME NEW n \in Amounts, Day(n) PROVE IInv'
  <2>1. n \in Int /\ date' = AdvanceDay(date, n)
    BY <1>6, ConstantsAssumption, SMT DEF Day
  <2>2. /\ date' \in CalendarDate /\ Days(date') = Days(date) + n
        /\ date'.hour = date.hour /\ date'.minute = date.minute
        /\ date'.second = date.second
    BY <1>2, <2>1, DayExact, SMT
  <2>3. AllSeconds(date') = AllSeconds(date) + 86400 * n
    <3>1. /\ Hours(date') = Hours(date) + 24 * n
          /\ Hours(date) \in Int
      BY <1>2, <2>1, <2>2, MeasuresAreIntegers, SMT DEF Hours, CalendarDate
    <3>2. /\ Minutes(date') = Minutes(date) + 60 * (24 * n)
          /\ Minutes(date) \in Int
      BY <1>2, <2>1, <2>2, <3>1, MeasuresAreIntegers, SMT DEF Minutes, CalendarDate
    <3> QED
      BY <1>2, <2>1, <2>2, <3>2, MeasuresAreIntegers, SMT DEF AllSeconds, CalendarDate
  <2>4. 86400 * n \in Int /\ Moved(86400 * n)
    BY <1>6, <2>1, SMT DEF Day
  <2> QED BY <2>2, <2>3, <2>4, MovedExactly, SMT
<1>7. ASSUME NEW n \in Amounts, Month(n) PROVE IInv'
  <2>1. n \in Int /\ date' = AdvanceMonth(date, n)
    BY <1>7, ConstantsAssumption, SMT DEF Month
  <2>2. /\ date \in LooseDate /\ date.day \in 1..30
        /\ Months(date) \in Int
    BY <1>2, MeasuresAreIntegers DEF CalendarDate, LooseDate
  <2>3. /\ date' \in LooseDate /\ Months(date') = Months(date) + n
        /\ date'.day = date.day /\ date'.hour = date.hour
        /\ date'.minute = date.minute /\ date'.second = date.second
    BY <2>1, <2>2, MonthExact
  <2>4. date' \in CalendarDate
    BY <2>2, <2>3 DEF CalendarDate, LooseDate
  <2>5. AllSeconds(date') = AllSeconds(date) + 2592000 * n
    <3>1. /\ Days(date') = Days(date) + 30 * n
          /\ Days(date) \in Int
      BY <1>2, <2>1, <2>2, <2>3, MeasuresAreIntegers, SMT DEF Days, CalendarDate
    <3>2. /\ Hours(date') = Hours(date) + 24 * (30 * n)
          /\ Hours(date) \in Int
      BY <1>2, <2>1, <2>3, <3>1, MeasuresAreIntegers, SMT DEF Hours, CalendarDate
    <3>3. /\ Minutes(date') = Minutes(date) + 60 * (24 * (30 * n))
          /\ Minutes(date) \in Int
      BY <1>2, <2>1, <2>3, <3>2, MeasuresAreIntegers, SMT DEF Minutes, CalendarDate
    <3> QED
      BY <1>2, <2>1, <2>3, <3>3, MeasuresAreIntegers, SMT DEF AllSeconds, CalendarDate
  <2>6. 2592000 * n \in Int /\ Moved(2592000 * n)
    BY <1>7, <2>1, SMT DEF Month
  <2> QED BY <2>4, <2>5, <2>6, MovedExactly, SMT
<1> QED BY <1>1, <1>3, <1>4, <1>5, <1>6, <1>7 DEF Next

\* Every reachable state satisfies both.
LEMMA Invariance == Spec => []IInv
BY InitEstablishes, NextPreserves, PTL DEF Spec

\* A date never leaves the calendar, whatever is added to or taken from it: no
\* day 0 and no month 0 or 13 is ever left behind.
THEOREM StaysInCalendar == Spec => []TypeOK
<1>1. IInv => TypeOK
  BY DEF IInv
<1> QED BY <1>1, Invariance, PTL

\* However a date is advanced it is exactly as far away as it was asked to be.
THEOREM AdvanceExact == Spec => []NoSecondLost
<1>1. IInv => NoSecondLost
  BY DEF IInv
<1> QED BY <1>1, Invariance, PTL

\* Before and After tell the direction of all the moves together.
THEOREM OrderIsRight == Spec => []OrderAgrees
<1>1. IInv => OrderAgrees
  <2> SUFFICES ASSUME IInv PROVE OrderAgrees
    OBVIOUS
  <2>1. /\ date \in CalendarDate /\ start \in CalendarDate /\ passed \in Int
        /\ Seconds(date) = Seconds(start) + passed
    BY DEF IInv, TypeOK, NoSecondLost
  <2>2. /\ AllSeconds(date) \in Int /\ AllSeconds(start) \in Int
        /\ AllSeconds(date) = AllSeconds(start) + passed
    BY <2>1, SecondsFromEpoch, SMT
  <2>3. Before(date, start) <=> passed < 0
    BY <2>1, <2>2, BeforeIsEarlier, SMT
  <2>4. After(date, start) <=> passed > 0
    BY <2>1, <2>2, BeforeIsEarlier, SMT DEF After
  <2> QED BY <2>3, <2>4 DEF OrderAgrees
<1> QED BY <1>1, Invariance, PTL
=============================================================================
