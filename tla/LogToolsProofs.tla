--------------------------- MODULE LogToolsProofs ---------------------------
(***************************************************************************)
(* What the two arrays of a logbank keep under any number of programs,     *)
(* events and investigators, for any number of logs.                       *)
(***************************************************************************)
EXTENDS LogTools, SequenceTheorems, FiniteSetTheorems, TLAPS

Slots == AccessLog \cup {Unused}

\* A used slot has a backup for its entry, and while either copy is suspicious
\* the entry has been marked more often than it was pursued.
Backed(log, backup, m, o) ==
  log # Unused =>
    /\ backup # Unused
    /\ backup.entry = log.entry
    /\ log.entry \in 1..m
    /\ (\/ log.suspicious \in {SUSPICIOUS, SUSPICIOUSANDNOTICED}
        \/ backup.suspicious \in {SUSPICIOUS, SUSPICIOUSANDNOTICED}) => o[log.entry] >= 1

\* No two used slots go back to the same call of AddLog.
EntriesDistinct(a) ==
  \A i, j \in UsedSlots(a) : a[i].entry = a[j].entry => i = j

\* A bank of at most m logs, whose entries are owed o.
Sound(b, m, o) ==
  /\ b \in Bank
  /\ Len(b.internallogs) = Len(b.logs)
  /\ Len(b.logs) <= m
  /\ \A i \in 1..Len(b.logs) : Backed(b.logs[i], b.internallogs[i], m, o)
  /\ EntriesDistinct(b.logs)

\* The inductive invariant.
IInv == TypeOK /\ NoUndueConsequence /\ Sound(bank, made, owed)

-----------------------------------------------------------------------------
(* Arrays.                                                                 *)

LEMMA UnusedIsNoLog == Unused \notin AccessLog
BY ConstantsAssumption

\* A log with another suspicion.
Mark(log, s) == [log EXCEPT !.suspicious = s]

LEMMA Marked ==
  ASSUME NEW log \in AccessLog, NEW s \in Suspicions
  PROVE  /\ Mark(log, s) \in AccessLog
         /\ Mark(log, s).entry = log.entry
         /\ Mark(log, s).suspicious = s
BY DEF AccessLog, Mark

\* A function on the first n numbers is a sequence.
LEMMA Built ==
  ASSUME NEW S, NEW n \in Nat, NEW f \in [1..n -> S]
  PROVE  /\ f \in Seq(S)
         /\ Len(f) = n
         /\ \A i \in 1..n : f[i] \in S
<1>1. f \in Seq(S)
  BY SeqDef
<1>2. Len(f) = n
  BY <1>1, LenProperties
<1> QED BY <1>1, <1>2

\* What a sound bank consists of.
LEMMA Parts ==
  ASSUME NEW b, NEW m, NEW o, Sound(b, m, o)
  PROVE  /\ b = [logs |-> b.logs, internallogs |-> b.internallogs]
         /\ b.logs \in [1..Len(b.logs) -> Slots]
         /\ b.internallogs \in [1..Len(b.logs) -> Slots]
         /\ Len(b.logs) \in Nat
         /\ UsedSlots(b.logs) = {i \in 1..Len(b.logs) : b.logs[i] # Unused}
<1>1. /\ b.logs \in Seq(Slots) /\ b.internallogs \in Seq(Slots)
      /\ b = [logs |-> b.logs, internallogs |-> b.internallogs]
  BY DEF Sound, Bank, Slots
<1> QED BY <1>1, LenProperties DEF Sound, UsedSlots

\* A bank put together from two functions.
LEMMA Assembled ==
  ASSUME NEW n \in Nat, NEW f \in [1..n -> Slots], NEW g \in [1..n -> Slots],
         NEW m \in Nat, n <= m, NEW o,
         \A i \in 1..n : Backed(f[i], g[i], m, o),
         \A i, j \in 1..n : f[i] # Unused /\ f[j] # Unused /\ f[i].entry = f[j].entry => i = j
  PROVE  Sound([logs |-> f, internallogs |-> g], m, o)
<1>1. /\ f \in Seq(Slots) /\ Len(f) = n
      /\ g \in Seq(Slots) /\ Len(g) = n
  BY Built
<1> QED BY <1>1 DEF Sound, Bank, Slots, EntriesDistinct, UsedSlots

\* The logs stay where they are.
LEMMA InPlace ==
  ASSUME NEW b, NEW m \in Nat, NEW o, NEW p, Sound(b, m, o),
         NEW f \in [1..Len(b.logs) -> Slots], NEW g \in [1..Len(b.logs) -> Slots],
         \A i \in 1..Len(b.logs) : f[i] # Unused =>
           /\ b.logs[i] # Unused
           /\ f[i].entry = b.logs[i].entry
           /\ Backed(f[i], g[i], m, p)
  PROVE  Sound([logs |-> f, internallogs |-> g], m, p)
<1>1. /\ Len(b.logs) \in Nat /\ Len(b.logs) <= m
      /\ UsedSlots(b.logs) = {i \in 1..Len(b.logs) : b.logs[i] # Unused}
  BY Parts DEF Sound
<1>2. \A i \in 1..Len(b.logs) : Backed(f[i], g[i], m, p)
  BY DEF Backed
<1>3. \A i, j \in 1..Len(b.logs) :
        f[i] # Unused /\ f[j] # Unused /\ f[i].entry = f[j].entry => i = j
  BY <1>1 DEF Sound, EntriesDistinct
<1> QED BY <1>1, <1>2, <1>3, Assembled

\* The array lengthened by one slot.
LEMMA Longer ==
  ASSUME NEW n \in Nat, NEW a \in [1..n -> Slots], Len(a) = n, NEW log \in Slots,
         NEW c, c = PutData(SetSize(a, n + 1), n + 1, log)
  PROVE  /\ c \in [1..(n + 1) -> Slots]
         /\ \A i \in 1..n : c[i] = a[i]
         /\ c[n + 1] = log
BY DEF PutData, SetSize, Slots

\* AddLog of a log that bears the next number.
LEMMA AddLogSound ==
  ASSUME NEW b, NEW m \in Nat, NEW o, NEW p, Sound(b, m, o),
         NEW log \in AccessLog, log.entry = m + 1,
         \A e \in 1..m : p[e] = o[e],
         log.suspicious \in {SUSPICIOUS, SUSPICIOUSANDNOTICED} => p[m + 1] >= 1
  PROVE  Sound(AddLog(b, log), m + 1, p)
<1> DEFINE n == Len(b.logs)
           f == PutData(SetSize(b.logs, n + 1), n + 1, log)
           g == PutData(SetSize(b.internallogs, n + 1), n + 1, log)
<1>1. /\ n \in Nat /\ n <= m
      /\ b.logs \in [1..n -> Slots] /\ b.internallogs \in [1..n -> Slots]
      /\ Len(b.internallogs) = n
      /\ \A i, j \in 1..n : b.logs[i] # Unused /\ b.logs[j] # Unused
                              /\ b.logs[i].entry = b.logs[j].entry => i = j
  BY Parts DEF Sound, EntriesDistinct
<1>2. \A i \in 1..n : Backed(b.logs[i], b.internallogs[i], m, o)
  BY DEF Sound
<1>3. log \in Slots /\ log # Unused
  BY UnusedIsNoLog DEF Slots
<1>a. Len(b.logs) = n
  OBVIOUS
<1> HIDE DEF n
<1>b. /\ f = PutData(SetSize(b.logs, n + 1), n + 1, log)
      /\ g = PutData(SetSize(b.internallogs, n + 1), n + 1, log)
  OBVIOUS
<1> HIDE DEF f, g
<1>4. /\ f \in [1..(n + 1) -> Slots]
      /\ \A i \in 1..n : f[i] = b.logs[i]
      /\ f[n + 1] = log
  <2>1. n \in Nat /\ b.logs \in [1..n -> Slots] /\ log \in Slots
    BY <1>1, <1>3
  <2> QED BY ONLY <2>1, <1>a, <1>b, Longer
<1>5. /\ g \in [1..(n + 1) -> Slots]
      /\ \A i \in 1..n : g[i] = b.internallogs[i]
      /\ g[n + 1] = log
  <2>1. /\ n \in Nat /\ b.internallogs \in [1..n -> Slots] /\ log \in Slots
        /\ Len(b.internallogs) = n
    BY <1>1, <1>3
  <2> QED BY ONLY <2>1, <1>b, Longer
<1>6. \A i \in 1..n : f[i] # Unused => f[i].entry \in 1..m
  BY <1>2, <1>4 DEF Backed
<1>7. ASSUME NEW i \in 1..(n + 1) PROVE Backed(f[i], g[i], m + 1, p)
  <2>1. CASE i \in 1..n
    BY <1>1, <1>2, <1>4, <1>5, <2>1 DEF Backed
  <2>2. CASE i = n + 1
    BY <1>3, <1>4, <1>5, <2>2 DEF Backed
  <2> QED BY <1>1, <2>1, <2>2
<1>8. \A i, j \in 1..(n + 1) :
        f[i] # Unused /\ f[j] # Unused /\ f[i].entry = f[j].entry => i = j
  BY <1>1, <1>4, <1>6
<1>9. Sound([logs |-> f, internallogs |-> g], m + 1, p)
  <2>1. n + 1 \in Nat /\ m + 1 \in Nat /\ n + 1 <= m + 1
    BY <1>1
  <2> QED BY <2>1, <1>4, <1>5, <1>7, <1>8, Assembled
<1> QED BY <1>9 DEF AddLog, f, g, n

-----------------------------------------------------------------------------
(* Steps.                                                                  *)

LEMMA InitEstablishes == Init => IInv
<1> SUFFICES ASSUME Init PROVE IInv
  OBVIOUS
<1>1. <<>> \in [1..0 -> Slots] /\ <<>> \in Seq(Slots) /\ Len(<<>>) = 0
  BY EmptySeq
<1>2. Sound(bank, made, owed)
  BY <1>1 DEF Init, Sound, Bank, Slots, EmptyBank, EntriesDistinct, UsedSlots
<1>3. TypeOK /\ NoUndueConsequence
  <2>1. bank \in Bank
    BY <1>2 DEF Sound
  <2>2. /\ made \in 0..MaxEntries /\ aged \in 0..made /\ checked \in 0..made
        /\ targets \in 0..MaxTargets
    BY ConstantsAssumption DEF Init
  <2>3. /\ owed \in [Entries -> Int] /\ \A e \in Entries : owed[e] >= 0
        /\ task \in [Tasks -> Task \cup {NoTask}]
    BY DEF Init
  <2> QED BY <2>1, <2>2, <2>3, Zenon DEF Init, TypeOK, NoUndueConsequence
<1> QED BY <1>2, <1>3 DEF IInv

\* What the invariant says of the state, for use in the steps.
LEMMA Facts ==
  ASSUME IInv
  PROVE  /\ made \in 0..MaxEntries /\ made \in Nat
         /\ MaxEntries \in Nat
         /\ made \in Dates
         /\ Len(bank.logs) \in Nat /\ Len(bank.logs) <= made
         /\ bank = [logs |-> bank.logs, internallogs |-> bank.internallogs]
         /\ bank.logs \in [1..Len(bank.logs) -> Slots]
         /\ bank.internallogs \in [1..Len(bank.logs) -> Slots]
         /\ Len(bank.internallogs) = Len(bank.logs)
         /\ UsedSlots(bank.logs) = {i \in 1..Len(bank.logs) : bank.logs[i] # Unused}
         /\ \A i \in UsedSlots(bank.logs) :
              /\ bank.logs[i] \in AccessLog /\ bank.internallogs[i] \in AccessLog
              /\ bank.internallogs[i] # Unused
              /\ bank.internallogs[i].entry = bank.logs[i].entry
              /\ bank.logs[i].entry \in 1..made
              /\ ValidIndex(bank.internallogs, i)
         /\ \A i \in 1..Len(bank.logs) :
              Backed(bank.logs[i], bank.internallogs[i], made, owed)
         /\ \A i, j \in UsedSlots(bank.logs) :
              bank.logs[i].entry = bank.logs[j].entry => i = j
         /\ Sound(bank, made, owed)
<1>1. Sound(bank, made, owed) /\ TypeOK
  BY DEF IInv
<1>2. made \in 0..MaxEntries /\ MaxEntries \in Nat
  BY <1>1, ConstantsAssumption DEF TypeOK
<1>3. /\ bank = [logs |-> bank.logs, internallogs |-> bank.internallogs]
      /\ bank.logs \in [1..Len(bank.logs) -> Slots]
      /\ bank.internallogs \in [1..Len(bank.logs) -> Slots]
      /\ Len(bank.logs) \in Nat
      /\ UsedSlots(bank.logs) = {i \in 1..Len(bank.logs) : bank.logs[i] # Unused}
  BY <1>1, Parts
<1>4. /\ Len(bank.logs) <= made /\ Len(bank.internallogs) = Len(bank.logs)
      /\ \A i \in 1..Len(bank.logs) :
           Backed(bank.logs[i], bank.internallogs[i], made, owed)
      /\ \A i, j \in UsedSlots(bank.logs) :
           bank.logs[i].entry = bank.logs[j].entry => i = j
  BY <1>1 DEF Sound, EntriesDistinct
<1>5. ASSUME NEW i \in UsedSlots(bank.logs)
      PROVE  /\ bank.logs[i] \in AccessLog /\ bank.internallogs[i] \in AccessLog
             /\ bank.internallogs[i] # Unused
             /\ bank.internallogs[i].entry = bank.logs[i].entry
             /\ bank.logs[i].entry \in 1..made
             /\ ValidIndex(bank.internallogs, i)
  BY <1>3, <1>4 DEF Backed, ValidIndex, Slots
<1> QED BY <1>1, <1>2, <1>3, <1>4, <1>5, ConstantsAssumption

\* The logs stay where they are, and nothing else that the invariant needs moves.
LEMMA StepInPlace ==
  ASSUME IInv,
         NEW f \in [1..Len(bank.logs) -> Slots], NEW g \in [1..Len(bank.logs) -> Slots],
         bank' = [logs |-> f, internallogs |-> g],
         \A i \in 1..Len(bank.logs) : f[i] # Unused =>
           /\ bank.logs[i] # Unused
           /\ f[i].entry = bank.logs[i].entry
           /\ Backed(f[i], g[i], made, owed),
         made' = made, owed' = owed
  PROVE  Sound(bank', made', owed') /\ bank' \in Bank
<1>1. made \in Nat /\ Sound(bank, made, owed)
  BY Facts
<1>2. Sound([logs |-> f, internallogs |-> g], made, owed)
  BY <1>1, InPlace
<1> QED BY <1>2 DEF Sound

\* A log in the bank is given the next number, and the owing moves for it only.
LEMMA StepAdds ==
  ASSUME IInv, NEW b, Sound(b, made, owed'), NEW log \in AccessLog, log.entry = made + 1,
         AddsLog(b, log),
         log.suspicious \in {SUSPICIOUS, SUSPICIOUSANDNOTICED} => owed'[made + 1] >= 1
  PROVE  /\ Sound(bank', made', owed') /\ bank' \in Bank
         /\ made' \in 0..MaxEntries /\ made' = made + 1
<1>1. made \in Nat /\ made \in 0..MaxEntries /\ MaxEntries \in Nat
  BY Facts
<1>2. Sound(AddLog(b, log), made + 1, owed')
  BY <1>1, AddLogSound
<1> QED BY <1>1, <1>2 DEF AddsLog, Sound

\* Dates of new logs, marks and owing.
LEMMA NewLogs ==
  ASSUME IInv, made < MaxEntries, NEW type \in LogTypes, NEW from \in FromIps,
         NEW s \in Suspicions
  PROVE  /\ NewLog(type, from, s) \in AccessLog
         /\ NewLog(type, from, s).entry = made + 1
         /\ NewLog(type, from, s).suspicious = s
         /\ made + 1 \in Entries
BY Facts, ConstantsAssumption DEF NewLog, AccessLog, Entries

LEMMA ConnectKeeps ==
  ASSUME IInv, NEW from \in Routes, Connect(from)
  PROVE  IInv'
<1> DEFINE log == NewLog(CONNECTIONOPENED, from, NOTSUSPICIOUS)
<1>1. /\ log \in AccessLog /\ log.entry = made + 1 /\ log.suspicious = NOTSUSPICIOUS
  BY NewLogs, ConstantsAssumption DEF Connect, AddsLog, LogTypes, Suspicions, NOTSUSPICIOUS
<1>2. owed' = owed /\ Sound(bank, made, owed)
  BY Facts DEF Connect
<1>3. /\ Sound(bank', made', owed') /\ bank' \in Bank
      /\ made' \in 0..MaxEntries /\ made' = made + 1
  <2> HIDE DEF log
  <2>1. AddsLog(bank, log)
    BY DEF Connect, log
  <2>2. log.suspicious \notin {SUSPICIOUS, SUSPICIOUSANDNOTICED}
    BY <1>1 DEF NOTSUSPICIOUS, SUSPICIOUS, SUSPICIOUSANDNOTICED
  <2> QED BY <1>1, <1>2, <2>1, <2>2, StepAdds
<1>4. from \in FromIps
  BY ConstantsAssumption
<1>5. TypeOK' /\ NoUndueConsequence'
  BY <1>3, <1>4 DEF Connect, IInv, TypeOK, NoUndueConsequence
<1> QED BY <1>3, <1>5 DEF IInv

LEMMA OtherAccessKeeps == IInv /\ OtherAccess => IInv'
<1> SUFFICES ASSUME IInv, OtherAccess PROVE IInv'
  OBVIOUS
<1> DEFINE log == NewLog(TEXT, Elsewhere, NOTSUSPICIOUS)
<1>1. /\ log \in AccessLog /\ log.entry = made + 1 /\ log.suspicious = NOTSUSPICIOUS
  BY NewLogs DEF OtherAccess, AddsLog, LogTypes, Suspicions, NOTSUSPICIOUS, FromIps
<1>2. owed' = owed /\ Sound(bank, made, owed)
  BY Facts DEF OtherAccess
<1>3. /\ Sound(bank', made', owed') /\ bank' \in Bank
      /\ made' \in 0..MaxEntries /\ made' = made + 1
  <2> HIDE DEF log
  <2>1. AddsLog(bank, log)
    BY DEF OtherAccess, log
  <2>2. log.suspicious \notin {SUSPICIOUS, SUSPICIOUSANDNOTICED}
    BY <1>1 DEF NOTSUSPICIOUS, SUSPICIOUS, SUSPICIOUSANDNOTICED
  <2> QED BY <1>1, <1>2, <2>1, <2>2, StepAdds
<1>4. TypeOK' /\ NoUndueConsequence'
  BY <1>3 DEF OtherAccess, IInv, TypeOK, NoUndueConsequence
<1> QED BY <1>3, <1>4 DEF IInv

\* One entry is owed one more.
LEMMA OneMore ==
  ASSUME NEW o \in [Entries -> Int], \A e \in Entries : o[e] >= 0, NEW k \in Entries, NEW p,
         p = [o EXCEPT ![k] = @ + 1]
  PROVE  /\ p \in [Entries -> Int]
         /\ p[k] >= 1
         /\ \A e \in Entries : p[e] >= 0 /\ p[e] >= o[e]
         /\ \A e \in Entries : e # k => p[e] = o[e]
OBVIOUS

\* An array with one used slot marked.
LEMMA MarkedLog ==
  ASSUME NEW l \in AccessLog
  PROVE  LET k == [l EXCEPT !.suspicious = SUSPICIOUS]
         IN k \in AccessLog /\ k.entry = l.entry
BY DEF AccessLog, Suspicions, SUSPICIOUS

LEMMA MarkedSlot ==
  ASSUME NEW n, NEW a \in [1..n -> Slots], NEW i \in 1..n, a[i] \in AccessLog
  PROVE  LET c == [a EXCEPT ![i].suspicious = SUSPICIOUS]
         IN /\ c \in [1..n -> Slots] /\ c[i] \in AccessLog
            /\ c[i].entry = a[i].entry
            /\ \A j \in 1..n : j # i => c[j] = a[j]
<1> DEFINE l == [a[i] EXCEPT !.suspicious = SUSPICIOUS]
           c == [a EXCEPT ![i] = l]
<1>1. l \in AccessLog /\ l.entry = a[i].entry
  BY MarkedLog
<1> HIDE DEF l
<1>2. l \in Slots
  BY <1>1 DEF Slots
<1>3. c \in [1..n -> Slots] /\ c[i] = l /\ \A j \in 1..n : j # i => c[j] = a[j]
  BY <1>2
<1>4. c = [a EXCEPT ![i].suspicious = SUSPICIOUS]
  BY DEF l
<1> QED BY <1>1, <1>3, <1>4

\* One log of the bank is marked in both arrays, and the entry is owed one more.
LEMMA MarkSound ==
  ASSUME IInv, NEW i \in UsedSlots(bank.logs),
         owed' = [owed EXCEPT ![bank.logs[i].entry] = @ + 1]
  PROVE  Sound(WithSuspicion(bank, i, SUSPICIOUS), made, owed')
<1> DEFINE f == [bank.logs EXCEPT ![i].suspicious = SUSPICIOUS]
           g == [bank.internallogs EXCEPT ![i].suspicious = SUSPICIOUS]
<1>1. /\ bank.logs \in [1..Len(bank.logs) -> Slots]
      /\ bank.internallogs \in [1..Len(bank.logs) -> Slots]
      /\ i \in 1..Len(bank.logs) /\ bank.logs[i] # Unused
      /\ bank.logs[i] \in AccessLog /\ bank.internallogs[i] \in AccessLog
      /\ bank.internallogs[i].entry = bank.logs[i].entry
      /\ bank.logs[i].entry \in 1..made
      /\ ValidIndex(bank.internallogs, i)
      /\ made \in Nat /\ made <= MaxEntries /\ MaxEntries \in Nat
      /\ Sound(bank, made, owed)
  BY Facts
<1>2. owed \in [Entries -> Int] /\ \A e \in Entries : owed[e] >= 0
  BY DEF IInv, TypeOK, NoUndueConsequence
<1>3. 1..made \subseteq Entries
  BY <1>1 DEF Entries
<1>4. /\ owed'[bank.logs[i].entry] >= 1
      /\ \A e \in 1..made : owed'[e] >= owed[e]
      /\ owed' \in [Entries -> Int]
  BY <1>1, <1>2, <1>3, OneMore
<1>5. /\ f \in [1..Len(bank.logs) -> Slots] /\ f[i] \in AccessLog
      /\ f[i].entry = bank.logs[i].entry
      /\ \A j \in 1..Len(bank.logs) : j # i => f[j] = bank.logs[j]
  BY <1>1, MarkedSlot
<1>6. /\ g \in [1..Len(bank.logs) -> Slots] /\ g[i] \in AccessLog
      /\ g[i].entry = bank.logs[i].entry
      /\ \A j \in 1..Len(bank.logs) : j # i => g[j] = bank.internallogs[j]
  BY <1>1, MarkedSlot
<1> HIDE DEF f, g
<1>7. ASSUME NEW j \in 1..Len(bank.logs), f[j] # Unused
      PROVE  /\ bank.logs[j] # Unused
             /\ f[j].entry = bank.logs[j].entry
             /\ Backed(f[j], g[j], made, owed')
  <2>1. CASE j = i
    BY <1>1, <1>4, <1>5, <1>6, <2>1, UnusedIsNoLog DEF Backed
  <2>2. CASE j # i
    <3>1. Backed(bank.logs[j], bank.internallogs[j], made, owed)
      BY Facts
    <3>2. \/ owed[bank.logs[j].entry] \in Int /\ owed'[bank.logs[j].entry] \in Int
          \/ bank.logs[j] = Unused
      BY <1>2, <1>3, <1>4, <3>1 DEF Backed
    <3>3. bank.logs[j] # Unused /\ f[j] = bank.logs[j] /\ g[j] = bank.internallogs[j]
      BY <1>5, <1>6, <1>7, <2>2
    <3>4. Backed(bank.logs[j], bank.internallogs[j], made, owed')
      BY <1>4, <3>1, <3>2, <3>3 DEF Backed
    <3> QED BY <3>3, <3>4
  <2> QED BY <2>1, <2>2
<1>8. Sound([logs |-> f, internallogs |-> g], made, owed')
  BY <1>1, <1>5, <1>6, <1>7, InPlace
<1> QED BY <1>1, <1>8 DEF WithSuspicion, f, g

LEMMA DisconnectKeeps == IInv /\ Disconnect => IInv'
<1> SUFFICES ASSUME IInv, Disconnect PROVE IInv'
  OBVIOUS
<1>1. /\ fromip \in FromIps /\ made < MaxEntries
      /\ owed \in [Entries -> Int] /\ \A e \in Entries : owed[e] >= 0
      /\ made + 1 \in Nat
  BY Facts DEF Disconnect, AddsLog, Connected, IInv, TypeOK, NoUndueConsequence
<1>2. ASSUME NEW s \in {NOTSUSPICIOUS, SUSPICIOUS}
      PROVE  /\ NewLog(TEXT, fromip, s) \in AccessLog
             /\ NewLog(TEXT, fromip, s).entry = made + 1
             /\ NewLog(TEXT, fromip, s).suspicious = s
             /\ made + 1 \in Entries
  BY <1>1, NewLogs DEF LogTypes, Suspicions, NOTSUSPICIOUS, SUSPICIOUS
<1>3. /\ Sound(bank', made', owed') /\ bank' \in Bank
      /\ made' \in 0..MaxEntries /\ made' = made + 1
      /\ owed' \in [Entries -> Int] /\ \A e \in Entries : owed'[e] >= 0
  <2>1. CASE /\ AddsLog(bank, NewLog(TEXT, fromip, NOTSUSPICIOUS))
             /\ UNCHANGED owed
    <3> DEFINE log == NewLog(TEXT, fromip, NOTSUSPICIOUS)
    <3>1. /\ log \in AccessLog /\ log.entry = made + 1
          /\ log.suspicious \notin {SUSPICIOUS, SUSPICIOUSANDNOTICED}
      BY <1>2 DEF NOTSUSPICIOUS, SUSPICIOUS, SUSPICIOUSANDNOTICED
    <3>2. Sound(bank, made, owed')
      BY <2>1, Facts
    <3> HIDE DEF log
    <3>3. AddsLog(bank, log)
      BY <2>1 DEF log
    <3> QED BY <1>1, <2>1, <3>1, <3>2, <3>3, StepAdds
  <2>2. ASSUME NEW i \in Openings,
               AddsLog(WithSuspicion(bank, i, SUSPICIOUS),
                       NewLog(TEXT, fromip, NOTSUSPICIOUS)),
               owed' = [owed EXCEPT ![bank.logs[i].entry] = @ + 1]
        PROVE  /\ Sound(bank', made', owed') /\ bank' \in Bank
               /\ made' \in 0..MaxEntries /\ made' = made + 1
               /\ owed' \in [Entries -> Int] /\ \A e \in Entries : owed'[e] >= 0
    <3> DEFINE log == NewLog(TEXT, fromip, NOTSUSPICIOUS)
               b   == WithSuspicion(bank, i, SUSPICIOUS)
    <3>1. /\ log \in AccessLog /\ log.entry = made + 1
          /\ log.suspicious \notin {SUSPICIOUS, SUSPICIOUSANDNOTICED}
      BY <1>2 DEF NOTSUSPICIOUS, SUSPICIOUS, SUSPICIOUSANDNOTICED
    <3>2. Sound(b, made, owed')
      BY <2>2, MarkSound DEF Openings
    <3>3. /\ owed' \in [Entries -> Int] /\ \A e \in Entries : owed'[e] >= 0
      <4>1. bank.logs[i].entry \in Entries
        BY <2>2, Facts DEF Openings, Entries
      <4> QED BY <1>1, <2>2, <4>1, OneMore
    <3> HIDE DEF log, b
    <3>4. AddsLog(b, log)
      BY <2>2 DEF log, b
    <3> QED BY <3>1, <3>2, <3>3, <3>4, StepAdds
  <2>3. CASE /\ AddsLog(bank, NewLog(TEXT, fromip, SUSPICIOUS))
             /\ owed' = [owed EXCEPT ![made + 1] = @ + 1]
    <3> DEFINE log == NewLog(TEXT, fromip, SUSPICIOUS)
    <3>1. log \in AccessLog /\ log.entry = made + 1 /\ made + 1 \in Entries
      BY <1>2
    <3>2. /\ owed' \in [Entries -> Int] /\ \A e \in Entries : owed'[e] >= 0
          /\ owed'[made + 1] >= 1
      BY <1>1, <2>3, <3>1, OneMore
    <3>3. Sound(bank, made, owed')
      <4>1. /\ Sound(bank, made, owed) /\ made \in Nat /\ made < MaxEntries
            /\ MaxEntries \in Nat
        BY <1>1, Facts
      <4>2. \A e \in 1..made : owed'[e] = owed[e]
        BY <1>1, <2>3, <4>1 DEF Entries
      <4> QED BY <4>1, <4>2 DEF Sound, Backed
    <3> HIDE DEF log
    <3>4. AddsLog(bank, log)
      BY <2>3 DEF log
    <3> QED BY <3>1, <3>2, <3>3, <3>4, StepAdds
  <2> QED BY <2>1, <2>2, <2>3, <1>1 DEF Disconnect
<1>4. TypeOK' /\ NoUndueConsequence'
  BY <1>3 DEF Disconnect, IInv, TypeOK, NoUndueConsequence
<1> QED BY <1>3, <1>4 DEF IInv

\* What a check takes off is owed.
LEMMA CheckKeeps == IInv /\ CheckForSecurityBreaches => IInv'
<1> SUFFICES ASSUME IInv, CheckForSecurityBreaches PROVE IInv'
  OBVIOUS
<1> DEFINE n == Len(bank.logs)
           noticed == UsedWith(bank, SUSPICIOUSANDNOTICED)
           hacked  == {bank.logs[i].entry : i \in noticed}
<1>1. CASE ~isrunning
  <2>1. UNCHANGED <<bank, made, owed>>
    BY <1>1 DEF CheckForSecurityBreaches
  <2>2. Sound(bank', made', owed')
    BY <2>1, Facts
  <2>3. TypeOK' /\ NoUndueConsequence'
    BY <1>1, <2>1, Facts DEF CheckForSecurityBreaches, IInv, TypeOK, NoUndueConsequence
  <2> QED BY <2>2, <2>3 DEF IInv
<1>2. ASSUME isrunning, NEW pardoned \in {{}, UsedWith(bank, SUSPICIOUS)},
             bank' = [logs |-> [i \in 1..Len(Judged(bank, bank.logs, pardoned)) |->
                                  IF i \in pardoned
                                  THEN [Judged(bank, bank.logs, pardoned)[i]
                                          EXCEPT !.suspicious = NOTSUSPICIOUS]
                                  ELSE Judged(bank, bank.logs, pardoned)[i]],
                      internallogs |-> Judged(bank, bank.internallogs, pardoned)],
             owed' = [e \in Entries |-> IF e \in hacked THEN owed[e] - 1 ELSE owed[e]]
      PROVE  /\ Sound(bank', made', owed') /\ bank' \in Bank
             /\ owed' \in [Entries -> Int] /\ \A e \in Entries : owed'[e] >= 0
  <2> DEFINE f == bank'.logs
             g == bank'.internallogs
  <2>1. /\ n \in Nat /\ made \in Nat /\ made <= MaxEntries /\ MaxEntries \in Nat
        /\ bank.logs \in [1..n -> Slots] /\ bank.internallogs \in [1..n -> Slots]
        /\ Len(bank.internallogs) = n /\ Sound(bank, made, owed)
        /\ UsedSlots(bank.logs) = {i \in 1..n : bank.logs[i] # Unused}
        /\ \A i \in UsedSlots(bank.logs) :
              /\ bank.logs[i] \in AccessLog /\ bank.internallogs[i] \in AccessLog
              /\ bank.internallogs[i] # Unused
              /\ bank.internallogs[i].entry = bank.logs[i].entry
              /\ bank.logs[i].entry \in 1..made
    BY Facts
  <2>2. /\ owed \in [Entries -> Int] /\ \A e \in Entries : owed[e] >= 0
        /\ made' = made
    BY DEF IInv, TypeOK, NoUndueConsequence, CheckForSecurityBreaches
  <2>3. \A i \in UsedSlots(bank.logs) :
          /\ bank.logs[i].entry \in Entries
          /\ i \in noticed => owed[bank.logs[i].entry] >= 1
          /\ i \notin noticed => bank.logs[i].entry \notin hacked
    <3>1. \A i \in UsedSlots(bank.logs) : bank.logs[i].entry \in Entries
      BY <2>1 DEF Entries
    <3>2. \A i \in noticed : i \in UsedSlots(bank.logs) /\ owed[bank.logs[i].entry] >= 1
      BY <2>1, Facts DEF Backed, UsedWith
    <3>3. \A i \in UsedSlots(bank.logs) \ noticed : bank.logs[i].entry \notin hacked
      BY <3>2, Facts
    <3> QED BY <3>1, <3>2, <3>3
  <2>4. /\ owed' \in [Entries -> Int]
        /\ \A e \in Entries : owed'[e] >= 0
        /\ \A i \in UsedSlots(bank.logs) \ noticed :
             owed'[bank.logs[i].entry] = owed[bank.logs[i].entry]
    <3>1. noticed \subseteq UsedSlots(bank.logs)
      BY DEF UsedWith
    <3>2. \A e \in hacked : e \in Entries /\ owed[e] >= 1
      BY <2>3, <3>1
    <3> QED BY <1>2, <2>2, <2>3, <3>2
  <2>5. /\ UsedWith(bank, SUSPICIOUS) \subseteq UsedSlots(bank.logs)
        /\ noticed \subseteq UsedSlots(bank.logs)
        /\ \A i \in UsedSlots(bank.logs) :
             /\ i \in noticed <=> bank.logs[i].suspicious = 2
             /\ i \in UsedWith(bank, SUSPICIOUS) <=> bank.logs[i].suspicious = 1
        /\ pardoned \subseteq UsedWith(bank, SUSPICIOUS)
    BY DEF UsedWith, SUSPICIOUSANDNOTICED, SUSPICIOUS
  <2>6. Len(Judged(bank, bank.logs, pardoned)) = n
    <3>1. Judged(bank, bank.logs, pardoned) \in [1..n -> Slots]
      BY <2>1, <2>5 DEF Judged, Slots, AccessLog, Suspicions, SUSPICIOUSANDNOTICED,
        UNDERINVESTIGATION
    <3> QED BY <2>1, <3>1, Built
  <2>7. f = [i \in 1..n |->
               IF bank.logs[i] = Unused THEN Unused
               ELSE IF i \in pardoned THEN Mark(bank.logs[i], 0)
               ELSE IF i \in UsedWith(bank, SUSPICIOUS)
                    THEN Mark(bank.logs[i], 2)
               ELSE IF i \in noticed THEN Mark(bank.logs[i], 3)
               ELSE bank.logs[i]]
    BY <1>2, <2>1, <2>5, <2>6 DEF Judged, NOTSUSPICIOUS, SUSPICIOUS, SUSPICIOUSANDNOTICED,
      UNDERINVESTIGATION, Mark
  <2>8. g = [i \in 1..n |->
               IF bank.internallogs[i] = Unused THEN Unused
               ELSE IF i \in UsedWith(bank, SUSPICIOUS) \ pardoned
                    THEN Mark(bank.internallogs[i], 2)
               ELSE IF i \in noticed THEN Mark(bank.internallogs[i], 3)
               ELSE bank.internallogs[i]]
    BY <1>2, <2>1 DEF Judged, SUSPICIOUSANDNOTICED, UNDERINVESTIGATION, Mark
  <2>9. f \in [1..n -> Slots]
    <3>1. ASSUME NEW i \in 1..n PROVE f[i] \in Slots
      <4>1. bank.logs[i] \in AccessLog \/ bank.logs[i] = Unused
        BY <2>1 DEF Slots
      <4> QED BY <2>7, <4>1, Marked DEF Slots, Suspicions
    <3> QED BY <2>7, <3>1
  <2>10. g \in [1..n -> Slots]
    <3>1. ASSUME NEW i \in 1..n PROVE g[i] \in Slots
      <4>1. bank.internallogs[i] \in AccessLog \/ bank.internallogs[i] = Unused
        BY <2>1 DEF Slots
      <4> QED BY <2>8, <4>1, Marked DEF Slots, Suspicions
    <3> QED BY <2>8, <3>1
  <2>11. ASSUME NEW i \in 1..n, f[i] # Unused
         PROVE  /\ bank.logs[i] # Unused
                /\ f[i].entry = bank.logs[i].entry
                /\ Backed(f[i], g[i], made, owed')
    <3>1. bank.logs[i] # Unused /\ i \in UsedSlots(bank.logs)
      BY <2>1, <2>7, <2>11
    <3>2. /\ bank.logs[i] \in AccessLog /\ bank.internallogs[i] \in AccessLog
          /\ bank.internallogs[i] # Unused
          /\ bank.internallogs[i].entry = bank.logs[i].entry
          /\ bank.logs[i].entry \in 1..made
      BY <2>1, <3>1
    <3>3. f[i] \in AccessLog /\ f[i].entry = bank.logs[i].entry
      BY <2>7, <3>1, <3>2, Marked DEF Suspicions
    <3>4. g[i] \in AccessLog /\ g[i].entry = bank.logs[i].entry
      BY <2>8, <3>1, <3>2, Marked DEF Suspicions
    <3>5. CASE i \in noticed
      <4>1. f[i].suspicious = 3 /\ g[i].suspicious = 3
        BY <2>5, <2>7, <2>8, <3>1, <3>2, <3>5, Marked DEF Suspicions
      <4> QED BY <3>1, <3>2, <3>3, <3>4, <4>1, UnusedIsNoLog
               DEF Backed, SUSPICIOUS, SUSPICIOUSANDNOTICED
    <3>6. CASE i \notin noticed
      <4>1. f[i].suspicious \in {1, 2} \/ g[i].suspicious \in {1, 2} =>
              bank.logs[i].suspicious \in {1, 2} \/ bank.internallogs[i].suspicious \in {1, 2}
        BY <2>5, <2>7, <2>8, <3>1, <3>2, <3>6, Marked DEF Suspicions
      <4>2. Backed(bank.logs[i], bank.internallogs[i], made, owed)
        BY Facts
      <4>3. owed'[bank.logs[i].entry] = owed[bank.logs[i].entry]
        BY <2>4, <3>1, <3>6
      <4> QED BY <3>1, <3>2, <3>3, <3>4, <4>1, <4>2, <4>3, UnusedIsNoLog
               DEF Backed, SUSPICIOUS, SUSPICIOUSANDNOTICED
    <3> QED BY <3>1, <3>3, <3>5, <3>6
  <2>12. bank' = [logs |-> f, internallogs |-> g]
    BY <1>2
  <2> HIDE DEF f, g, n
  <2>13. Sound([logs |-> f, internallogs |-> g], made, owed')
    BY <2>1, <2>9, <2>10, <2>11, InPlace DEF n
  <2>14. Sound(bank', made', owed')
    BY <2>2, <2>12, <2>13
  <2> QED BY <2>4, <2>14 DEF Sound
<1>3. CASE isrunning
  <2>1. /\ Sound(bank', made', owed') /\ bank' \in Bank
        /\ owed' \in [Entries -> Int] /\ \A e \in Entries : owed'[e] >= 0
    BY <1>2, <1>3 DEF CheckForSecurityBreaches
  <2>2. TypeOK' /\ NoUndueConsequence'
    BY <1>3, <2>1, Facts DEF CheckForSecurityBreaches, IInv, TypeOK, NoUndueConsequence
  <2> QED BY <2>1, <2>2 DEF IInv
<1> QED BY <1>1, <1>3

\* An investigator puts back nothing but the backup of a used slot.
LEMMA RecoveredIsEither ==
  ASSUME IInv, NEW rating, NEW i \in 1..Len(bank.logs)
  PROVE  LET l == Recovered(bank, i, rating)
         IN /\ l \in Slots
            /\ l # Unused =>
                 /\ i \in UsedSlots(bank.logs)
                 /\ l.entry = bank.logs[i].entry
                 /\ l.suspicious \in {bank.logs[i].suspicious, bank.internallogs[i].suspicious}
<1> DEFINE l == Recovered(bank, i, rating)
<1>1. l = bank.logs[i] \/ (l = bank.internallogs[i] /\ i \in UsedSlots(bank.logs))
  BY DEF Recovered, ValidIndex, UsedSlots
<1>2. /\ bank.logs[i] \in Slots /\ bank.internallogs[i] \in Slots
      /\ i \in UsedSlots(bank.logs) <=> bank.logs[i] # Unused
      /\ i \in UsedSlots(bank.logs) => bank.internallogs[i].entry = bank.logs[i].entry
  BY Facts
<1> QED BY <1>1, <1>2

LEMMA TraceLogKeeps ==
  ASSUME IInv, NEW rating, NEW k, TraceLog(rating, k)
  PROVE  IInv'
<1> DEFINE n == Len(bank.logs)
           f == [i \in 1..n |-> IF i <= k THEN Recovered(bank, i, rating) ELSE bank.logs[i]]
           g == bank.internallogs
<1>1. bank' = [logs |-> f, internallogs |-> g]
  <2>1. bank = [logs |-> bank.logs, internallogs |-> bank.internallogs]
    BY Facts
  <2>2. bank' = [bank EXCEPT !.logs = f]
    BY DEF TraceLog, RecoveredUpTo
  <2> HIDE DEF f
  <2> QED BY <2>1, <2>2
<1>2. f \in [1..n -> Slots] /\ g \in [1..n -> Slots]
  <2>1. \A i \in 1..n : Recovered(bank, i, rating) \in Slots /\ bank.logs[i] \in Slots
    BY Facts, RecoveredIsEither
  <2> QED BY <2>1, Facts
<1>3. ASSUME NEW i \in 1..n, f[i] # Unused
      PROVE  /\ bank.logs[i] # Unused
             /\ f[i].entry = bank.logs[i].entry
             /\ Backed(f[i], g[i], made, owed)
  <2>1. Backed(bank.logs[i], bank.internallogs[i], made, owed)
    BY Facts
  <2>2. CASE i <= k
    <3>1. f[i] = Recovered(bank, i, rating)
      BY <2>2
    <3> HIDE DEF f
    <3>2. /\ i \in UsedSlots(bank.logs) /\ bank.logs[i] # Unused
          /\ f[i].entry = bank.logs[i].entry
          /\ f[i].suspicious \in {bank.logs[i].suspicious, bank.internallogs[i].suspicious}
      BY <1>3, <3>1, RecoveredIsEither DEF UsedSlots
    <3> QED BY <2>1, <3>2 DEF Backed
  <2>3. CASE ~(i <= k)
    BY <1>3, <2>1, <2>3
  <2> QED BY <2>2, <2>3
<1>4. made' = made /\ owed' = owed
  BY DEF TraceLog
<1> HIDE DEF f, g, n
<1>5. Sound(bank', made', owed') /\ bank' \in Bank
  BY <1>1, <1>2, <1>3, <1>4, StepInPlace DEF n
<1>6. TypeOK' /\ NoUndueConsequence'
  BY <1>5 DEF TraceLog, IInv, TypeOK, NoUndueConsequence
<1> QED BY <1>5, <1>6 DEF IInv

LEMMA AgentTracesKeeps ==
  ASSUME IInv, NEW rating, NEW k, AgentTraces(rating, k)
  PROVE  IInv'
<1> DEFINE n == Len(bank.logs)
           h == [i \in 1..n |-> IF i <= k THEN Recovered(bank, i, rating) ELSE bank.logs[i]]
<1>1. PICK suspect : bank' =
        [logs |-> [i \in 1..n |->
                     IF i \in suspect /\ h[i] # Unused THEN Mark(h[i], 0) ELSE h[i]],
         internallogs |-> [i \in 1..n |->
                     IF i \in suspect /\ bank.internallogs[i] # Unused
                     THEN Mark(bank.internallogs[i], 0) ELSE bank.internallogs[i]]]
  <2> DEFINE seen    == RecoveredUpTo(bank, k, rating)
             suspect == {i \in UsedSlots(seen.logs) :
                           i <= k /\ seen.logs[i].suspicious # NOTSUSPICIOUS}
  <2>1. seen.logs = h /\ seen.internallogs = bank.internallogs
    <3>1. bank = [logs |-> bank.logs, internallogs |-> bank.internallogs]
      BY Facts
    <3>2. seen = [bank EXCEPT !.logs = h]
      BY DEF RecoveredUpTo
    <3> HIDE DEF h, seen
    <3> QED BY <3>1, <3>2
  <2>2. Len(h) = n /\ Len(bank.internallogs) = n
    <3>1. h \in [1..n -> Slots]
      <4>1. \A i \in 1..n : Recovered(bank, i, rating) \in Slots /\ bank.logs[i] \in Slots
        BY Facts, RecoveredIsEither
      <4> QED BY <4>1
    <3> HIDE DEF h
    <3> QED BY <3>1, Facts, Built
  <2>3. bank' = [logs |-> [i \in 1..Len(seen.logs) |->
                             IF i \in suspect /\ seen.logs[i] # Unused
                             THEN Mark(seen.logs[i], NOTSUSPICIOUS) ELSE seen.logs[i]],
                 internallogs |-> [i \in 1..Len(seen.internallogs) |->
                             IF i \in suspect /\ seen.internallogs[i] # Unused
                             THEN Mark(seen.internallogs[i], NOTSUSPICIOUS)
                             ELSE seen.internallogs[i]]]
    BY DEF AgentTraces, Mark
  <2> HIDE DEF h, seen, suspect
  <2> QED BY <2>1, <2>2, <2>3 DEF NOTSUSPICIOUS
<1> DEFINE f == [i \in 1..n |->
                   IF i \in suspect /\ h[i] # Unused THEN Mark(h[i], 0) ELSE h[i]]
           g == [i \in 1..n |->
                   IF i \in suspect /\ bank.internallogs[i] # Unused
                   THEN Mark(bank.internallogs[i], 0) ELSE bank.internallogs[i]]
<1>2. ASSUME NEW i \in 1..n
      PROVE  /\ h[i] \in Slots
             /\ h[i] # Unused =>
                  /\ i \in UsedSlots(bank.logs)
                  /\ h[i].entry = bank.logs[i].entry
                  /\ h[i].suspicious \in
                       {bank.logs[i].suspicious, bank.internallogs[i].suspicious}
  <2>1. CASE i <= k
    <3>1. h[i] = Recovered(bank, i, rating)
      BY <2>1
    <3> QED BY <3>1, RecoveredIsEither
  <2>2. CASE ~(i <= k)
    BY <2>2, Facts
  <2> QED BY <2>1, <2>2
<1> HIDE DEF h
<1>3. f \in [1..n -> Slots]
  <2>1. ASSUME NEW i \in 1..n PROVE f[i] \in Slots
    BY <1>2, Marked DEF Slots, Suspicions
  <2> QED BY <2>1
<1>4. ASSUME NEW i \in 1..n
      PROVE  /\ g[i] \in Slots
             /\ bank.internallogs[i] # Unused =>
                  /\ g[i] # Unused
                  /\ g[i].entry = bank.internallogs[i].entry
                  /\ g[i].suspicious \in {0, bank.internallogs[i].suspicious}
  <2>1. bank.internallogs[i] \in AccessLog \/ bank.internallogs[i] = Unused
    BY Facts DEF Slots
  <2> QED BY <2>1, Marked, UnusedIsNoLog DEF Slots, Suspicions
<1>5. g \in [1..n -> Slots]
  BY <1>4
<1>6. ASSUME NEW i \in 1..n, f[i] # Unused
      PROVE  /\ bank.logs[i] # Unused
             /\ f[i].entry = bank.logs[i].entry
             /\ Backed(f[i], g[i], made, owed)
  <2>1. h[i] # Unused
    BY <1>6
  <2>2. /\ i \in UsedSlots(bank.logs) /\ h[i] \in AccessLog
        /\ bank.logs[i] # Unused /\ bank.internallogs[i] # Unused
        /\ Backed(bank.logs[i], bank.internallogs[i], made, owed)
    BY <1>2, <2>1, Facts DEF Slots
  <2>3. /\ f[i].entry = bank.logs[i].entry
        /\ f[i].suspicious \in {0, bank.logs[i].suspicious, bank.internallogs[i].suspicious}
    BY <1>2, <2>1, <2>2, Marked DEF Suspicions
  <2>4. /\ g[i] # Unused /\ g[i].entry = bank.internallogs[i].entry
        /\ g[i].suspicious \in {0, bank.internallogs[i].suspicious}
    BY <1>4, <2>2
  <2> HIDE DEF f, g
  <2> QED BY <2>2, <2>3, <2>4 DEF Backed, SUSPICIOUS, SUSPICIOUSANDNOTICED
<1>7. bank' = [logs |-> f, internallogs |-> g]
  BY <1>1
<1>8. made' = made /\ owed' = owed
  BY DEF AgentTraces
<1> HIDE DEF f, g, n
<1>9. Sound(bank', made', owed') /\ bank' \in Bank
  BY <1>3, <1>5, <1>6, <1>7, <1>8, StepInPlace DEF n
<1>10. TypeOK' /\ NoUndueConsequence'
  BY <1>9 DEF AgentTraces, IInv, TypeOK, NoUndueConsequence
<1> QED BY <1>9, <1>10 DEF IInv

LEMMA RevelationKeeps == IInv /\ InfectWithRevelation => IInv'
<1> SUFFICES ASSUME IInv, InfectWithRevelation PROVE IInv'
  OBVIOUS
<1>1. <<>> \in Seq(Slots) /\ Len(<<>>) = 0
  BY EmptySeq
<1>2. Sound(bank', made', owed')
  BY <1>1, Facts DEF InfectWithRevelation, Sound, Bank, Slots, EmptyBank, EntriesDistinct,
    UsedSlots
<1>3. TypeOK' /\ NoUndueConsequence'
  BY <1>2 DEF InfectWithRevelation, Sound, IInv, TypeOK, NoUndueConsequence
<1> QED BY <1>2, <1>3 DEF IInv

LEMMA DeleteAllKeeps == IInv /\ DeleteAll => IInv'
<1> SUFFICES ASSUME IInv, DeleteAll PROVE IInv'
  OBVIOUS
<1> DEFINE n == Len(bank.logs)
           new(i) == [entry |-> bank.logs[i].entry, date |-> made, type |-> DELETED,
                      fromip |-> Elsewhere, suspicious |-> NOTSUSPICIOUS]
           f == [i \in 1..n |-> IF bank.logs[i] = Unused THEN Unused ELSE new(i)]
           g == bank.internallogs
<1>1. ASSUME NEW i \in 1..n, bank.logs[i] # Unused
      PROVE  new(i) \in AccessLog
  <2>1. bank.logs[i].entry \in Nat /\ made \in Dates
    BY <1>1, Facts
  <2> QED BY <2>1 DEF AccessLog, LogTypes, FromIps, Suspicions, NOTSUSPICIOUS
<1>2. f \in [1..n -> Slots] /\ g \in [1..n -> Slots]
  <2>1. \A i \in 1..n : f[i] \in Slots
    BY <1>1 DEF Slots
  <2> QED BY <2>1, Facts
<1>3. ASSUME NEW i \in 1..n, f[i] # Unused
      PROVE  /\ bank.logs[i] # Unused
             /\ f[i].entry = bank.logs[i].entry
             /\ Backed(f[i], g[i], made, owed)
  <2>1. bank.logs[i] # Unused /\ f[i] = new(i)
    BY <1>3
  <2>2. Backed(bank.logs[i], bank.internallogs[i], made, owed)
    BY Facts
  <2>3. f[i].entry = bank.logs[i].entry /\ f[i].suspicious = 0
    BY <2>1 DEF NOTSUSPICIOUS
  <2> HIDE DEF f
  <2> QED BY <2>1, <2>2, <2>3 DEF Backed, SUSPICIOUS, SUSPICIOUSANDNOTICED
<1>4. bank' = [logs |-> f, internallogs |-> g]
  <2>1. bank = [logs |-> bank.logs, internallogs |-> bank.internallogs]
    BY Facts
  <2>2. bank' = [bank EXCEPT !.logs = f]
    BY DEF DeleteAll
  <2> HIDE DEF f
  <2> QED BY <2>1, <2>2
<1>5. made' = made /\ owed' = owed
  BY DEF DeleteAll
<1> HIDE DEF f, g, n
<1>6. Sound(bank', made', owed') /\ bank' \in Bank
  BY <1>2, <1>3, <1>4, <1>5, StepInPlace DEF n
<1>7. targets' \in 0..MaxTargets
  BY ConstantsAssumption DEF DeleteAll, IInv, TypeOK
<1>8. TypeOK' /\ NoUndueConsequence'
  BY <1>6, <1>7 DEF DeleteAll, IInv, TypeOK, NoUndueConsequence
<1> QED BY <1>6, <1>8 DEF IInv

\* Where LogModified tells nothing, the log is as good as its backup.
LEMMA SaveAndLoadKeeps == IInv /\ SaveAndLoadGame => IInv'
<1> SUFFICES ASSUME IInv, SaveAndLoadGame PROVE IInv'
  OBVIOUS
<1> DEFINE n == Len(bank.logs)
           f == bank.logs
           g == [i \in 1..n |-> IF LogModified(bank, i) THEN bank.internallogs[i]
                                ELSE bank.logs[i]]
<1>1. f \in [1..n -> Slots] /\ g \in [1..n -> Slots]
  <2>1. \A i \in 1..n : bank.logs[i] \in Slots /\ bank.internallogs[i] \in Slots
    BY Facts
  <2> QED BY <2>1, Facts
<1>2. ASSUME NEW i \in 1..n, f[i] # Unused
      PROVE  /\ bank.logs[i] # Unused
             /\ f[i].entry = bank.logs[i].entry
             /\ Backed(f[i], g[i], made, owed)
  <2>1. Backed(bank.logs[i], bank.internallogs[i], made, owed)
    BY Facts
  <2>2. g[i] \in {bank.logs[i], bank.internallogs[i]}
    OBVIOUS
  <2> HIDE DEF g
  <2> QED BY <1>2, <2>1, <2>2 DEF Backed
<1>3. bank' = [logs |-> f, internallogs |-> g]
  <2>1. bank = [logs |-> bank.logs, internallogs |-> bank.internallogs]
    BY Facts
  <2>2. bank' = [bank EXCEPT !.internallogs = g]
    BY DEF SaveAndLoadGame, SaveAndLoad
  <2> HIDE DEF g
  <2> QED BY <2>1, <2>2
<1>4. made' = made /\ owed' = owed /\ task' = [t \in Tasks |-> NoTask]
  BY DEF SaveAndLoadGame
<1> HIDE DEF f, g, n
<1>5. Sound(bank', made', owed') /\ bank' \in Bank
  BY <1>1, <1>2, <1>3, <1>4, StepInPlace DEF n
<1>6. TypeOK' /\ NoUndueConsequence'
  BY <1>4, <1>5 DEF SaveAndLoadGame, IInv, TypeOK, NoUndueConsequence
<1> QED BY <1>5, <1>6 DEF IInv

LEMMA TimePassesKeeps == IInv /\ TimePasses => IInv'
<1> SUFFICES ASSUME IInv, TimePasses PROVE IInv'
  OBVIOUS
<1>1. bank' = bank /\ made' = made /\ owed' = owed /\ aged' \in 0..made
  BY Facts DEF TimePasses, IInv, TypeOK
<1>2. Sound(bank', made', owed')
  BY <1>1, Facts
<1>3. TypeOK' /\ NoUndueConsequence'
  BY <1>1 DEF TimePasses, IInv, TypeOK, NoUndueConsequence
<1> QED BY <1>2, <1>3 DEF IInv

\* Packing keeps the logs with their backups.
LEMMA ManageKeeps == IInv /\ ManageOldLogs => IInv'
<1> SUFFICES ASSUME IInv, ManageOldLogs PROVE IInv'
  OBVIOUS
<1> DEFINE Without(a, expired) ==
             [i \in 1..Len(a) |-> IF i \in expired THEN Unused ELSE a[i]]
<1>1. PICK expired \in SUBSET UsedSlots(bank.logs) :
        \E from \in Packings(Without(bank.logs, expired)) :
          bank' = [logs |-> [i \in DOMAIN from |-> Without(bank.logs, expired)[from[i]]],
                   internallogs |-> [i \in DOMAIN from |->
                     IF ValidIndex(Without(bank.internallogs, expired), from[i])
                     THEN Without(bank.internallogs, expired)[from[i]]
                     ELSE IF \/ ValidIndex(Without(bank.logs, expired), i)
                             \/ i > Len(Without(bank.internallogs, expired))
                          THEN Unused
                          ELSE Without(bank.internallogs, expired)[i]]]
  BY DEF ManageOldLogs
<1> DEFINE n == Len(bank.logs)
           logs == Without(bank.logs, expired)
           backups == Without(bank.internallogs, expired)
<1>2. /\ n \in Nat /\ n <= made /\ made \in Nat
      /\ bank.logs \in [1..n -> Slots] /\ bank.internallogs \in [1..n -> Slots]
      /\ Len(bank.internallogs) = n
      /\ UsedSlots(bank.logs) = {i \in 1..n : bank.logs[i] # Unused}
  BY Facts
<1>3. /\ logs \in [1..n -> Slots] /\ Len(logs) = n
      /\ backups \in [1..n -> Slots] /\ Len(backups) = n
  <2>1. logs \in [1..n -> Slots] /\ backups \in [1..n -> Slots]
    <3>1. \A i \in 1..n : bank.logs[i] \in Slots /\ bank.internallogs[i] \in Slots
      BY <1>2
    <3> QED BY <1>2, <3>1 DEF Slots
  <2> HIDE DEF logs, backups
  <2> QED BY <1>2, <2>1, Built
<1>4. /\ UsedSlots(logs) = UsedSlots(bank.logs) \ expired
      /\ \A i \in UsedSlots(logs) :
           /\ i \in UsedSlots(bank.logs)
           /\ logs[i] = bank.logs[i] /\ backups[i] = bank.internallogs[i]
           /\ ValidIndex(backups, i)
  <2>1. \A i \in 1..n : /\ logs[i] = IF i \in expired THEN Unused ELSE bank.logs[i]
                        /\ backups[i] = IF i \in expired THEN Unused ELSE bank.internallogs[i]
    BY <1>2
  <2>2. \A i \in UsedSlots(bank.logs) : i \in 1..n /\ bank.internallogs[i] # Unused
    BY Facts
  <2> HIDE DEF logs, backups, n
  <2> QED BY <1>2, <1>3, <2>1, <2>2 DEF UsedSlots, ValidIndex
<1>5. PICK from \in Packings(logs) :
        bank' = [logs |-> [i \in DOMAIN from |-> logs[from[i]]],
                 internallogs |-> [i \in DOMAIN from |->
                   IF ValidIndex(backups, from[i]) THEN backups[from[i]]
                   ELSE IF ValidIndex(logs, i) \/ i > Len(backups) THEN Unused
                        ELSE backups[i]]]
  BY <1>1
<1> DEFINE c == Cardinality(UsedSlots(logs))
           f == [i \in 1..c |-> logs[from[i]]]
           g == [i \in 1..c |-> backups[from[i]]]
<1>6. c \in Nat /\ c <= n
  <2>1. UsedSlots(logs) \subseteq 1..n
    BY <1>2, <1>4
  <2>2. IsFiniteSet(1..n) /\ Cardinality(1..n) = n
    BY <1>2, FS_Interval
  <2> HIDE DEF logs, n
  <2> QED BY <1>2, <2>1, <2>2, FS_Subset, FS_CardinalityType
<1>7. /\ from \in [1..c -> UsedSlots(logs)]
      /\ \A i, j \in 1..c : i < j => from[i] < from[j]
  <2> HIDE DEF logs
  <2> QED BY DEF Packings
<1> HIDE DEF logs, backups, c
<1>8. bank' = [logs |-> f, internallogs |-> g]
  <2>1. \A i \in 1..c : ValidIndex(backups, from[i])
    BY <1>4, <1>7
  <2>2. DOMAIN from = 1..c
    BY <1>7
  <2> QED BY <1>5, <2>1, <2>2
<1>9. \A i \in 1..c : /\ from[i] \in UsedSlots(bank.logs)
                      /\ f[i] = bank.logs[from[i]] /\ g[i] = bank.internallogs[from[i]]
  BY <1>4, <1>7
<1> HIDE DEF f, g
<1>10. f \in [1..c -> Slots] /\ g \in [1..c -> Slots]
  <2>1. \A i \in 1..c : f[i] \in Slots /\ g[i] \in Slots
    BY <1>9, Facts DEF Slots
  <2> QED BY <2>1 DEF f, g
<1>11. \A i \in 1..c : Backed(f[i], g[i], made, owed)
  <2>1. \A i \in UsedSlots(bank.logs) :
          Backed(bank.logs[i], bank.internallogs[i], made, owed)
    BY Facts
  <2> QED BY <1>9, <2>1
<1>12. \A i, j \in 1..c :
         f[i] # Unused /\ f[j] # Unused /\ f[i].entry = f[j].entry => i = j
  <2> SUFFICES ASSUME NEW i \in 1..c, NEW j \in 1..c, f[i].entry = f[j].entry
               PROVE  i = j
    OBVIOUS
  <2>1. from[i] = from[j]
    BY <1>9, Facts
  <2>2. from[i] \in Nat /\ from[j] \in Nat
    BY <1>2, <1>9
  <2> QED BY <1>6, <1>7, <2>1, <2>2
<1>13. made' = made /\ owed' = owed
  BY DEF ManageOldLogs
<1>14. Sound([logs |-> f, internallogs |-> g], made, owed)
  <2>1. c <= made
    BY <1>2, <1>6
  <2> QED BY <1>2, <1>6, <1>10, <1>11, <1>12, <2>1, Assembled
<1>15. Sound(bank', made', owed') /\ bank' \in Bank
  BY <1>8, <1>13, <1>14 DEF Sound
<1>16. TypeOK' /\ NoUndueConsequence'
  BY <1>15 DEF ManageOldLogs, IInv, TypeOK, NoUndueConsequence
<1> QED BY <1>15, <1>16 DEF IInv

-----------------------------------------------------------------------------
(* Programs.                                                               *)

LEMMA Tasked ==
  ASSUME IInv, NEW t \in Tasks
  PROVE  /\ Removed(t) => task' \in [Tasks -> Task \cup {NoTask}]
         /\ task[t] # NoTask => /\ task[t] \in Task
                                /\ task[t].index \in 1..MaxEntries
         /\ \A s \in {"OFF", "INPROGRESS", "REPLACING"} :
              task[t] # NoTask /\ Becomes(t, s) => task' \in [Tasks -> Task \cup {NoTask}]
         /\ \A i \in Entries :
              task[t] # NoTask /\ task' = [task EXCEPT ![t].index = i] =>
                task' \in [Tasks -> Task \cup {NoTask}]
<1>1. task \in [Tasks -> Task \cup {NoTask}]
  BY DEF IInv, TypeOK
<1>2. Removed(t) => task' \in [Tasks -> Task \cup {NoTask}]
  BY <1>1 DEF Removed
<1>3. task[t] # NoTask => task[t] \in Task /\ task[t].index \in 1..MaxEntries
  BY <1>1 DEF Task, Entries
<1>4. ASSUME NEW s \in {"OFF", "INPROGRESS", "REPLACING"}, task[t] # NoTask, Becomes(t, s)
      PROVE  task' \in [Tasks -> Task \cup {NoTask}]
  <2>1. [task[t] EXCEPT !.status = s] \in Task
    BY <1>3, <1>4 DEF Task
  <2>2. task' = [task EXCEPT ![t] = [task[t] EXCEPT !.status = s]]
    BY <1>1, <1>4 DEF Becomes
  <2> QED BY <1>1, <2>1, <2>2
<1>5. ASSUME NEW i \in Entries, task[t] # NoTask, task' = [task EXCEPT ![t].index = i]
      PROVE  task' \in [Tasks -> Task \cup {NoTask}]
  <2>1. [task[t] EXCEPT !.index = i] \in Task
    BY <1>3, <1>5 DEF Task
  <2>2. task' = [task EXCEPT ![t] = [task[t] EXCEPT !.index = i]]
    BY <1>1, <1>5
  <2> QED BY <1>1, <2>1, <2>2
<1> QED BY <1>2, <1>3, <1>4, <1>5

\* A program changes the bank and the programs only.
LEMMA ProgramStep ==
  ASSUME IInv, UNCHANGED worldVars, Sound(bank', made', owed'),
         task' \in [Tasks -> Task \cup {NoTask}], wild' \in BOOLEAN
  PROVE  IInv'
BY DEF worldVars, Sound, IInv, TypeOK, NoUndueConsequence

\* One slot is written.
LEMMA StepSlot ==
  ASSUME IInv, NEW i \in UsedSlots(bank.logs), NEW log \in Slots, NEW backup \in Slots,
         bank' = [logs         |-> [bank.logs EXCEPT ![i] = log],
                  internallogs |-> [bank.internallogs EXCEPT ![i] = backup]],
         log # Unused => /\ log.entry = bank.logs[i].entry
                         /\ Backed(log, backup, made, owed),
         made' = made, owed' = owed
  PROVE  Sound(bank', made', owed')
<1> DEFINE n == Len(bank.logs)
           f == [bank.logs EXCEPT ![i] = log]
           g == [bank.internallogs EXCEPT ![i] = backup]
<1>1. /\ bank.logs \in [1..n -> Slots] /\ bank.internallogs \in [1..n -> Slots]
      /\ i \in 1..n /\ bank.logs[i] # Unused
  BY Facts
<1>2. /\ f \in [1..n -> Slots] /\ f[i] = log
      /\ \A j \in 1..n : j # i => f[j] = bank.logs[j]
  BY <1>1
<1>3. /\ g \in [1..n -> Slots] /\ g[i] = backup
      /\ \A j \in 1..n : j # i => g[j] = bank.internallogs[j]
  BY <1>1
<1>4. bank' = [logs |-> f, internallogs |-> g]
  OBVIOUS
<1> HIDE DEF f, g
<1>5. ASSUME NEW j \in 1..n, f[j] # Unused
      PROVE  /\ bank.logs[j] # Unused
             /\ f[j].entry = bank.logs[j].entry
             /\ Backed(f[j], g[j], made, owed)
  <2>1. Backed(bank.logs[j], bank.internallogs[j], made, owed)
    BY Facts
  <2> QED BY <1>1, <1>2, <1>3, <1>5, <2>1
<1> HIDE DEF n
<1> QED BY <1>2, <1>3, <1>4, <1>5, StepInPlace DEF n

\* A log is replaced: by a marker, a copy of another, a forgery.
LEMMA ReplacedSound ==
  ASSUME IInv, NEW i \in UsedSlots(bank.logs), NEW log, log.type \in LogTypes,
         log.fromip \in FromIps, Replaced(i, log), made' = made, owed' = owed
  PROVE  Sound(bank', made', owed')
<1> DEFINE new == [entry |-> bank.logs[i].entry, date |-> bank.logs[i].date,
                   type |-> log.type, fromip |-> log.fromip,
                   suspicious |-> NOTSUSPICIOUS]
<1>1. /\ i \in 1..Len(bank.logs) /\ bank.logs[i] # Unused /\ bank.logs[i] \in AccessLog
      /\ bank.internallogs \in [1..Len(bank.logs) -> Slots]
      /\ bank = [logs |-> bank.logs, internallogs |-> bank.internallogs]
      /\ Backed(bank.logs[i], bank.internallogs[i], made, owed)
  BY Facts
<1>2. new \in AccessLog /\ new.entry = bank.logs[i].entry /\ new.suspicious = 0
  BY <1>1 DEF AccessLog, Suspicions, NOTSUSPICIOUS
<1>3. bank' = [bank EXCEPT !.logs = [bank.logs EXCEPT ![i] = new]]
  BY DEF Replaced, PutData
<1>4. bank.internallogs = [bank.internallogs EXCEPT ![i] = bank.internallogs[i]]
  BY <1>1
<1> HIDE DEF new
<1>5. bank' = [logs         |-> [bank.logs EXCEPT ![i] = new],
               internallogs |-> [bank.internallogs EXCEPT ![i] = bank.internallogs[i]]]
  BY <1>1, <1>3, <1>4
<1>6. Backed(new, bank.internallogs[i], made, owed)
  BY <1>1, <1>2 DEF Backed, SUSPICIOUS, SUSPICIOUSANDNOTICED
<1>7. new \in Slots /\ bank.internallogs[i] \in Slots
  BY <1>1, <1>2 DEF Slots
<1> QED BY <1>2, <1>5, <1>6, <1>7, StepSlot

LEMMA SetTargetKeeps ==
  ASSUME IInv, NEW t \in Tasks, NEW tool \in Tools, NEW i \in 1..Len(bank.logs),
         SetTarget(t, tool, i)
  PROVE  IInv'
<1>1. i \in Entries
  BY Facts DEF Entries
<1>2. [tool |-> tool, status |-> "OFF", index |-> i] \in Task
  BY <1>1 DEF Task
<1>3. task' \in [Tasks -> Task \cup {NoTask}]
  BY <1>2 DEF SetTarget, IInv, TypeOK
<1>4. targets' \in 0..MaxTargets
  BY ConstantsAssumption DEF SetTarget, IInv, TypeOK
<1>5. Sound(bank', made', owed')
  BY Facts DEF SetTarget
<1>6. TypeOK' /\ NoUndueConsequence'
  BY <1>3, <1>4 DEF SetTarget, IInv, TypeOK, NoUndueConsequence
<1> QED BY <1>5, <1>6 DEF IInv

\* Nothing but the programs changes.
LEMMA TaskOnlyKeeps ==
  ASSUME IInv, NEW t \in Tasks,
         Start(t) \/ CommitClick(t) \/ GiveUp(t) \/ CloseTask(t) \/ UnDeleteGone(t)
  PROVE  IInv'
<1>1. Sound(bank, made, owed) /\ wild \in BOOLEAN
  BY Facts DEF IInv, TypeOK
<1>2. UNCHANGED worldVars /\ bank' = bank /\ wild' \in BOOLEAN
  BY <1>1 DEF Start, CommitClick, GiveUp, CloseTask, UnDeleteGone
<1>3. task' \in [Tasks -> Task \cup {NoTask}]
  BY Tasked DEF Start, CommitClick, At, GiveUp, CloseTask, UnDeleteGone
<1>4. Sound(bank', made', owed')
  BY <1>1, <1>2 DEF worldVars
<1> QED BY <1>2, <1>3, <1>4, ProgramStep

\* A program at the end of its work on one log.
LEMMA LogKeeps ==
  ASSUME IInv, NEW t \in Tasks,
         \/ Delete(t) \/ Overwrite(t) \/ Remove(t) \/ UnDelete(t)
         \/ \E forgery \in Forgeries : Modify(t, forgery[1], forgery[2])
  PROVE  IInv'
<1> DEFINE i == task[t].index
<1>1. /\ UNCHANGED worldVars /\ wild' = wild /\ wild \in BOOLEAN
      /\ made' = made /\ owed' = owed
      /\ i \in UsedSlots(bank.logs) /\ task[t] # NoTask
  BY DEF Delete, Overwrite, Remove, UnDelete, Modify, Completes, At, ValidIndex, UsedSlots,
    worldVars, IInv, TypeOK
<1>2. task' \in [Tasks -> Task \cup {NoTask}]
  BY <1>1, Tasked DEF Delete, Overwrite, Remove, UnDelete, Modify
<1>3. /\ i \in 1..Len(bank.logs) /\ bank.logs[i] # Unused
      /\ bank.logs[i] \in AccessLog /\ bank.internallogs[i] \in AccessLog
      /\ bank.internallogs[i] # Unused
      /\ bank.logs \in [1..Len(bank.logs) -> Slots]
      /\ bank.internallogs \in [1..Len(bank.logs) -> Slots]
      /\ bank.internallogs[i].entry = bank.logs[i].entry
      /\ bank = [logs |-> bank.logs, internallogs |-> bank.internallogs]
      /\ Backed(bank.logs[i], bank.internallogs[i], made, owed)
  BY <1>1, Facts
<1>4. Sound(bank', made', owed')
  <2>1. CASE Delete(t)
    <3>1. Replaced(i, [type |-> DELETED, fromip |-> Elsewhere])
      BY <2>1 DEF Delete
    <3> QED BY <1>1, <3>1, ReplacedSound DEF LogTypes, FromIps
  <2>2. CASE Overwrite(t)
    <3>1. \/ \E j \in UsedSlots(bank.logs) : Replaced(i, bank.logs[j])
          \/ Replaced(i, [type |-> TEXT, fromip |-> Elsewhere])
      BY <2>2 DEF Overwrite
    <3>2. \A j \in UsedSlots(bank.logs) :
            bank.logs[j].type \in LogTypes /\ bank.logs[j].fromip \in FromIps
      BY Facts DEF AccessLog
    <3>3. TEXT \in LogTypes /\ Elsewhere \in FromIps
      BY DEF LogTypes, FromIps
    <3> HIDE DEF i
    <3> QED BY <1>1, <3>1, <3>2, <3>3, ReplacedSound
  <2>3. CASE Remove(t)
    <3>1. bank' = [bank EXCEPT !.logs = [bank.logs EXCEPT ![i] = Unused]]
      BY <2>3 DEF Remove, RemoveData
    <3> HIDE DEF i
    <3>2. bank.internallogs = [bank.internallogs EXCEPT ![i] = bank.internallogs[i]]
      BY <1>3
    <3>3. bank' = [logs         |-> [bank.logs EXCEPT ![i] = Unused],
                   internallogs |-> [bank.internallogs EXCEPT ![i] = bank.internallogs[i]]]
      BY <1>3, <3>1, <3>2
    <3>4. Unused \in Slots /\ bank.internallogs[i] \in Slots
      BY <1>3 DEF Slots
    <3> QED BY <1>1, <3>3, <3>4, StepSlot
  <2>4. CASE UnDelete(t)
    <3>1. bank' = [bank EXCEPT !.logs = [bank.logs EXCEPT ![i] = bank.internallogs[i]]]
      BY <2>4 DEF UnDelete, PutData
    <3> HIDE DEF i
    <3>2. bank.internallogs = [bank.internallogs EXCEPT ![i] = bank.internallogs[i]]
      BY <1>3
    <3>3. bank' = [logs         |-> [bank.logs EXCEPT ![i] = bank.internallogs[i]],
                   internallogs |-> [bank.internallogs EXCEPT ![i] = bank.internallogs[i]]]
      BY <1>3, <3>1, <3>2
    <3>4. /\ bank.internallogs[i] \in Slots
          /\ Backed(bank.internallogs[i], bank.internallogs[i], made, owed)
      BY <1>3 DEF Slots, Backed
    <3> QED BY <1>1, <1>3, <3>3, <3>4, StepSlot
  <2>5. ASSUME NEW forgery \in Forgeries, Modify(t, forgery[1], forgery[2])
        PROVE  Sound(bank', made', owed')
    <3> DEFINE log == [bank.logs[i] EXCEPT !.type = forgery[1], !.fromip = forgery[2]]
    <3>1. forgery[1] \in LogTypes /\ forgery[2] \in FromIps
      BY ConstantsAssumption
    <3>2. /\ log \in AccessLog /\ log.entry = bank.logs[i].entry
          /\ log.suspicious = bank.logs[i].suspicious
      BY <1>3, <3>1 DEF AccessLog
    <3>3. bank' = [logs         |-> [bank.logs EXCEPT ![i] = log],
                   internallogs |-> [bank.internallogs EXCEPT ![i] = log]]
      BY <2>5 DEF Modify, PutData
    <3> HIDE DEF log, i
    <3>4. log \in Slots /\ Backed(log, log, made, owed)
      BY <1>3, <3>2, UnusedIsNoLog DEF Slots, Backed
    <3> QED BY <1>1, <3>2, <3>3, <3>4, StepSlot
  <2> QED BY <2>1, <2>2, <2>3, <2>4, <2>5
<1> QED BY <1>1, <1>2, <1>4, ProgramStep

LEMMA ShiftKeeps ==
  ASSUME IInv, NEW t \in Tasks, Shift(t)
  PROVE  IInv'
<1> DEFINE n == Len(bank.logs)
           i == task[t].index
<1>1. /\ n \in Nat /\ n <= made /\ made \in Nat /\ made <= MaxEntries /\ MaxEntries \in Nat
      /\ bank.logs \in [1..n -> Slots] /\ bank.internallogs \in [1..n -> Slots]
      /\ UsedSlots(bank.logs) = {j \in 1..n : bank.logs[j] # Unused}
      /\ Sound(bank, made, owed)
  BY Facts
<1>2. /\ UNCHANGED worldVars /\ wild' = wild /\ wild \in BOOLEAN
      /\ made' = made /\ owed' = owed
      /\ task[t] # NoTask /\ i < n /\ task' = [task EXCEPT ![t].index = i + 1]
  BY DEF Shift, At, worldVars, IInv, TypeOK
<1>3. i \in 1..MaxEntries /\ i \in 1..n /\ i + 1 \in 1..n /\ i + 1 \in Entries
  <2>1. i \in 1..MaxEntries
    BY <1>2, Tasked
  <2> HIDE DEF i, n
  <2> QED BY <1>1, <1>2, <2>1 DEF Entries
<1>4. task' \in [Tasks -> Task \cup {NoTask}]
  BY <1>2, <1>3, Tasked
<1>5. CASE ~ValidIndex(bank.logs, i + 1)
  <2>1. bank' = bank
    BY <1>5 DEF Shift
  <2> QED BY <1>1, <1>2, <1>4, <2>1, ProgramStep
<1>6. CASE ValidIndex(bank.logs, i + 1)
  <2> DEFINE f == [[bank.logs EXCEPT ![i] = bank.logs[i + 1]] EXCEPT ![i + 1] = Unused]
             g == [[bank.internallogs EXCEPT ![i] = bank.internallogs[i + 1]]
                     EXCEPT ![i + 1] = Unused]
  <2>1. i + 1 \in UsedSlots(bank.logs) /\ ValidIndex(bank.internallogs, i + 1)
    BY <1>6, Facts DEF ValidIndex, UsedSlots
  <2>2. bank' = [logs |-> f, internallogs |-> g]
    BY <1>6, <2>1 DEF Shift, PutData, RemoveData
  <2>3. /\ f \in [1..n -> Slots] /\ f[i] = bank.logs[i + 1] /\ f[i + 1] = Unused
        /\ \A j \in 1..n : j # i /\ j # i + 1 => f[j] = bank.logs[j]
    <3> HIDE DEF i, n
    <3> QED BY <1>1, <1>3 DEF Slots
  <2>4. /\ g \in [1..n -> Slots] /\ g[i] = bank.internallogs[i + 1] /\ g[i + 1] = Unused
        /\ \A j \in 1..n : j # i /\ j # i + 1 => g[j] = bank.internallogs[j]
    <3> HIDE DEF i, n
    <3> QED BY <1>1, <1>3 DEF Slots
  <2>5. \A j \in 1..n : Backed(bank.logs[j], bank.internallogs[j], made, owed)
    BY Facts
  <2>6. \A j, k \in 1..n : bank.logs[j] # Unused /\ bank.logs[k] # Unused
                             /\ bank.logs[j].entry = bank.logs[k].entry => j = k
    BY Facts
  <2> HIDE DEF f, g, i, n
  <2>7. \A j \in 1..n : Backed(f[j], g[j], made, owed)
    <3> SUFFICES ASSUME NEW j \in 1..n PROVE Backed(f[j], g[j], made, owed)
      OBVIOUS
    <3>1. CASE j = i
      BY <1>3, <2>3, <2>4, <2>5, <3>1
    <3>2. CASE j = i + 1
      BY <1>3, <2>3, <3>2 DEF Backed
    <3>3. CASE j # i /\ j # i + 1
      BY <2>3, <2>4, <2>5, <3>3
    <3> QED BY <3>1, <3>2, <3>3
  <2>8. \A j, k \in 1..n :
          f[j] # Unused /\ f[k] # Unused /\ f[j].entry = f[k].entry => j = k
    <3> DEFINE origin(j) == IF j = i THEN i + 1 ELSE j
    <3>1. \A j \in 1..n : f[j] # Unused => origin(j) \in 1..n /\ f[j] = bank.logs[origin(j)]
      BY <1>3, <2>3
    <3>2. \A j, k \in 1..n : f[j] # Unused /\ f[k] # Unused /\ origin(j) = origin(k) => j = k
      BY <1>3, <2>3
    <3> HIDE DEF origin
    <3> QED BY <2>6, <3>1, <3>2
  <2>9. Sound([logs |-> f, internallogs |-> g], made, owed)
    BY <1>1, <2>3, <2>4, <2>7, <2>8, Assembled
  <2>10. Sound(bank', made', owed')
    BY <1>2, <2>2, <2>9
  <2> QED BY <1>2, <1>4, <2>10, ProgramStep
<1> QED BY <1>5, <1>6

LEMMA EndShiftKeeps ==
  ASSUME IInv, NEW t \in Tasks, EndShift(t)
  PROVE  IInv'
<1> DEFINE n == Len(bank.logs)
           c == IF n - 1 <= 0 THEN 0 ELSE n - 1
           f == [i \in 1..c |-> IF i <= n THEN bank.logs[i] ELSE Unused]
           g == [i \in 1..c |-> IF i <= n THEN bank.internallogs[i] ELSE Unused]
<1>1. /\ n \in Nat /\ n <= made /\ made \in Nat
      /\ bank.logs \in [1..n -> Slots] /\ bank.internallogs \in [1..n -> Slots]
      /\ Len(bank.internallogs) = n
      /\ \A j \in 1..n : Backed(bank.logs[j], bank.internallogs[j], made, owed)
      /\ \A j, k \in 1..n : bank.logs[j] # Unused /\ bank.logs[k] # Unused
                              /\ bank.logs[j].entry = bank.logs[k].entry => j = k
  BY Facts
<1>2. /\ UNCHANGED worldVars /\ wild' = wild /\ wild \in BOOLEAN
      /\ made' = made /\ owed' = owed
  BY DEF EndShift, worldVars, IInv, TypeOK
<1>3. task' \in [Tasks -> Task \cup {NoTask}]
  BY Tasked DEF EndShift
<1>4. bank' = [logs |-> f, internallogs |-> g]
  BY <1>1 DEF EndShift, SetSize
<1> HIDE DEF n
<1>5. c \in Nat /\ c <= n /\ c <= made /\ 1..c \subseteq 1..n
  BY <1>1
<1> HIDE DEF c
<1>6. \A i \in 1..c : i \in 1..n /\ f[i] = bank.logs[i] /\ g[i] = bank.internallogs[i]
  BY <1>1, <1>5
<1>7. f \in [1..c -> Slots] /\ g \in [1..c -> Slots]
  <2>1. \A i \in 1..c : f[i] \in Slots /\ g[i] \in Slots
    <3> HIDE DEF f, g
    <3> QED BY <1>1, <1>6
  <2> QED BY <2>1
<1> HIDE DEF f, g
<1>8. /\ \A i \in 1..c : Backed(f[i], g[i], made, owed)
      /\ \A i, j \in 1..c :
           f[i] # Unused /\ f[j] # Unused /\ f[i].entry = f[j].entry => i = j
  BY <1>1, <1>6
<1>9. Sound([logs |-> f, internallogs |-> g], made, owed)
  BY <1>1, <1>5, <1>7, <1>8, Assembled
<1>10. Sound(bank', made', owed')
  BY <1>2, <1>4, <1>9
<1> QED BY <1>2, <1>3, <1>10, ProgramStep

-----------------------------------------------------------------------------
(* The theorems.                                                           *)

LEMMA NextKeeps == IInv /\ [Next]_vars => IInv'
<1> SUFFICES ASSUME IInv, [Next]_vars PROVE IInv'
  OBVIOUS
<1>1. CASE Player
  <2>1. ASSUME NEW from \in Routes, Connect(from) PROVE IInv'
    BY <2>1, ConnectKeeps
  <2> QED BY <1>1, <2>1, DisconnectKeeps, RevelationKeeps, DeleteAllKeeps, SaveAndLoadKeeps
          DEF Player
<1>2. CASE World
  <2>1. ASSUME NEW rating \in Ratings, NEW k \in 1..Len(bank.logs),
               TraceLog(rating, k) \/ AgentTraces(rating, k)
        PROVE  IInv'
    BY <2>1, TraceLogKeeps, AgentTracesKeeps
  <2> QED BY <1>2, <2>1, OtherAccessKeeps, TimePassesKeeps, CheckKeeps, ManageKeeps DEF World
<1>3. ASSUME NEW t \in Tasks, Tick(t) PROVE IInv'
  BY <1>3, TaskOnlyKeeps, LogKeeps, ShiftKeeps, EndShiftKeeps DEF Tick
<1>4. ASSUME NEW t \in Tasks, Use(t) PROVE IInv'
  BY <1>4, TaskOnlyKeeps, SetTargetKeeps DEF Use
<1>5. CASE UNCHANGED vars
  BY <1>5 DEF vars, IInv, TypeOK, NoUndueConsequence
<1> QED BY <1>1, <1>2, <1>3, <1>4, <1>5 DEF Next

THEOREM Invariance == Spec => []IInv
<1> QED BY InitEstablishes, NextKeeps, PTL DEF Spec

\* Every variable keeps its type; in particular no program's index leaves the
\* logs that were ever made, and no bank grows past their number.
THEOREM TypesKept == Spec => []TypeOK
<1>1. IInv => TypeOK
  BY DEF IInv
<1> QED BY Invariance, <1>1, PTL

\* Every log has the backup of its own entry in its own slot, however many
\* programs shift, delete and forge logs while the bank is packed under them.
THEOREM BackupsStayWithLogs == Spec => []BackupKept
<1>1. IInv => BackupKept
  <2> SUFFICES ASSUME IInv PROVE BackupKept
    OBVIOUS
  <2> QED BY Facts DEF BackupKept
<1> QED BY Invariance, <1>1, PTL

\* Nobody is pursued for an entry more often than it was marked.
THEOREM NobodyPursuedTwice == Spec => []NoUndueConsequence
<1>1. IInv => NoUndueConsequence
  BY DEF IInv
<1> QED BY Invariance, <1>1, PTL
=============================================================================
