-------------------------- MODULE WorldClockProofs --------------------------
(***************************************************************************)
(* That events run on time, in order and after their warnings, and that the*)
(* clock does not go back, for any speeds, delays, notifications and number*)
(* of events.                                                              *)
(***************************************************************************)
EXTENDS WorldClock, WellFoundedInduction, SequenceTheorems, TLAPS

\* What is known of an event when m events have been made.
Known(x, m) ==
  /\ x.id <= m /\ x.warns <= m /\ x.warns # x.id
  /\ x.due <= x.rundate
  /\ x.period = 0 \/ x.period >= 3

\* That x may run before y does, in the world w.
MayPrecede(x, y, w) ==
  /\ y.warns # x.id
  /\ w = "loaded" => \/ x.due < y.due
                     \/ x.due = y.due /\ x.id < y.id

\* A list of events that may run in its order.
Chain(s, m, w) ==
  /\ \A i \in 1..Len(s) : Known(s[i], m)
  /\ \A i, j \in 1..Len(s) : i < j => MayPrecede(s[i], s[j], w)

\* Two lists of which the first may run before the second, and the same of the
\* events that have run and a list.
Linked(s, t, w) ==
  \A i \in 1..Len(s), j \in 1..Len(t) : MayPrecede(s[i], t[j], w)

PastLinked(t) ==
  \A i \in 1..Len(ran), j \in 1..Len(t) : MayPrecede(ran[i].event, t[j], world)

\* A queue of events due at lo or later, of which fast frames have moved at most
\* the first, if any, and not past the date d.
Punctual(q, d, lo, ph) ==
  \A i \in 1..Len(q) :
    /\ q[i].due >= lo
    /\ q[i].rundate = q[i].due \/ (ph = "frame" /\ i = 1 /\ q[i].rundate < d)

\* Nothing on the queue is due before this.
Floor ==
  IF phase # "frame" THEN date
  ELSE IF nextupdate = Never THEN date - 2 ELSE nextupdate - 2

\* A queue, with m events made, that fits the rest of the state.
Fits(q, m) ==
  /\ q \in Seq(UplinkEvent)
  /\ m \in 0..MaxEvents
  /\ Chain(q, m, world)
  /\ PastLinked(q)
  /\ Linked(eventsToRun, q, world)
  /\ world = "loaded" => Punctual(q, date, Floor, phase)

PastChain ==
  /\ \A i \in 1..Len(ran) : Known(ran[i].event, made)
  /\ \A i, j \in 1..Len(ran) : i < j => MayPrecede(ran[i].event, ran[j].event, world)

\* How the clock, the updates and the events of a loaded world keep step.
Timely ==
  /\ started /\ phase # "leap"
  /\ \A i \in 1..Len(ran) :
       /\ ran[i].at - ran[i].event.due \in 1..3
       /\ ran[i].event.due < date
  /\ \A i \in 1..Len(eventsToRun) : date - eventsToRun[i].due \in 1..3
  /\ phase = "frame" /\ nextupdate # Never => nextupdate - 2 <= date /\ date <= nextupdate

\* The inductive invariant.
IInv ==
  /\ TypeOK
  /\ Fits(events, made)
  /\ Chain(eventsToRun, made, world)
  /\ PastLinked(eventsToRun)
  /\ PastChain
  /\ world = "loaded" => Timely
  /\ phase = "start" => date = 0 /\ nextupdate = Never /\ made < Len(Periods)

-----------------------------------------------------------------------------
(* Sets of numbers.                                                        *)

LEMMA NatWellFounded == IsWellFoundedOn({p \in Nat \X Nat : p[1] < p[2]}, Nat)
<1>1. OpToRel(<, Nat) = {p \in Nat \X Nat : p[1] < p[2]}
  BY DEF OpToRel
<1> QED BY <1>1, NatLessThanWellFounded

LEMMA MinExists ==
  ASSUME NEW S, S \subseteq Nat, S # {}
  PROVE  Min(S) \in S /\ \A y \in S : Min(S) <= y
<1> DEFINE R == {p \in Nat \X Nat : p[1] < p[2]}
<1>1. \E x \in S : \A y \in S : ~ (<<y, x>> \in R)
  <2>1. IsWellFoundedOn(R, Nat)
    BY NatWellFounded
  <2> HIDE DEF R
  <2> QED BY <2>1, WFMin
<1>2. PICK x \in S : \A y \in S : ~ (<<y, x>> \in R)
  BY <1>1
<1>3. ASSUME NEW y \in S PROVE x <= y
  <2>1. x \in Nat /\ y \in Nat
    OBVIOUS
  <2>2. ~ (y < x)
    BY <1>2, <2>1
  <2> QED BY <2>1, <2>2
<1> QED BY <1>3 DEF Min

LEMMA MaxExists ==
  ASSUME NEW S, S \subseteq Nat, S # {}, NEW b \in Nat, \A x \in S : x <= b
  PROVE  Max(S) \in S /\ \A y \in S : Max(S) >= y
<1> DEFINE T == {b - x : x \in S}
<1>1. T \subseteq Nat /\ T # {}
  <2>1. \A x \in S : b - x \in Nat
    OBVIOUS
  <2> QED BY <2>1
<1>2. PICK t \in T : \A y \in T : t <= y
  <2> HIDE DEF T
  <2> QED BY <1>1, MinExists
<1>3. PICK x \in S : t = b - x
  OBVIOUS
<1>4. ASSUME NEW y \in S PROVE x >= y
  <2>1. b - x <= b - y
    BY <1>2, <1>3
  <2>2. x \in Nat /\ y \in Nat
    OBVIOUS
  <2> QED BY <2>1, <2>2
<1>5. \E z \in S : \A y \in S : z >= y
  BY <1>4
<1> QED BY <1>5 DEF Max

-----------------------------------------------------------------------------
(* Putting an event on the queue.                                          *)

\* The queue r is q with e at position p, behind the events not later than it.
Inserted(q, e, p, r) ==
  /\ p \in 1..(Len(q) + 1)
  /\ r \in Seq(UplinkEvent)
  /\ Len(r) = Len(q) + 1
  /\ r[p] = e
  /\ \A k \in 1..Len(q) : IF k < p THEN r[k] = q[k] ELSE r[k + 1] = q[k]
  /\ \A k \in 1..Len(q) : k < p => q[k].rundate <= e.rundate
  /\ p <= Len(q) => q[p].rundate > e.rundate

LEMMA EventFields ==
  ASSUME NEW id \in 1..MaxEvents, NEW rundate \in Nat, NEW period \in Nat,
         NEW warns \in 0..MaxEvents, NEW e, e = Event(id, rundate, period, warns)
  PROVE  /\ e \in UplinkEvent
         /\ e.id = id /\ e.rundate = rundate /\ e.due = rundate
         /\ e.period = period /\ e.warns = warns
BY DEF Event, UplinkEvent

LEMMA QueueFacts ==
  ASSUME NEW q \in Seq(UplinkEvent)
  PROVE  /\ Len(q) \in Nat /\ DOMAIN q = 1..Len(q)
         /\ \A i \in 1..Len(q) :
              /\ q[i] \in UplinkEvent
              /\ q[i].id \in 1..MaxEvents /\ q[i].rundate \in Nat /\ q[i].due \in Nat
              /\ q[i].period \in Nat /\ q[i].warns \in 0..MaxEvents
<1>1. Len(q) \in Nat /\ DOMAIN q = 1..Len(q) /\ \A i \in 1..Len(q) : q[i] \in UplinkEvent
  BY LenProperties, ElementOfSeq
<1> QED BY <1>1 DEF UplinkEvent

LEMMA InsertAtInserts ==
  ASSUME NEW q \in Seq(UplinkEvent), NEW e \in UplinkEvent, NEW p \in 1..Len(q),
         NEW a, a = InsertAt(q, p, e)
  PROVE  /\ a \in Seq(UplinkEvent) /\ Len(a) = Len(q) + 1 /\ a[p] = e
         /\ \A k \in 1..Len(q) : IF k < p THEN a[k] = q[k] ELSE a[k + 1] = q[k]
<1> DEFINE s == SubSeq(q, 1, p - 1)
           t == SubSeq(q, p, Len(q))
           u == s \o <<e>>
           r == u \o t
<1>1. Len(q) \in Nat /\ \A i \in 1..Len(q) : q[i] \in UplinkEvent
  BY QueueFacts
<1>2. s \in Seq(UplinkEvent) /\ Len(s) = p - 1 /\ \A i \in 1..(p - 1) : s[i] = q[i]
  <2>1. /\ SubSeq(q, 1, p - 1) \in Seq(UplinkEvent)
        /\ Len(SubSeq(q, 1, p - 1)) = IF 1 <= p - 1 THEN p - 1 - 1 + 1 ELSE 0
        /\ \A i \in 1..(p - 1 - 1 + 1) : SubSeq(q, 1, p - 1)[i] = q[1 + i - 1]
    BY <1>1, SubSeqProperties
  <2> QED BY <2>1
<1>3. /\ t \in Seq(UplinkEvent) /\ Len(t) = Len(q) - p + 1
      /\ \A i \in 1..(Len(q) - p + 1) : t[i] = q[p + i - 1]
  <2>1. /\ SubSeq(q, p, Len(q)) \in Seq(UplinkEvent)
        /\ Len(SubSeq(q, p, Len(q))) = IF p <= Len(q) THEN Len(q) - p + 1 ELSE 0
        /\ \A i \in 1..(Len(q) - p + 1) : SubSeq(q, p, Len(q))[i] = q[p + i - 1]
    BY <1>1, SubSeqProperties
  <2> QED BY <1>1, <2>1
<1>4. <<e>> \in Seq(UplinkEvent) /\ Len(<<e>>) = 1 /\ <<e>>[1] = e
  OBVIOUS
<1> HIDE DEF s, t
<1>5. /\ u \in Seq(UplinkEvent) /\ Len(u) = p
      /\ \A i \in 1..p : u[i] = IF i <= p - 1 THEN q[i] ELSE e
  <2>1. /\ s \o <<e>> \in Seq(UplinkEvent) /\ Len(s \o <<e>>) = Len(s) + Len(<<e>>)
        /\ \A i \in 1..Len(s) + Len(<<e>>) :
             (s \o <<e>>)[i] = IF i <= Len(s) THEN s[i] ELSE <<e>>[i - Len(s)]
    BY <1>2, <1>4, ConcatProperties
  <2>2. ASSUME NEW i \in 1..p PROVE u[i] = IF i <= p - 1 THEN q[i] ELSE e
    <3>1. CASE i <= p - 1
      BY <1>2, <1>4, <2>1, <3>1
    <3>2. CASE i = p
      <4>1. p \in Nat /\ p >= 1 /\ p \in 1..(Len(s) + Len(<<e>>)) /\ p - Len(s) = 1
        BY <1>2, <1>4
      <4>2. u[p] = <<e>>[p - Len(s)]
        BY <1>2, <2>1, <4>1
      <4> QED BY <1>4, <3>2, <4>1, <4>2
    <3> HIDE DEF u
    <3> QED BY <1>1, <3>1, <3>2
  <2> QED BY <1>2, <1>4, <2>1, <2>2
<1> HIDE DEF u
<1>6. /\ r \in Seq(UplinkEvent) /\ Len(r) = Len(u) + Len(t)
      /\ \A i \in 1..(Len(u) + Len(t)) : r[i] = IF i <= Len(u) THEN u[i] ELSE t[i - Len(u)]
  BY <1>3, <1>5, ConcatProperties
<1> HIDE DEF r
<1>7. Len(r) = Len(q) + 1 /\ r[p] = e
  <2>1. Len(u) + Len(t) = Len(q) + 1
    BY <1>1, <1>3, <1>5
  <2>2. p \in 1..(Len(u) + Len(t)) /\ p <= Len(u)
    BY <1>1, <1>5, <2>1
  <2>3. r[p] = u[p] /\ u[p] = e
    BY <1>1, <1>5, <1>6, <2>2
  <2> QED BY <1>6, <2>1, <2>3
<1>8. ASSUME NEW k \in 1..Len(q), k < p PROVE r[k] = q[k]
  <2>1. k \in 1..(Len(u) + Len(t)) /\ k <= Len(u) /\ k \in 1..p /\ k <= p - 1
    BY <1>1, <1>3, <1>5, <1>8
  <2> QED BY <1>5, <1>6, <2>1
<1>9. ASSUME NEW k \in 1..Len(q), ~(k < p) PROVE r[k + 1] = q[k]
  <2>1. r[k + 1] = t[k + 1 - p] /\ k + 1 - p \in 1..(Len(q) - p + 1)
    <3>1. /\ k + 1 \in 1..(Len(u) + Len(t)) /\ ~(k + 1 <= Len(u))
          /\ k + 1 - p \in 1..(Len(q) - p + 1) /\ Len(u) = p
      BY <1>1, <1>3, <1>5, <1>9
    <3> QED BY <1>6, <3>1
  <2>2. t[k + 1 - p] = q[p + (k + 1 - p) - 1] /\ p + (k + 1 - p) - 1 = k
    BY <1>1, <1>3, <2>1
  <2> QED BY <2>1, <2>2
<1>10. a = r
  BY DEF InsertAt, r, u, s, t
<1> QED BY <1>6, <1>7, <1>8, <1>9, <1>10

\* EventScheduler::ScheduleEvent puts an event where it belongs.
LEMMA ScheduleInserts ==
  ASSUME NEW q \in Seq(UplinkEvent), NEW e \in UplinkEvent
  PROVE  \E p \in 1..(Len(q) + 1) : Inserted(q, e, p, ScheduleEvent(q, e))
<1> DEFINE later == {i \in DOMAIN q : e.rundate < q[i].rundate}
<1>1. /\ Len(q) \in Nat /\ DOMAIN q = 1..Len(q) /\ e.rundate \in Nat
      /\ \A i \in 1..Len(q) : q[i].rundate \in Nat
  BY QueueFacts DEF UplinkEvent
<1>2. CASE later = {}
  <2>1. ScheduleEvent(q, e) = Append(q, e)
    BY <1>2 DEF ScheduleEvent
  <2>2. /\ Append(q, e) \in Seq(UplinkEvent) /\ Len(Append(q, e)) = Len(q) + 1
        /\ \A i \in 1..Len(q) : Append(q, e)[i] = q[i]
        /\ Append(q, e)[Len(q) + 1] = e
    BY AppendProperties
  <2>3. \A k \in 1..Len(q) : q[k].rundate <= e.rundate
    BY <1>1, <1>2
  <2>4. Inserted(q, e, Len(q) + 1, Append(q, e))
    BY <1>1, <2>2, <2>3 DEF Inserted
  <2> QED BY <1>1, <2>1, <2>4
<1>3. CASE later # {}
  <2> DEFINE p == Min(later)
  <2>1. later \subseteq Nat /\ later \subseteq 1..Len(q)
    BY <1>1
  <2>2. p \in later /\ \A k \in later : p <= k
    <3> HIDE DEF later
    <3> QED BY <1>3, <2>1, MinExists
  <2>3. ScheduleEvent(q, e) = InsertAt(q, p, e)
    BY <1>3 DEF ScheduleEvent
  <2> HIDE DEF p
  <2>4. p \in 1..Len(q) /\ q[p].rundate > e.rundate
    BY <1>1, <2>1, <2>2
  <2>5. ASSUME NEW k \in 1..Len(q), k < p PROVE q[k].rundate <= e.rundate
    <3>1. k \notin later
      BY <2>2, <2>4, <2>5
    <3> QED BY <1>1, <3>1
  <2> DEFINE a == InsertAt(q, p, e)
  <2> HIDE DEF a
  <2>6. /\ a \in Seq(UplinkEvent) /\ Len(a) = Len(q) + 1 /\ a[p] = e
        /\ \A k \in 1..Len(q) : IF k < p THEN a[k] = q[k] ELSE a[k + 1] = q[k]
    BY <2>4, InsertAtInserts DEF a
  <2>7. Inserted(q, e, p, a)
    BY <1>1, <2>4, <2>5, <2>6 DEF Inserted
  <2> QED BY <1>1, <2>3, <2>4, <2>7 DEF a
<1> QED BY <1>2, <1>3

LEMMA InsertedElements ==
  ASSUME NEW q \in Seq(UplinkEvent), NEW e, NEW p, NEW r, Inserted(q, e, p, r),
         NEW i \in 1..Len(r)
  PROVE  \/ i < p /\ i \in 1..Len(q) /\ r[i] = q[i]
         \/ i = p /\ r[i] = e
         \/ i > p /\ i - 1 \in 1..Len(q) /\ r[i] = q[i - 1]
<1>1. /\ Len(q) \in Nat /\ p \in 1..(Len(q) + 1) /\ Len(r) = Len(q) + 1 /\ r[p] = e
      /\ \A k \in 1..Len(q) : IF k < p THEN r[k] = q[k] ELSE r[k + 1] = q[k]
  BY QueueFacts DEF Inserted
<1>2. CASE i < p
  BY <1>1, <1>2
<1>3. CASE i = p
  BY <1>1, <1>3
<1>4. CASE i > p
  <2>1. i - 1 \in 1..Len(q) /\ ~(i - 1 < p) /\ (i - 1) + 1 = i
    BY <1>1, <1>4
  <2> QED BY <1>1, <1>4, <2>1
<1> QED BY <1>1, <1>2, <1>3, <1>4

\* An event put where it may precede what is behind it, and what is before may
\* precede it, leaves a chain.
LEMMA InsertedChain ==
  ASSUME NEW q \in Seq(UplinkEvent), NEW m \in Nat, NEW w, Chain(q, m, w),
         NEW e \in UplinkEvent, Known(e, m),
         NEW p, NEW r, Inserted(q, e, p, r),
         \A k \in 1..Len(q) : k < p => MayPrecede(q[k], e, w),
         \A k \in 1..Len(q) : k >= p => MayPrecede(e, q[k], w)
  PROVE  Chain(r, m, w)
<1>1. /\ Len(q) \in Nat /\ p \in 1..(Len(q) + 1) /\ Len(r) = Len(q) + 1 /\ r[p] = e
  BY QueueFacts DEF Inserted
<1>2. ASSUME NEW i \in 1..Len(r)
      PROVE  \/ i < p /\ i \in 1..Len(q) /\ r[i] = q[i]
             \/ i = p /\ r[i] = e
             \/ i > p /\ i - 1 \in 1..Len(q) /\ r[i] = q[i - 1]
  BY InsertedElements
<1>3. \A i \in 1..Len(r) : Known(r[i], m)
  BY <1>2 DEF Chain
<1>4. ASSUME NEW i \in 1..Len(r), NEW j \in 1..Len(r), i < j
      PROVE  MayPrecede(r[i], r[j], w)
  <2>1. \A k, l \in 1..Len(q) : k < l => MayPrecede(q[k], q[l], w)
    BY DEF Chain
  <2>2. CASE i < p /\ j < p
    BY <1>1, <1>2, <1>4, <2>1, <2>2
  <2>3. CASE i < p /\ j = p
    BY <1>1, <1>2, <1>4, <2>3
  <2>4. CASE i < p /\ j > p
    <3>1. i \in 1..Len(q) /\ r[i] = q[i] /\ j - 1 \in 1..Len(q) /\ r[j] = q[j - 1]
      BY <1>1, <1>2, <2>4
    <3>2. i < j - 1
      BY <1>1, <2>4
    <3> QED BY <2>1, <3>1, <3>2
  <2>5. CASE i = p
    <3>1. r[i] = e /\ j > p /\ j - 1 \in 1..Len(q) /\ r[j] = q[j - 1] /\ j - 1 >= p
      BY <1>1, <1>2, <1>4, <2>5
    <3> QED BY <3>1
  <2>6. CASE i > p
    <3>1. /\ i - 1 \in 1..Len(q) /\ r[i] = q[i - 1]
          /\ j - 1 \in 1..Len(q) /\ r[j] = q[j - 1] /\ i - 1 < j - 1
      BY <1>1, <1>2, <1>4, <2>6
    <3> QED BY <2>1, <3>1
  <2> QED BY <1>1, <1>4, <2>2, <2>3, <2>4, <2>5, <2>6
<1> QED BY <1>3, <1>4 DEF Chain

\* An event later than all on the queue, and not due before now.
LEMMA InsertedInOrder ==
  ASSUME NEW q \in Seq(UplinkEvent), NEW m \in Nat, NEW w, Chain(q, m, w),
         NEW e \in UplinkEvent, Known(e, m), e.due = e.rundate,
         NEW p, NEW r, Inserted(q, e, p, r),
         \A k \in 1..Len(q) : q[k].id < e.id,
         NEW d \in Int, NEW lo \in Int, NEW ph,
         w = "loaded" => Punctual(q, d, lo, ph) /\ e.due >= d /\ e.due >= lo,
         \A k \in 1..Len(q) : k < p => e.warns # q[k].id,
         \A k \in 1..Len(q) : k >= p => q[k].warns # e.id
  PROVE  /\ Chain(r, m, w)
         /\ w = "loaded" => Punctual(r, d, lo, ph)
<1>1. /\ Len(q) \in Nat /\ p \in 1..(Len(q) + 1)
      /\ \A k \in 1..Len(q) : k < p => q[k].rundate <= e.rundate
      /\ p <= Len(q) => q[p].rundate > e.rundate
      /\ e.due \in Nat /\ e.rundate \in Nat
      /\ \A k \in 1..Len(q) : q[k].due \in Nat /\ q[k].rundate \in Nat
  BY QueueFacts DEF Inserted, UplinkEvent
<1>2. \A k \in 1..Len(q) : q[k].due <= q[k].rundate
  BY DEF Chain, Known
<1>3. ASSUME NEW k \in 1..Len(q), k < p PROVE MayPrecede(q[k], e, w)
  <2>1. q[k].due <= e.due
    BY <1>1, <1>2, <1>3
  <2>2. q[k].due < e.due \/ q[k].due = e.due
    BY <1>1, <2>1
  <2> QED BY <1>3, <2>2 DEF MayPrecede
<1>4. ASSUME NEW k \in 1..Len(q), k >= p PROVE MayPrecede(e, q[k], w)
  <2>1. ASSUME w = "loaded" PROVE e.due < q[k].due
    <3>1. p \in 1..Len(q) /\ q[p].rundate > e.rundate
      BY <1>1, <1>4
    <3>2. q[p].rundate = q[p].due
      <4>1. q[p].rundate = q[p].due \/ q[p].rundate < d
        BY <2>1, <3>1 DEF Punctual
      <4> QED BY <1>1, <2>1, <3>1, <4>1
    <3>3. q[p].due <= q[k].due
      <4>1. CASE p = k
        BY <1>1, <4>1
      <4>2. CASE p < k
        <5>1. MayPrecede(q[p], q[k], w)
          BY <3>1, <4>2 DEF Chain
        <5> QED BY <1>1, <2>1, <3>1, <5>1 DEF MayPrecede
      <4> QED BY <1>1, <1>4, <3>1, <4>1, <4>2
    <3> QED BY <1>1, <3>1, <3>2, <3>3
  <2> QED BY <1>4, <2>1 DEF MayPrecede
<1>5. Chain(r, m, w)
  BY <1>3, <1>4, InsertedChain
<1>6. ASSUME w = "loaded" PROVE Punctual(r, d, lo, ph)
  <2>1. ASSUME NEW i \in 1..Len(r)
        PROVE  /\ r[i].due >= lo
               /\ r[i].rundate = r[i].due \/ (ph = "frame" /\ i = 1 /\ r[i].rundate < d)
    <3>1. CASE i < p /\ i \in 1..Len(q) /\ r[i] = q[i]
      BY <1>6, <3>1 DEF Punctual
    <3>2. CASE i = p /\ r[i] = e
      BY <1>6, <3>2
    <3>3. CASE i > p /\ i - 1 \in 1..Len(q) /\ r[i] = q[i - 1]
      <4>1. q[i - 1].due >= lo
        BY <1>6, <3>3 DEF Punctual
      <4>2. q[i - 1].rundate = q[i - 1].due
        <5>1. CASE i - 1 = 1
          <6>1. p = 1 /\ q[1].rundate > e.rundate
            BY <1>1, <3>3, <5>1
          <6>2. q[1].rundate = q[1].due \/ q[1].rundate < d
            BY <1>6, <3>3, <5>1 DEF Punctual
          <6>3. 1 \in 1..Len(q)
            BY <3>3, <5>1
          <6>4. ~(q[1].rundate < d)
            BY <1>1, <1>6, <6>1, <6>3
          <6> QED BY <5>1, <6>2, <6>4
        <5>2. CASE i - 1 # 1
          BY <1>6, <3>3, <5>2 DEF Punctual
        <5> QED BY <5>1, <5>2
      <4> QED BY <3>3, <4>1, <4>2
    <3> QED BY <3>1, <3>2, <3>3, InsertedElements
  <2> QED BY <2>1 DEF Punctual
<1> QED BY <1>5, <1>6

LEMMA InsertedLinked ==
  ASSUME NEW q \in Seq(UplinkEvent), NEW e, NEW p, NEW r, Inserted(q, e, p, r),
         NEW s, NEW w, Linked(s, q, w), \A i \in 1..Len(s) : MayPrecede(s[i], e, w)
  PROVE  Linked(s, r, w)
<1>1. ASSUME NEW i \in 1..Len(s), NEW j \in 1..Len(r) PROVE MayPrecede(s[i], r[j], w)
  BY InsertedElements DEF Linked
<1> QED BY <1>1 DEF Linked

LEMMA InsertedPastLinked ==
  ASSUME NEW q \in Seq(UplinkEvent), NEW e, NEW p, NEW r, Inserted(q, e, p, r),
         PastLinked(q), \A i \in 1..Len(ran) : MayPrecede(ran[i].event, e, world)
  PROVE  PastLinked(r)
<1>1. ASSUME NEW i \in 1..Len(ran), NEW j \in 1..Len(r)
      PROVE  MayPrecede(ran[i].event, r[j], world)
  BY InsertedElements DEF PastLinked
<1> QED BY <1>1 DEF PastLinked

-----------------------------------------------------------------------------
(* Putting an event on the queue of a state that satisfies the invariant.  *)

LEMMA Types ==
  ASSUME IInv
  PROVE  /\ date \in Nat /\ made \in 0..MaxEvents /\ made \in Nat /\ MaxEvents \in Nat
         /\ nextupdate \in Nat \cup {Never} /\ nextupdate \in Int
         /\ events \in Seq(UplinkEvent) /\ eventsToRun \in Seq(UplinkEvent)
         /\ Len(ran) \in Nat /\ DOMAIN ran = 1..Len(ran)
         /\ ran \in Seq([event: UplinkEvent, at: Nat])
         /\ \A i \in 1..Len(ran) :
              /\ ran[i].event \in UplinkEvent /\ ran[i].at \in Nat
              /\ ran[i].event.id \in 1..MaxEvents /\ ran[i].event.due \in Nat
              /\ ran[i].event.warns \in 0..MaxEvents
         /\ phase \in {"start", "frame", "events", "leap"}
<1>1. TypeOK /\ ran \in Seq([event: UplinkEvent, at: Nat])
  BY DEF IInv, TypeOK
<1>2. /\ Len(ran) \in Nat /\ DOMAIN ran = 1..Len(ran)
      /\ \A i \in 1..Len(ran) : ran[i] \in [event: UplinkEvent, at: Nat]
  BY <1>1, LenProperties, ElementOfSeq
<1>3. \A i \in 1..Len(ran) :
        /\ ran[i].event \in UplinkEvent /\ ran[i].at \in Nat
        /\ ran[i].event.id \in 1..MaxEvents /\ ran[i].event.due \in Nat
        /\ ran[i].event.warns \in 0..MaxEvents
  BY <1>2 DEF UplinkEvent
<1> QED BY <1>1, <1>2, <1>3, ConstantsAssumption DEF TypeOK, Never

LEMMA FloorFacts ==
  ASSUME IInv
  PROVE  /\ Floor \in Int
         /\ world = "loaded" => Floor <= date /\ Floor >= date - 2
BY Types DEF IInv, Timely, Floor

LEMMA FitsMore ==
  ASSUME IInv, NEW m \in made..MaxEvents
  PROVE  Fits(events, m)
<1>1. Fits(events, made) /\ made \in Nat /\ MaxEvents \in Nat
  BY Types DEF IInv
<1>2. \A i \in 1..Len(events) : events[i].id \in Nat /\ events[i].warns \in Nat
  BY <1>1, QueueFacts DEF Fits
<1>3. \A i \in 1..Len(events) : Known(events[i], m)
  BY <1>1, <1>2 DEF Fits, Chain, Known
<1> QED BY <1>1, <1>3 DEF Fits, Chain

\* A new event, of a number not given before and due now or later, may run after
\* all that has run or is about to.
LEMMA NewIsLast ==
  ASSUME IInv, NEW e \in UplinkEvent, e.warns = 0 \/ e.warns > made,
         world = "loaded" => e.due >= date
  PROVE  /\ \A i \in 1..Len(ran) : MayPrecede(ran[i].event, e, world)
         /\ \A i \in 1..Len(eventsToRun) : MayPrecede(eventsToRun[i], e, world)
<1>1. e.warns \in Nat /\ e.due \in Nat /\ date \in Nat /\ made \in Nat
  BY Types DEF UplinkEvent
<1>2. ASSUME NEW i \in 1..Len(ran) PROVE MayPrecede(ran[i].event, e, world)
  <2>1. ran[i].event.id \in 1..made /\ ran[i].event.due \in Nat
    BY Types DEF IInv, PastChain, Known
  <2>2. world = "loaded" => ran[i].event.due < date
    BY DEF IInv, Timely
  <2> QED BY <1>1, <2>1, <2>2 DEF MayPrecede
<1>3. ASSUME NEW i \in 1..Len(eventsToRun) PROVE MayPrecede(eventsToRun[i], e, world)
  <2>1. eventsToRun[i].id \in 1..made /\ eventsToRun[i].due \in Nat
    BY Types, QueueFacts DEF IInv, Chain, Known
  <2>2. world = "loaded" => date - eventsToRun[i].due \in 1..3
    BY DEF IInv, Timely
  <2>3. world = "loaded" => eventsToRun[i].due < date
    BY <1>1, <2>1, <2>2
  <2> QED BY <1>1, <2>1, <2>3 DEF MayPrecede
<1> QED BY <1>2, <1>3

LEMMA InsertedFits ==
  ASSUME IInv, NEW q, NEW m \in made..MaxEvents, Fits(q, m),
         NEW e \in UplinkEvent, Known(e, m), e.due = e.rundate,
         e.warns = 0 \/ e.warns > made, world = "loaded" => e.due >= date,
         NEW p, NEW r, Inserted(q, e, p, r),
         \A k \in 1..Len(q) : q[k].id < e.id,
         \A k \in 1..Len(q) : k < p => e.warns # q[k].id,
         \A k \in 1..Len(q) : k >= p => q[k].warns # e.id
  PROVE  Fits(r, m)
<1>1. /\ q \in Seq(UplinkEvent) /\ Chain(q, m, world) /\ PastLinked(q)
      /\ Linked(eventsToRun, q, world)
      /\ world = "loaded" => Punctual(q, date, Floor, phase)
      /\ m \in Nat /\ m \in 0..MaxEvents /\ date \in Nat /\ Floor \in Int
      /\ world = "loaded" => Floor <= date
  BY Types, FloorFacts DEF Fits
<1>2. world = "loaded" => e.due >= Floor
  BY <1>1 DEF UplinkEvent
<1>3. /\ Chain(r, m, world)
      /\ world = "loaded" => Punctual(r, date, Floor, phase)
  <2> DEFINE lo == Floor
  <2>1. /\ lo \in Int /\ date \in Int
        /\ world = "loaded" => Punctual(q, date, lo, phase) /\ e.due >= date /\ e.due >= lo
    BY <1>1, <1>2
  <2> HIDE DEF lo
  <2>2. /\ Chain(r, m, world)
        /\ world = "loaded" => Punctual(r, date, lo, phase)
    BY <1>1, <2>1, InsertedInOrder
  <2> QED BY <2>2 DEF lo
<1>4. PastLinked(r) /\ Linked(eventsToRun, r, world)
  BY <1>1, NewIsLast, InsertedLinked, InsertedPastLinked
<1> QED BY <1>1, <1>3, <1>4 DEF Fits, Inserted

LEMMA EventsFacts ==
  ASSUME IInv
  PROVE  \A k \in 1..Len(events) : events[k].id <= made /\ events[k].warns <= made
                                   /\ events[k].id \in Nat /\ events[k].warns \in Nat
                                   /\ events[k].rundate \in Nat
BY Types, QueueFacts DEF IInv, Fits, Chain, Known

LEMMA OneFits ==
  ASSUME IInv, made < MaxEvents, NEW rundate \in Nat, NEW period \in Nat,
         period = 0 \/ period >= 3, world = "loaded" => rundate >= date
  PROVE  /\ Fits(ScheduleEvent(events, Event(made + 1, rundate, period, 0)), made + 1)
         /\ made + 1 \in 0..MaxEvents
<1> DEFINE e == Event(made + 1, rundate, period, 0)
<1>1. /\ made \in Nat /\ MaxEvents \in Nat /\ made + 1 \in 1..MaxEvents /\ 0 \in 0..MaxEvents
      /\ made + 1 \in made..MaxEvents
  BY Types
<1>2. /\ e \in UplinkEvent /\ e.id = made + 1 /\ e.rundate = rundate /\ e.due = rundate
      /\ e.period = period /\ e.warns = 0
  BY <1>1, EventFields
<1> HIDE DEF e
<1>3. Fits(events, made + 1) /\ events \in Seq(UplinkEvent)
  BY <1>1, FitsMore, Types
<1>4. PICK p \in 1..(Len(events) + 1) : Inserted(events, e, p, ScheduleEvent(events, e))
  BY <1>2, <1>3, ScheduleInserts
<1>5. Known(e, made + 1)
  BY <1>1, <1>2 DEF Known
<1>6. \A k \in 1..Len(events) :
        events[k].id < e.id /\ e.warns # events[k].id /\ events[k].warns # e.id
  <2>1. \A k \in 1..Len(events) : events[k].id \in 1..MaxEvents
    BY <1>3, QueueFacts
  <2> QED BY <1>1, <1>2, <2>1, EventsFacts
<1>7. Fits(ScheduleEvent(events, e), made + 1)
  BY <1>1, <1>2, <1>3, <1>4, <1>5, <1>6, InsertedFits
<1> QED BY <1>1, <1>7 DEF e

\* The elements of the queue after a first event was put on it.
LEMMA Elements ==
  ASSUME IInv, NEW e, NEW p, NEW r, Inserted(events, e, p, r), NEW k \in 1..Len(r)
  PROVE  \/ k = p /\ r[k] = e
         \/ /\ k # p
            /\ r[k].id \in 1..made /\ r[k].warns \in 0..made /\ r[k].rundate \in Nat
<1>1. \A i \in 1..Len(events) :
        events[i].id \in 1..made /\ events[i].warns \in 0..made /\ events[i].rundate \in Nat
  <2>1. events \in Seq(UplinkEvent) /\ made \in Nat
    BY Types
  <2>2. \A i \in 1..Len(events) : events[i].id \in 1..MaxEvents
    BY <2>1, QueueFacts
  <2> QED BY <2>1, <2>2, EventsFacts
<1>2. events \in Seq(UplinkEvent) /\ Len(events) \in Nat /\ p \in 1..(Len(events) + 1)
      /\ Len(r) = Len(events) + 1
  BY Types, QueueFacts DEF Inserted
<1> QED BY <1>1, <1>2, InsertedElements

\* The rundates up to the place of the first event are not later than its own.
LEMMA UpTo ==
  ASSUME IInv, NEW e \in UplinkEvent, NEW p, NEW r, Inserted(events, e, p, r),
         NEW k \in 1..Len(r), k <= p
  PROVE  r[k].rundate <= e.rundate
<1>1. /\ events \in Seq(UplinkEvent) /\ Len(events) \in Nat /\ p \in 1..(Len(events) + 1)
      /\ \A i \in 1..Len(events) : i < p => events[i].rundate <= e.rundate
      /\ e.rundate \in Nat /\ Len(r) = Len(events) + 1
  BY Types, QueueFacts DEF Inserted, UplinkEvent
<1> QED BY <1>1, InsertedElements

LEMMA WarnedFits ==
  ASSUME IInv, made + 2 <= MaxEvents, NEW a \in Nat, NEW b \in Nat, a < b,
         world = "loaded" => a >= date
  PROVE  LET warning == Event(made + 1, a, 0, made + 2)
             event   == Event(made + 2, b, 0, 0)
         IN /\ Fits(ScheduleEvent(ScheduleEvent(events, warning), event), made + 2)
            /\ made + 2 \in 0..MaxEvents
<1> DEFINE d == Event(made + 1, a, 0, made + 2)
           e == Event(made + 2, b, 0, 0)
           q == ScheduleEvent(events, d)
           r == ScheduleEvent(q, e)
<1>1. /\ made \in Nat /\ MaxEvents \in Nat
      /\ made + 1 \in 1..MaxEvents /\ made + 2 \in 1..MaxEvents
      /\ 0 \in 0..MaxEvents /\ made + 2 \in 0..MaxEvents /\ made + 2 \in made..MaxEvents
      /\ date \in Nat /\ events \in Seq(UplinkEvent)
  BY Types
<1>0. d = Event(made + 1, a, 0, made + 2) /\ e = Event(made + 2, b, 0, 0)
  OBVIOUS
<1>2. /\ d \in UplinkEvent /\ d.id = made + 1 /\ d.rundate = a /\ d.due = a
      /\ d.period = 0 /\ d.warns = made + 2
  <2> HIDE DEF d, e, q, r
  <2> QED BY <1>0, <1>1, EventFields
<1>3. /\ e \in UplinkEvent /\ e.id = made + 2 /\ e.rundate = b /\ e.due = b
      /\ e.period = 0 /\ e.warns = 0
  <2> HIDE DEF d, e, q, r
  <2> QED BY <1>0, <1>1, EventFields
<1> HIDE DEF d, e
<1>4. PICK p \in 1..(Len(events) + 1) : Inserted(events, d, p, q)
  BY <1>1, <1>2, ScheduleInserts
<1> HIDE DEF q
<1>5. q \in Seq(UplinkEvent)
  BY <1>4 DEF Inserted
<1>6. PICK o \in 1..(Len(q) + 1) : Inserted(q, e, o, r)
  BY <1>3, <1>5, ScheduleInserts
<1> HIDE DEF r
<1>7. Fits(q, made + 2)
  <2>1. Fits(events, made + 2)
    BY <1>1, FitsMore
  <2>2. Known(d, made + 2)
    BY <1>1, <1>2 DEF Known
  <2>3. \A k \in 1..Len(events) :
          events[k].id < d.id /\ d.warns # events[k].id /\ events[k].warns # d.id
    BY <1>1, <1>2, EventsFacts
  <2>4. d.warns > made
    BY <1>1, <1>2
  <2> QED BY <1>1, <1>2, <1>4, <2>1, <2>2, <2>3, <2>4, InsertedFits
<1>8. Fits(r, made + 2)
  <2>1. Known(e, made + 2)
    BY <1>1, <1>3 DEF Known
  <2>2. world = "loaded" => e.due >= date
    BY <1>1, <1>3
  <2>3. ASSUME NEW k \in 1..Len(q) PROVE q[k].id < e.id /\ e.warns # q[k].id
    BY <1>1, <1>2, <1>3, <1>4, Elements
  <2>4. ASSUME NEW k \in 1..Len(q), k >= o PROVE q[k].warns # e.id
    <3>1. CASE k = p /\ q[k] = d
      <4>1. /\ Len(q) \in Nat /\ o \in 1..Len(q) /\ o <= p
            /\ q[o].rundate \in Nat
        BY <1>5, <1>6, <2>4, <3>1, QueueFacts
      <4>2. q[o].rundate <= a
        BY <1>2, <1>4, <4>1, UpTo
      <4>3. q[o].rundate > b
        BY <1>3, <1>6, <4>1 DEF Inserted
      <4> QED BY <4>1, <4>2, <4>3
    <3>2. CASE k # p /\ q[k].warns \in 0..made
      BY <1>1, <1>3, <3>2
    <3> QED BY <1>4, <3>1, <3>2, Elements
  <2> QED BY <1>1, <1>3, <1>6, <1>7, <2>1, <2>2, <2>3, <2>4, InsertedFits
<1> QED BY <1>1, <1>8 DEF d, e, q, r

LEMMA ThenWarnedFits ==
  ASSUME IInv, made + 2 <= MaxEvents, NEW a \in Nat, NEW b \in Nat, a < b,
         world = "loaded" => a >= date
  PROVE  LET event   == Event(made + 1, b, 0, 0)
             warning == Event(made + 2, a, 0, made + 1)
         IN /\ Fits(ScheduleEvent(ScheduleEvent(events, event), warning), made + 2)
            /\ made + 2 \in 0..MaxEvents
<1> DEFINE d == Event(made + 1, b, 0, 0)
           e == Event(made + 2, a, 0, made + 1)
           q == ScheduleEvent(events, d)
           r == ScheduleEvent(q, e)
<1>1. /\ made \in Nat /\ MaxEvents \in Nat
      /\ made + 1 \in 1..MaxEvents /\ made + 2 \in 1..MaxEvents /\ made + 1 \in 0..MaxEvents
      /\ 0 \in 0..MaxEvents /\ made + 2 \in 0..MaxEvents /\ made + 2 \in made..MaxEvents
      /\ date \in Nat /\ events \in Seq(UplinkEvent)
  BY Types
<1>2. /\ d \in UplinkEvent /\ d.id = made + 1 /\ d.rundate = b /\ d.due = b
      /\ d.period = 0 /\ d.warns = 0
  BY <1>1, EventFields
<1>3. /\ e \in UplinkEvent /\ e.id = made + 2 /\ e.rundate = a /\ e.due = a
      /\ e.period = 0 /\ e.warns = made + 1
  <2> DEFINE n == made + 1
             i == made + 2
  <2>1. i \in 1..MaxEvents /\ n \in 0..MaxEvents /\ 0 \in Nat /\ e = Event(i, a, 0, n)
    BY <1>1
  <2> HIDE DEF n, i, e
  <2>2. /\ e \in UplinkEvent /\ e.id = i /\ e.rundate = a /\ e.due = a
        /\ e.period = 0 /\ e.warns = n
    BY <2>1, EventFields
  <2> QED BY <2>2 DEF n, i
<1> HIDE DEF d, e
<1>4. PICK p \in 1..(Len(events) + 1) : Inserted(events, d, p, q)
  BY <1>1, <1>2, ScheduleInserts
<1> HIDE DEF q
<1>5. q \in Seq(UplinkEvent)
  BY <1>4 DEF Inserted
<1>6. PICK o \in 1..(Len(q) + 1) : Inserted(q, e, o, r)
  BY <1>3, <1>5, ScheduleInserts
<1> HIDE DEF r
<1>7. Fits(q, made + 2)
  <2>1. Fits(events, made + 2)
    BY <1>1, FitsMore
  <2>2. Known(d, made + 2)
    BY <1>1, <1>2 DEF Known
  <2>3. ASSUME NEW k \in 1..Len(events)
        PROVE  events[k].id < d.id /\ d.warns # events[k].id /\ events[k].warns # d.id
    <3>1. events[k].id \in 1..MaxEvents
      BY <1>1, QueueFacts
    <3> QED BY <1>1, <1>2, <3>1, EventsFacts
  <2>4. world = "loaded" => d.due >= date
    BY <1>1, <1>2
  <2> QED BY <1>1, <1>2, <1>4, <2>1, <2>2, <2>3, <2>4, InsertedFits
<1>8. Fits(r, made + 2)
  <2>1. Known(e, made + 2)
    BY <1>1, <1>3 DEF Known
  <2>2. e.warns > made
    BY <1>1, <1>3
  <2>3. ASSUME NEW k \in 1..Len(q) PROVE q[k].id < e.id /\ q[k].warns # e.id
    BY <1>1, <1>2, <1>3, <1>4, Elements
  <2>4. ASSUME NEW k \in 1..Len(q), k < o PROVE e.warns # q[k].id
    <3>1. CASE k = p /\ q[k] = d
      <4>1. q[k].rundate <= a
        BY <1>3, <1>6, <2>4 DEF Inserted
      <4> QED BY <1>2, <3>1, <4>1
    <3>2. CASE k # p /\ q[k].id \in 1..made
      BY <1>1, <1>3, <3>2
    <3> QED BY <1>4, <3>1, <3>2, Elements
  <2> QED BY <1>1, <1>3, <1>6, <1>7, <2>1, <2>2, <2>3, <2>4, InsertedFits
<1> QED BY <1>1, <1>8 DEF d, e, q, r

-----------------------------------------------------------------------------
(* Steps.                                                                  *)

LEMMA InitEstablishes == Init => IInv
<1> SUFFICES ASSUME Init PROVE IInv
  OBVIOUS
<1>1. /\ <<>> \in Seq(UplinkEvent) /\ Len(<<>>) = 0
      /\ <<>> \in Seq([event: UplinkEvent, at: Nat])
  BY EmptySeq
<1>2. Len(Periods) \in Nat /\ (Periods # <<>> => 0 < Len(Periods))
  BY ConstantsAssumption, EmptySeq, LenProperties
<1>3. TypeOK
  BY <1>1, ConstantsAssumption DEF Init, TypeOK, Never
<1>4. Fits(events, made)
  BY <1>1, <1>3 DEF Init, Fits, Chain, PastLinked, Linked, Punctual, TypeOK
<1>5. Chain(eventsToRun, made, world) /\ PastLinked(eventsToRun) /\ PastChain
  BY <1>1 DEF Init, Chain, PastLinked, PastChain
<1>6. world = "loaded" => Timely
  <2>1. world = "loaded" => started
    BY Zenon DEF Init
  <2>2. phase # "leap" /\ nextupdate = Never /\ Len(ran) = 0 /\ Len(eventsToRun) = 0
    BY <1>1 DEF Init
  <2> QED BY <2>1, <2>2 DEF Timely
<1> QED BY <1>2, <1>3, <1>4, <1>5, <1>6 DEF Init, IInv

LEMMA KnownMore ==
  ASSUME NEW x \in UplinkEvent, NEW m \in Nat, NEW n \in Nat, m <= n, Known(x, m)
  PROVE  Known(x, n)
BY DEF Known, UplinkEvent

LEMMA ChainMore ==
  ASSUME NEW q \in Seq(UplinkEvent), NEW m \in Nat, NEW n \in Nat, m <= n, NEW w,
         Chain(q, m, w)
  PROVE  Chain(q, n, w)
<1>1. \A i \in 1..Len(q) : Known(q[i], n)
  BY QueueFacts, KnownMore DEF Chain
<1> QED BY <1>1 DEF Chain

\* A queue that no fast frame has moved is punctual for a weaker bound.
LEMMA PunctualLess ==
  ASSUME NEW q \in Seq(UplinkEvent), NEW d, NEW c, NEW lo \in Int, NEW less \in Int,
         less <= lo, NEW ph, NEW qh, ph # "frame", Punctual(q, d, lo, ph)
  PROVE  Punctual(q, c, less, qh)
<1>1. ASSUME NEW i \in 1..Len(q)
      PROVE  q[i].due >= less /\ q[i].rundate = q[i].due
  <2>1. q[i].due \in Nat
    BY QueueFacts
  <2> QED BY <2>1 DEF Punctual
<1> QED BY <1>1 DEF Punctual

LEMMA ScheduleKeeps ==
  ASSUME IInv, Fits(events', made'), made' \in made..MaxEvents, phase # "start",
         UNCHANGED <<date, nextupdate, eventsToRun, phase, started, world, ran>>
  PROVE  IInv'
<1>1. made' \in 0..MaxEvents /\ made' \in Nat /\ made \in Nat /\ made <= made'
  BY Types
<1>2. Fits(events, made)'
  BY DEF Fits, PastLinked, Floor
<1>3. Chain(eventsToRun, made, world)'
  <2>1. Chain(eventsToRun, made', world)
    BY <1>1, Types, ChainMore DEF IInv
  <2> QED BY <2>1
<1>4. PastLinked(eventsToRun)'
  BY DEF IInv, PastLinked
<1>5. PastChain'
  <2>1. \A i \in 1..Len(ran) : Known(ran[i].event, made')
    BY <1>1, Types, KnownMore DEF IInv, PastChain
  <2> QED BY <2>1 DEF IInv, PastChain
<1>6. TypeOK'
  BY <1>1 DEF IInv, TypeOK, Fits
<1>7. (world = "loaded" => Timely)'
  BY DEF IInv, Timely
<1> QED BY <1>2, <1>3, <1>4, <1>5, <1>6, <1>7 DEF IInv

LEMMA ScheduleOneKeeps ==
  ASSUME IInv, NEW delay \in Delays, ScheduleOne(delay)
  PROVE  IInv'
<1>1. date + delay \in Nat /\ date + delay >= date /\ made < MaxEvents
  BY Types, ConstantsAssumption DEF ScheduleOne
<1>2. Fits(events', made') /\ made' \in made..MaxEvents
  <2>1. /\ Fits(ScheduleEvent(events, Event(made + 1, date + delay, 0, 0)), made + 1)
        /\ made + 1 \in 0..MaxEvents
    BY <1>1, OneFits
  <2>2. made + 1 \in made..MaxEvents
    BY <1>1, Types
  <2> QED BY <2>1, <2>2 DEF ScheduleOne
<1> QED BY <1>2, ScheduleKeeps DEF ScheduleOne, MaySchedule

LEMMA WarnedDates ==
  ASSUME IInv, NEW w \in Warned
  PROVE  /\ date + w[1] - w[2] \in Nat /\ date + w[1] \in Nat
         /\ date + w[1] - w[2] < date + w[1] /\ date + w[1] - w[2] >= date
<1>1. w[1] \in Nat /\ w[2] \in 1..w[1] /\ date \in Nat
  BY ConstantsAssumption, Types
<1> QED BY <1>1

LEMMA ScheduleWarnedKeeps ==
  ASSUME IInv, NEW w \in Warned, ScheduleWarned(w[1], w[2])
  PROVE  IInv'
<1> DEFINE a == date + w[1] - w[2]
           b == date + w[1]
<1>1. a \in Nat /\ b \in Nat /\ a < b /\ a >= date /\ made + 2 <= MaxEvents
  BY WarnedDates DEF ScheduleWarned
<1>2. events' = ScheduleEvent(ScheduleEvent(events, Event(made + 1, a, 0, made + 2)),
                              Event(made + 2, b, 0, 0))
      /\ made' = made + 2
  BY DEF ScheduleWarned
<1> HIDE DEF a, b
<1>3. /\ Fits(ScheduleEvent(ScheduleEvent(events, Event(made + 1, a, 0, made + 2)),
                            Event(made + 2, b, 0, 0)), made + 2)
      /\ made + 2 \in 0..MaxEvents
  BY <1>1, WarnedFits
<1>4. made' \in made..MaxEvents
  BY <1>1, <1>2, Types
<1> QED BY <1>2, <1>3, <1>4, ScheduleKeeps DEF ScheduleWarned, MaySchedule

LEMMA ScheduleThenWarnKeeps ==
  ASSUME IInv, NEW w \in Warned, ScheduleThenWarn(w[1], w[2])
  PROVE  IInv'
<1> DEFINE a == date + w[1] - w[2]
           b == date + w[1]
<1>1. a \in Nat /\ b \in Nat /\ a < b /\ a >= date /\ made + 2 <= MaxEvents
  BY WarnedDates DEF ScheduleThenWarn
<1>2. events' = ScheduleEvent(ScheduleEvent(events, Event(made + 1, b, 0, 0)),
                              Event(made + 2, a, 0, made + 1))
      /\ made' = made + 2
  BY DEF ScheduleThenWarn
<1> HIDE DEF a, b
<1>3. /\ Fits(ScheduleEvent(ScheduleEvent(events, Event(made + 1, b, 0, 0)),
                            Event(made + 2, a, 0, made + 1)), made + 2)
      /\ made + 2 \in 0..MaxEvents
  BY <1>1, ThenWarnedFits
<1>4. made' \in made..MaxEvents
  BY <1>1, <1>2, Types
<1> QED BY <1>2, <1>3, <1>4, ScheduleKeeps DEF ScheduleThenWarn, MaySchedule

LEMMA StartingKeeps ==
  ASSUME IInv, ScheduleStartingEvent
  PROVE  IInv'
<1> DEFINE period == Periods[made + 1]
<1>1. /\ phase = "start" /\ date = 0 /\ nextupdate = Never /\ made < Len(Periods)
      /\ eventsToRun = <<>>
  BY DEF IInv, TypeOK, ScheduleStartingEvent
<1>2. Len(Periods) \in Nat /\ Len(Periods) <= MaxEvents /\ made \in Nat
  BY ConstantsAssumption, LenProperties, Types
<1>3. made < MaxEvents /\ period \in Nat /\ period >= 3
  <2>1. made + 1 \in 1..Len(Periods) /\ DOMAIN Periods = 1..Len(Periods)
    BY <1>1, <1>2, ConstantsAssumption, LenProperties
  <2>2. Periods \in Seq(Nat) /\ \A i \in DOMAIN Periods : Periods[i] >= 3
    BY ConstantsAssumption
  <2>3. Periods[made + 1] \in Nat
    BY <2>1, <2>2, ElementOfSeq
  <2>4. Periods[made + 1] >= 3
    BY <2>1, <2>2
  <2>5. made < MaxEvents
    BY <1>1, <1>2, Types
  <2> QED BY <2>3, <2>4, <2>5
<1>4. PICK rundate \in IF world = "new" THEN Firsts ELSE {period} :
        events' = ScheduleEvent(events, Event(made + 1, rundate, period, 0))
  BY DEF ScheduleStartingEvent
<1>5. rundate \in Nat /\ (world = "loaded" => rundate >= date)
  BY <1>1, <1>3, ConstantsAssumption
<1> HIDE DEF period
<1>6. Fits(events', made + 1) /\ made + 1 \in 0..MaxEvents
  BY <1>3, <1>4, <1>5, OneFits
<1>7. /\ made' = made + 1 /\ phase' \in {"start", "frame"}
      /\ phase' = "start" => made' < Len(Periods)
      /\ UNCHANGED <<date, nextupdate, eventsToRun, started, world, ran>>
  BY <1>1, <1>2 DEF ScheduleStartingEvent
<1>8. Fits(events, made)'
  <2>1. ASSUME world = "loaded" PROVE Punctual(events', date, Floor', phase')
    <3>1. Punctual(events', date, date, phase) /\ events' \in Seq(UplinkEvent)
      BY <1>1, <1>6, <2>1 DEF Fits, Floor
    <3>2. Floor' \in Int /\ Floor' <= date /\ date \in Int
      BY <1>1, <1>7 DEF Floor, Never
    <3> QED BY <1>1, <3>1, <3>2, PunctualLess
  <2> QED BY <1>6, <1>7, <2>1 DEF Fits, PastLinked
<1>9. Chain(eventsToRun, made, world)' /\ PastLinked(eventsToRun)'
  BY <1>1, <1>7, EmptySeq DEF Chain, PastLinked
<1>10. PastChain'
  <2>1. \A i \in 1..Len(ran) : Known(ran[i].event, made')
    BY <1>2, <1>7, Types, KnownMore DEF IInv, PastChain
  <2> QED BY <1>7, <2>1 DEF IInv, PastChain
<1>11. TypeOK'
  BY <1>1, <1>6, <1>7 DEF IInv, TypeOK, Fits
<1>12. (world = "loaded" => Timely)'
  BY <1>1, <1>7 DEF IInv, Timely
<1> QED BY <1>1, <1>7, <1>8, <1>9, <1>10, <1>11, <1>12 DEF IInv

\* The queue after an event has run, as if it had not been taken off yet.
LEMMA RunFits ==
  ASSUME IInv, RunEvent
  PROVE  Fits(events', made') /\ made' \in made..MaxEvents
<1> DEFINE event == Head(eventsToRun)
<1>1. /\ eventsToRun \in Seq(UplinkEvent) /\ eventsToRun # <<>>
      /\ made \in Nat /\ MaxEvents \in Nat /\ made <= MaxEvents /\ date \in Nat
  BY Types DEF RunEvent
<1>2. Len(eventsToRun) \in Nat /\ Len(eventsToRun) >= 1 /\ event = eventsToRun[1]
  BY <1>1, EmptySeq, LenProperties
<1>3. event \in UplinkEvent /\ event.rundate \in Nat /\ event.period \in Nat /\ event.due \in Nat
  BY <1>1, <1>2, QueueFacts
<1>4. Known(event, made)
  BY <1>2 DEF IInv, Chain
<1>5. CASE event.period > 0 /\ made < MaxEvents
  <2> DEFINE rundate == event.rundate + event.period
  <2>1. rundate \in Nat /\ event.period >= 3
    BY <1>3, <1>4, <1>5 DEF Known
  <2>2. ASSUME world = "loaded" PROVE rundate >= date
    <3>1. date - event.due \in 1..3
      BY <1>2, <2>2 DEF IInv, Timely
    <3>2. event.due <= event.rundate
      BY <1>4 DEF Known
    <3> QED BY <1>1, <1>3, <2>1, <3>1, <3>2
  <2>3. /\ events' = ScheduleEvent(events, Event(made + 1, rundate, event.period, 0))
        /\ made' = made + 1
    BY <1>5 DEF RunEvent
  <2> HIDE DEF rundate, event
  <2>4. /\ Fits(ScheduleEvent(events, Event(made + 1, rundate, event.period, 0)), made + 1)
        /\ made + 1 \in 0..MaxEvents
    BY <1>3, <1>5, <2>1, <2>2, OneFits
  <2> QED BY <1>1, <2>3, <2>4
<1>6. CASE ~(event.period > 0 /\ made < MaxEvents)
  <2>1. events' = events /\ made' = made
    BY <1>6 DEF RunEvent
  <2> QED BY <1>1, <2>1 DEF IInv
<1> QED BY <1>5, <1>6

LEMMA RunEventKeeps ==
  ASSUME IInv, RunEvent
  PROVE  IInv'
<1> DEFINE event == Head(eventsToRun)
           item == [event |-> event, at |-> date]
<1>1. /\ eventsToRun \in Seq(UplinkEvent) /\ eventsToRun # <<>>
      /\ made \in Nat /\ MaxEvents \in Nat /\ date \in Nat
      /\ ran \in Seq([event: UplinkEvent, at: Nat]) /\ Len(ran) \in Nat
  BY Types DEF RunEvent
<1>2. /\ Len(eventsToRun) \in Nat /\ Len(eventsToRun) >= 1 /\ event = eventsToRun[1]
      /\ event \in UplinkEvent /\ event.due \in Nat
  <2>1. Len(eventsToRun) \in Nat /\ Len(eventsToRun) >= 1
    BY <1>1, EmptySeq, LenProperties
  <2>2. event = eventsToRun[1]
    BY <1>1, <2>1
  <2> QED BY <1>1, <2>1, <2>2, QueueFacts
<1>3. /\ eventsToRun' \in Seq(UplinkEvent) /\ Len(eventsToRun') = Len(eventsToRun) - 1
      /\ \A i \in 1..Len(eventsToRun') : eventsToRun'[i] = eventsToRun[i + 1]
  BY <1>1, HeadTailProperties DEF RunEvent
<1>4. item \in [event: UplinkEvent, at: Nat]
  BY <1>1, <1>2
<1>5. /\ ran' = Append(ran, item)
      /\ UNCHANGED <<date, nextupdate, phase, started, world>> /\ phase = "events"
  BY DEF RunEvent
<1>6. item.event = event /\ item.at = date
  OBVIOUS
<1> HIDE DEF item, event
<1>7. /\ ran' \in Seq([event: UplinkEvent, at: Nat]) /\ Len(ran') = Len(ran) + 1
      /\ \A i \in 1..Len(ran) : ran'[i] = ran[i]
      /\ ran'[Len(ran) + 1] = item
  BY <1>1, <1>4, <1>5, AppendProperties
<1>8. ASSUME NEW i \in 1..Len(ran')
      PROVE  \/ i \in 1..Len(ran) /\ ran'[i] = ran[i]
             \/ i = Len(ran) + 1 /\ ran'[i].event = event /\ ran'[i].at = date
  BY <1>1, <1>6, <1>7
<1>9. Fits(events', made') /\ made' \in made..MaxEvents /\ made' \in 0..MaxEvents /\ made' \in Nat
  BY <1>1, RunFits
<1>10. ASSUME NEW i \in 1..Len(eventsToRun')
       PROVE  i + 1 \in 1..Len(eventsToRun) /\ 1 \in 1..Len(eventsToRun) /\ 1 < i + 1
              /\ eventsToRun'[i] = eventsToRun[i + 1]
  BY <1>2, <1>3
<1>11. Chain(eventsToRun, made', world)
  BY <1>1, <1>9, ChainMore DEF IInv
<1>12. Chain(eventsToRun, made, world)'
  <2>1. \A i \in 1..Len(eventsToRun') : Known(eventsToRun'[i], made')
    BY <1>10, <1>11 DEF Chain
  <2>2. ASSUME NEW i \in 1..Len(eventsToRun'), NEW j \in 1..Len(eventsToRun'), i < j
        PROVE  MayPrecede(eventsToRun'[i], eventsToRun'[j], world)
    <3>1. i + 1 < j + 1
      BY <2>2
    <3> QED BY <1>10, <1>11, <3>1 DEF Chain
  <2> QED BY <1>5, <2>1, <2>2 DEF Chain
<1>13. PastLinked(eventsToRun)'
  <2>1. ASSUME NEW i \in 1..Len(ran'), NEW j \in 1..Len(eventsToRun')
        PROVE  MayPrecede(ran'[i].event, eventsToRun'[j], world)
    <3>1. CASE i \in 1..Len(ran) /\ ran'[i] = ran[i]
      BY <1>10, <3>1 DEF IInv, PastLinked
    <3>2. CASE ran'[i].event = event
      BY <1>2, <1>10, <1>11, <3>2 DEF Chain
    <3> QED BY <1>8, <3>1, <3>2
  <2> QED BY <1>5, <2>1 DEF PastLinked
<1>14. PastLinked(events)'
  <2>1. ASSUME NEW i \in 1..Len(ran'), NEW j \in 1..Len(events')
        PROVE  MayPrecede(ran'[i].event, events'[j], world)
    <3>1. CASE i \in 1..Len(ran) /\ ran'[i] = ran[i]
      BY <1>9, <3>1 DEF Fits, PastLinked
    <3>2. CASE ran'[i].event = event
      <4>1. 1 \in 1..Len(eventsToRun)
        BY <1>2
      <4> QED BY <1>2, <1>9, <3>2, <4>1 DEF Fits, Linked
    <3> QED BY <1>8, <3>1, <3>2
  <2> QED BY <1>5, <2>1 DEF PastLinked
<1>15. Linked(eventsToRun', events', world)
  <2>1. ASSUME NEW i \in 1..Len(eventsToRun'), NEW j \in 1..Len(events')
        PROVE  MayPrecede(eventsToRun'[i], events'[j], world)
    BY <1>9, <1>10 DEF Fits, Linked
  <2> QED BY <2>1 DEF Linked
<1>16. Fits(events, made)'
  BY <1>5, <1>9, <1>14, <1>15 DEF Fits, Floor
<1>17. PastChain'
  <2>1. ASSUME NEW i \in 1..Len(ran') PROVE Known(ran'[i].event, made')
    <3>1. CASE i \in 1..Len(ran) /\ ran'[i] = ran[i]
      <4>1. ran[i].event \in UplinkEvent /\ Known(ran[i].event, made)
        BY <3>1, Types DEF IInv, PastChain
      <4> QED BY <1>1, <1>9, <3>1, <4>1, KnownMore
    <3>2. CASE ran'[i].event = event
      BY <1>2, <1>11, <3>2 DEF Chain
    <3> QED BY <1>8, <3>1, <3>2
  <2>2. ASSUME NEW i \in 1..Len(ran'), NEW j \in 1..Len(ran'), i < j
        PROVE  MayPrecede(ran'[i].event, ran'[j].event, world)
    <3>1. i \in 1..Len(ran) /\ ran'[i] = ran[i]
      <4>1. Len(ran') = Len(ran) + 1 /\ Len(ran) \in Nat
        BY <1>1, <1>7
      <4>2. i \in 1..Len(ran)
        BY <2>2, <4>1
      <4> QED BY <1>7, <4>2
    <3>2. CASE j \in 1..Len(ran) /\ ran'[j] = ran[j]
      BY <2>2, <3>1, <3>2 DEF IInv, PastChain
    <3>3. CASE ran'[j].event = event
      <4>1. 1 \in 1..Len(eventsToRun)
        BY <1>2
      <4> QED BY <1>2, <3>1, <3>3, <4>1 DEF IInv, PastLinked
    <3> QED BY <1>8, <3>2, <3>3
  <2> QED BY <1>5, <2>1, <2>2 DEF PastChain
<1>18. TypeOK'
  BY <1>3, <1>5, <1>7, <1>9 DEF IInv, TypeOK, Fits
<1>19. (world = "loaded" => Timely)'
  <2> SUFFICES ASSUME world = "loaded" PROVE Timely'
    BY <1>5
  <2>1. Timely
    BY DEF IInv
  <2>2. date - event.due \in 1..3 /\ event.due < date
    <3>1. date - event.due \in 1..3
      BY <1>2, <2>1 DEF Timely
    <3> QED BY <1>1, <1>2, <3>1
  <2>3. ASSUME NEW i \in 1..Len(ran')
        PROVE  ran'[i].at - ran'[i].event.due \in 1..3 /\ ran'[i].event.due < date
    <3>1. CASE i \in 1..Len(ran) /\ ran'[i] = ran[i]
      BY <2>1, <3>1 DEF Timely
    <3>2. CASE ran'[i].event = event /\ ran'[i].at = date
      BY <2>2, <3>2
    <3> QED BY <1>8, <3>1, <3>2
  <2>4. \A i \in 1..Len(eventsToRun') : date - eventsToRun'[i].due \in 1..3
    BY <1>10, <2>1 DEF Timely
  <2> QED BY <1>5, <2>1, <2>3, <2>4 DEF Timely
<1> QED BY <1>5, <1>12, <1>13, <1>16, <1>17, <1>18, <1>19 DEF IInv

LEMMA EndUpdateKeeps ==
  ASSUME IInv, EndUpdate
  PROVE  IInv'
<1>1. /\ phase = "events" /\ nextupdate' = date + 2 /\ phase' \in {"frame", "leap"}
      /\ world = "loaded" => phase' = "frame"
      /\ UNCHANGED <<date, events, eventsToRun, started, world, made, ran>>
      /\ eventsToRun = <<>>
  BY DEF IInv, Timely, EndUpdate
<1>2. date \in Nat /\ events \in Seq(UplinkEvent)
  BY Types
<1>3. Fits(events, made)'
  <2>1. ASSUME world = "loaded" PROVE Punctual(events, date, Floor', phase')
    <3>1. Punctual(events, date, date, phase)
      BY <1>1, <2>1 DEF IInv, Fits, Floor
    <3>2. Floor' = date
      BY <1>1, <1>2, <2>1 DEF Floor, Never
    <3> QED BY <1>1, <1>2, <3>1, <3>2, PunctualLess
  <2> QED BY <1>1, <2>1 DEF IInv, Fits, PastLinked
<1>4. Chain(eventsToRun, made, world)' /\ PastLinked(eventsToRun)' /\ PastChain'
  BY <1>1 DEF IInv, PastLinked, PastChain
<1>5. TypeOK'
  BY <1>1, <1>2 DEF IInv, TypeOK
<1>6. (world = "loaded" => Timely)'
  BY <1>1, <1>2 DEF IInv, Timely
<1> QED BY <1>1, <1>3, <1>4, <1>5, <1>6 DEF IInv

LEMMA LeapKeeps ==
  ASSUME IInv, Leap
  PROVE  IInv'
<1>1. world # "loaded"
  BY DEF IInv, Timely, Leap
<1>2. /\ UNCHANGED <<nextupdate, events, eventsToRun, world, made, ran>>
      /\ phase' = "frame" /\ phase = "leap"
  BY DEF Leap
<1>3. date' \in Nat /\ started' \in BOOLEAN
  <2>1. PICK step \in Leaps : date' = date + step /\ started' = (date + step >= GameStart)
    BY DEF Leap
  <2>2. step \in Nat /\ date \in Nat
    BY ConstantsAssumption, Types
  <2> QED BY <2>1, <2>2
<1>4. Fits(events, made)'
  BY <1>1, <1>2 DEF IInv, Fits, PastLinked
<1>5. Chain(eventsToRun, made, world)' /\ PastLinked(eventsToRun)' /\ PastChain'
  BY <1>2 DEF IInv, PastLinked, PastChain
<1>6. TypeOK'
  BY <1>2, <1>3 DEF IInv, TypeOK
<1> QED BY <1>1, <1>2, <1>4, <1>5, <1>6 DEF IInv

LEMMA ReloadKeeps ==
  ASSUME IInv, Reload
  PROVE  IInv'
<1>1. /\ phase = "frame" /\ nextupdate' = Never
      /\ events' = [i \in DOMAIN events |-> [events[i] EXCEPT !.warns = 0]]
      /\ UNCHANGED <<date, eventsToRun, phase, started, world, made, ran>>
  BY DEF Reload
<1>2. /\ date \in Nat /\ events \in Seq(UplinkEvent) /\ made \in Nat
      /\ Len(events) \in Nat /\ DOMAIN events = 1..Len(events)
      /\ \A i \in 1..Len(events) : events[i] \in UplinkEvent
  BY Types, QueueFacts
<1>3. ASSUME NEW x \in UplinkEvent, NEW y, y = [x EXCEPT !.warns = 0]
      PROVE  /\ y \in UplinkEvent /\ y.warns = 0 /\ y.id = x.id /\ y.due = x.due
             /\ y.rundate = x.rundate /\ y.period = x.period
  <2>1. 0 \in 0..MaxEvents
    BY Types
  <2> QED BY <1>3, <2>1 DEF UplinkEvent
<1>4. events' \in Seq(UplinkEvent) /\ Len(events') = Len(events)
  <2>1. events' \in [1..Len(events) -> UplinkEvent]
    BY <1>1, <1>2, <1>3
  <2> QED BY <1>2, <2>1
<1>5. ASSUME NEW i \in 1..Len(events)
      PROVE  /\ events'[i].warns = 0 /\ events'[i].id = events[i].id
             /\ events'[i].due = events[i].due /\ events'[i].rundate = events[i].rundate
             /\ events'[i].period = events[i].period
             /\ events[i].id >= 1 /\ events[i].id \in Nat /\ events[i] \in UplinkEvent
  <2>1. events'[i] = [events[i] EXCEPT !.warns = 0]
    BY <1>1, <1>2
  <2> QED BY <1>2, <1>3, <2>1, QueueFacts
<1>6. ASSUME NEW x, NEW i \in 1..Len(events), x.id # 0, MayPrecede(x, events[i], world)
      PROVE  MayPrecede(x, events'[i], world)
  BY <1>5, <1>6 DEF MayPrecede
<1>7. Fits(events, made)
  BY DEF IInv
<1>8. Chain(events', made, world)
  <2>1. ASSUME NEW i \in 1..Len(events') PROVE Known(events'[i], made)
    BY <1>2, <1>4, <1>5, <1>7 DEF Fits, Chain, Known
  <2>2. ASSUME NEW i \in 1..Len(events'), NEW j \in 1..Len(events'), i < j
        PROVE  MayPrecede(events'[i], events'[j], world)
    <3>1. MayPrecede(events[i], events[j], world)
      BY <1>4, <1>7, <2>2 DEF Fits, Chain
    <3> QED BY <1>4, <1>5, <3>1 DEF MayPrecede
  <2> QED BY <2>1, <2>2 DEF Chain
<1>9. PastLinked(events')
  <2>1. ASSUME NEW i \in 1..Len(ran), NEW j \in 1..Len(events')
        PROVE  MayPrecede(ran[i].event, events'[j], world)
    <3>1. MayPrecede(ran[i].event, events[j], world)
      BY <1>4, <1>7 DEF Fits, PastLinked
    <3>2. ran[i].event.id # 0
      <4>1. ran[i].event.id \in 1..MaxEvents
        BY Types
      <4> QED BY <4>1, Types
    <3> QED BY <1>4, <1>6, <3>1, <3>2
  <2> QED BY <2>1 DEF PastLinked
<1>10. Linked(eventsToRun, events', world)
  <2>1. eventsToRun = <<>> /\ Len(eventsToRun) = 0
    BY <1>1, EmptySeq DEF IInv, TypeOK
  <2> QED BY <2>1 DEF Linked
<1>11. ASSUME world = "loaded" PROVE Punctual(events', date, Floor', phase)
  <2>1. Floor' = date - 2 /\ Floor >= date - 2 /\ Floor \in Int
    BY <1>1, <1>11, FloorFacts DEF Floor
  <2>2. Punctual(events, date, Floor, phase)
    BY <1>7, <1>11 DEF Fits
  <2>3. ASSUME NEW i \in 1..Len(events')
        PROVE  /\ events'[i].due >= date - 2
               /\ events'[i].rundate = events'[i].due
                  \/ (phase = "frame" /\ i = 1 /\ events'[i].rundate < date)
    <3>1. events[i].due \in Nat /\ i \in 1..Len(events)
      BY <1>2, <1>4, QueueFacts
    <3> QED BY <1>2, <1>5, <2>1, <2>2, <3>1 DEF Punctual
  <2> QED BY <2>1, <2>3 DEF Punctual
<1>12. Fits(events, made)'
  <2>1. made \in 0..MaxEvents
    BY Types
  <2> QED BY <1>1, <1>4, <1>8, <1>9, <1>10, <1>11, <2>1 DEF Fits, PastLinked
<1>13. Chain(eventsToRun, made, world)' /\ PastLinked(eventsToRun)' /\ PastChain'
  BY <1>1 DEF IInv, PastLinked, PastChain
<1>14. TypeOK'
  BY <1>1, <1>4 DEF IInv, TypeOK
<1>15. (world = "loaded" => Timely)'
  BY <1>1 DEF IInv, Timely
<1> QED BY <1>1, <1>12, <1>13, <1>14, <1>15 DEF IInv

-----------------------------------------------------------------------------
(* Frames.                                                                 *)

LEMMA DueFacts ==
  ASSUME NEW q \in Seq(UplinkEvent), NEW now \in Nat
  PROVE  /\ Due(q, now) \in 0..Len(q)
         /\ \A i \in 1..Due(q, now) : now > q[i].rundate
         /\ Due(q, now) < Len(q) => now <= q[Due(q, now) + 1].rundate
<1> DEFINE S == {n \in 0..Len(q) : \A i \in 1..n : now > q[i].rundate}
           m == Max(S)
<1>1. Len(q) \in Nat /\ \A i \in 1..Len(q) : q[i].rundate \in Nat
  BY QueueFacts
<1>2. S \subseteq Nat /\ 0 \in S /\ \A x \in S : x <= Len(q)
  BY <1>1
<1>3. m \in S /\ \A x \in S : m >= x
  <2> HIDE DEF S
  <2>1. S # {}
    BY <1>2
  <2> QED BY <1>1, <1>2, <2>1, MaxExists
<1>4. m = Due(q, now)
  BY DEF Due
<1> HIDE DEF m
<1>5. m \in 0..Len(q) /\ \A i \in 1..m : now > q[i].rundate
  BY <1>3
<1>6. ASSUME m < Len(q) PROVE now <= q[m + 1].rundate
  <2>1. m \in Nat /\ m + 1 \in 1..Len(q) /\ m + 1 \in 0..Len(q)
    BY <1>1, <1>5, <1>6
  <2>2. m + 1 \notin S
    <3> HIDE DEF S
    <3> QED BY <1>3, <2>1
  <2>3. PICK i \in 1..(m + 1) : ~(now > q[i].rundate)
    BY <2>1, <2>2
  <2>4. i = m + 1
    BY <1>5, <2>1, <2>3
  <2> QED BY <1>1, <2>1, <2>3, <2>4
<1> QED BY <1>4, <1>5, <1>6

\* A clock and a queue that a Date::Update may leave.
MovedWell(q, now) ==
  /\ q \in Seq(UplinkEvent)
  /\ now \in Nat
  /\ Chain(q, made, world)
  /\ PastLinked(q)
  /\ world = "loaded" =>
       /\ now >= date
       /\ \A i \in 1..Len(q) :
            /\ q[i].due >= Floor
            /\ q[i].rundate = q[i].due \/ (i = 1 /\ q[i].rundate < now)
            /\ now > q[i].rundate => now - q[i].due \in 1..3

LEMMA QuietUpdateKeeps ==
  ASSUME IInv, phase = "frame", NEW moved, WorldUpdate(moved),
         MovedWell(moved.queue, moved.date), ~(moved.date > nextupdate)
  PROVE  IInv'
<1> DEFINE q == moved.queue
           now == moved.date
<1>1. /\ date' = now /\ events' = q /\ phase' \in {"frame", "leap"}
      /\ world = "loaded" => phase' = "frame"
      /\ UNCHANGED <<eventsToRun, nextupdate, started, world, made, ran>>
  BY DEF WorldUpdate, IInv, Timely
<1>2. eventsToRun = <<>> /\ Len(eventsToRun) = 0
  BY EmptySeq DEF IInv, TypeOK
<1>3. MovedWell(q, now) /\ ~(now > nextupdate)
  OBVIOUS
<1> HIDE DEF q, now
<1>4. now \in Nat /\ q \in Seq(UplinkEvent) /\ date \in Nat
  BY <1>3, Types DEF MovedWell
<1>5. nextupdate \in Nat /\ nextupdate # Never /\ now <= nextupdate
  BY <1>3, <1>4, Types DEF Never
<1>6. ASSUME world = "loaded"
      PROVE  Punctual(q, now, Floor', phase') /\ nextupdate - 2 <= now
  <2>1. /\ now >= date
        /\ \A i \in 1..Len(q) :
             /\ q[i].due >= Floor
             /\ q[i].rundate = q[i].due \/ (i = 1 /\ q[i].rundate < now)
    BY <1>3, <1>6 DEF MovedWell
  <2>2. Floor' = Floor /\ phase' = "frame"
    BY <1>1, <1>5, <1>6 DEF Floor
  <2>3. nextupdate - 2 <= date
    BY <1>5, <1>6 DEF IInv, Timely
  <2> QED BY <1>4, <1>5, <2>1, <2>2, <2>3 DEF Punctual
<1>7. Fits(events, made)'
  <2>1. Linked(eventsToRun, q, world)
    BY <1>2 DEF Linked
  <2>2. made \in 0..MaxEvents
    BY Types
  <2> QED BY <1>1, <1>3, <1>6, <2>1, <2>2 DEF MovedWell, Fits, PastLinked
<1>8. Chain(eventsToRun, made, world)' /\ PastLinked(eventsToRun)' /\ PastChain'
  BY <1>1 DEF IInv, PastLinked, PastChain
<1>9. TypeOK'
  BY <1>1, <1>2, <1>4 DEF IInv, TypeOK
<1>10. (world = "loaded" => Timely)'
  <2> SUFFICES ASSUME world = "loaded" PROVE Timely'
    BY <1>1
  <2>1. Timely /\ now >= date
    BY <1>3 DEF IInv, MovedWell
  <2>2. \A i \in 1..Len(ran) : ran[i].event.due < now
    BY <1>4, <2>1, Types DEF Timely
  <2> QED BY <1>1, <1>2, <1>5, <1>6, <2>1, <2>2 DEF Timely
<1> QED BY <1>1, <1>7, <1>8, <1>9, <1>10 DEF IInv

LEMMA UpdateKeeps ==
  ASSUME IInv, phase = "frame", NEW moved, WorldUpdate(moved),
         MovedWell(moved.queue, moved.date), moved.date > nextupdate
  PROVE  IInv'
<1> DEFINE q == moved.queue
           now == moved.date
           n == Due(q, now)
<1>1. /\ date' = now /\ phase' = "events"
      /\ eventsToRun' = SubSeq(q, 1, n) /\ events' = SubSeq(q, n + 1, Len(q))
      /\ UNCHANGED <<nextupdate, started, world, made, ran>>
  BY DEF WorldUpdate
<1>2. MovedWell(q, now)
  OBVIOUS
<1> HIDE DEF q, now
<1>3. /\ now \in Nat /\ q \in Seq(UplinkEvent) /\ date \in Nat /\ Len(q) \in Nat
      /\ \A i \in 1..Len(q) : q[i] \in UplinkEvent /\ q[i].due \in Nat /\ q[i].rundate \in Nat
  BY <1>2, Types, QueueFacts DEF MovedWell
<1>4. /\ n \in 0..Len(q) /\ n \in Nat
      /\ \A i \in 1..n : now > q[i].rundate
      /\ n < Len(q) => now <= q[n + 1].rundate
  <2>1. /\ Due(q, now) \in 0..Len(q)
        /\ \A i \in 1..Due(q, now) : now > q[i].rundate
        /\ Due(q, now) < Len(q) => now <= q[Due(q, now) + 1].rundate
    BY <1>3, DueFacts
  <2>2. n = Due(q, now)
    OBVIOUS
  <2> HIDE DEF n
  <2> QED BY <1>3, <2>1, <2>2
<1> HIDE DEF n
<1>5. /\ eventsToRun' \in Seq(UplinkEvent) /\ Len(eventsToRun') = n
      /\ \A i \in 1..n : eventsToRun'[i] = q[i]
  <2>1. \A i \in 1..n : q[i] \in UplinkEvent
    BY <1>3, <1>4
  <2>2. /\ SubSeq(q, 1, n) \in Seq(UplinkEvent)
        /\ Len(SubSeq(q, 1, n)) = IF 1 <= n THEN n - 1 + 1 ELSE 0
        /\ \A i \in 1..(n - 1 + 1) : SubSeq(q, 1, n)[i] = q[1 + i - 1]
    BY <1>4, <2>1, SubSeqProperties
  <2> QED BY <1>1, <1>4, <2>2
<1>6. /\ events' \in Seq(UplinkEvent) /\ Len(events') = Len(q) - n
      /\ \A i \in 1..(Len(q) - n) : events'[i] = q[n + i]
  <2>1. \A i \in (n + 1)..Len(q) : q[i] \in UplinkEvent
    BY <1>3, <1>4
  <2>2. /\ SubSeq(q, n + 1, Len(q)) \in Seq(UplinkEvent)
        /\ Len(SubSeq(q, n + 1, Len(q))) =
             IF n + 1 <= Len(q) THEN Len(q) - (n + 1) + 1 ELSE 0
        /\ \A i \in 1..(Len(q) - (n + 1) + 1) :
             SubSeq(q, n + 1, Len(q))[i] = q[n + 1 + i - 1]
    BY <1>3, <1>4, <2>1, SubSeqProperties
  <2> QED BY <1>1, <1>3, <1>4, <2>2
<1>7. ASSUME NEW i \in 1..Len(eventsToRun')
      PROVE  i \in 1..Len(q) /\ i \in 1..n /\ eventsToRun'[i] = q[i]
  BY <1>3, <1>4, <1>5
<1>8. ASSUME NEW i \in 1..Len(events')
      PROVE  n + i \in 1..Len(q) /\ n + i > n /\ events'[i] = q[n + i]
  BY <1>3, <1>4, <1>6
<1>9. /\ \A i \in 1..Len(q) : Known(q[i], made)
      /\ \A i, j \in 1..Len(q) : i < j => MayPrecede(q[i], q[j], world)
      /\ PastLinked(q)
  BY <1>2 DEF MovedWell, Chain
<1>10. Chain(eventsToRun', made, world) /\ PastLinked(eventsToRun')
  BY <1>7, <1>9 DEF Chain, PastLinked
<1>11. Chain(events', made, world) /\ PastLinked(events')
  <2>1. ASSUME NEW i \in 1..Len(events'), NEW j \in 1..Len(events'), i < j
        PROVE  MayPrecede(events'[i], events'[j], world)
    <3>1. n + i < n + j
      BY <1>4, <1>6, <2>1
    <3> QED BY <1>8, <1>9, <3>1
  <2> QED BY <1>8, <1>9, <2>1 DEF Chain, PastLinked
<1>12. Linked(eventsToRun', events', world)
  <2>1. ASSUME NEW i \in 1..Len(eventsToRun'), NEW j \in 1..Len(events')
        PROVE  MayPrecede(eventsToRun'[i], events'[j], world)
    <3>1. i < n + j
      BY <1>4, <1>7, <1>8
    <3> QED BY <1>7, <1>8, <1>9, <3>1
  <2> QED BY <2>1 DEF Linked
<1>13. ASSUME world = "loaded"
       PROVE  /\ Punctual(events', now, now, "events")
              /\ now >= date
              /\ \A i \in 1..Len(eventsToRun') : now - eventsToRun'[i].due \in 1..3
  <2>1. /\ now >= date
        /\ \A i \in 1..Len(q) :
             /\ q[i].rundate = q[i].due \/ (i = 1 /\ q[i].rundate < now)
             /\ now > q[i].rundate => now - q[i].due \in 1..3
    BY <1>2, <1>13 DEF MovedWell
  <2>2. ASSUME n < Len(q)
        PROVE  n + 1 \in 1..Len(q) /\ q[n + 1].rundate = q[n + 1].due /\ q[n + 1].due >= now
    <3>1. n + 1 \in 1..Len(q) /\ ~(q[n + 1].rundate < now)
      BY <1>3, <1>4, <2>2
    <3> QED BY <1>3, <1>4, <2>1, <2>2, <3>1
  <2>3. ASSUME NEW i \in 1..Len(events')
        PROVE  events'[i].due >= now /\ events'[i].rundate = events'[i].due
    <3>1. n < Len(q) /\ n + i \in 1..Len(q) /\ n + i >= n + 1
      BY <1>3, <1>4, <1>8
    <3>2. CASE n + i = n + 1
      BY <1>8, <2>2, <3>1, <3>2
    <3>3. CASE n + i > n + 1
      <4>1. MayPrecede(q[n + 1], q[n + i], world)
        BY <1>9, <2>2, <3>1, <3>3
      <4>2. q[n + 1].due <= q[n + i].due
        BY <1>3, <1>13, <2>2, <3>1, <4>1 DEF MayPrecede
      <4>3. n + i # 1
        BY <1>4, <3>3
      <4> QED BY <1>3, <1>8, <2>1, <2>2, <3>1, <4>2, <4>3
    <3> QED BY <3>1, <3>2, <3>3, <1>4
  <2>4. ASSUME NEW i \in 1..Len(eventsToRun') PROVE now - eventsToRun'[i].due \in 1..3
    BY <1>4, <1>7, <2>1
  <2> QED BY <2>1, <2>3, <2>4 DEF Punctual
<1>14. Fits(events, made)'
  <2>1. made \in 0..MaxEvents
    BY Types
  <2>2. Floor' = now
    BY <1>1 DEF Floor
  <2>3. PastLinked(events)'
    BY <1>1, <1>11 DEF PastLinked
  <2> QED BY <1>1, <1>6, <1>11, <1>12, <1>13, <2>1, <2>2, <2>3 DEF Fits
<1>15. Chain(eventsToRun, made, world)' /\ PastLinked(eventsToRun)' /\ PastChain'
  BY <1>1, <1>10 DEF IInv, PastLinked, PastChain
<1>16. TypeOK'
  BY <1>1, <1>3, <1>5, <1>6 DEF IInv, TypeOK
<1>17. (world = "loaded" => Timely)'
  <2> SUFFICES ASSUME world = "loaded" PROVE Timely'
    BY <1>1
  <2>1. Timely
    BY DEF IInv
  <2>2. \A i \in 1..Len(ran) : ran[i].event.due < now
    BY <1>3, <1>13, <2>1, Types DEF Timely
  <2> QED BY <1>1, <1>13, <2>1, <2>2 DEF Timely
<1> QED BY <1>1, <1>14, <1>15, <1>16, <1>17 DEF IInv

\* What the three speeds do starts from here.
LEMMA BeforeFrame ==
  ASSUME IInv, phase = "frame"
  PROVE  /\ events \in Seq(UplinkEvent) /\ date \in Nat /\ Len(events) \in Nat
         /\ Chain(events, made, world) /\ PastLinked(events)
         /\ \A i \in 1..Len(events) :
              /\ events[i].due \in Nat /\ events[i].rundate \in Nat
              /\ events[i].due <= events[i].rundate
         /\ Floor \in Int
         /\ world = "loaded" =>
              /\ Floor <= date /\ Floor >= date - 2
              /\ \A i \in 1..Len(events) :
                   /\ events[i].due >= Floor
                   /\ \/ events[i].rundate = events[i].due
                      \/ i = 1 /\ events[i].rundate < date
<1>1. Fits(events, made)
  BY DEF IInv
<1>2. events \in Seq(UplinkEvent) /\ Chain(events, made, world) /\ PastLinked(events)
  BY <1>1 DEF Fits
<1>3. \A i \in 1..Len(events) : events[i].due <= events[i].rundate
  BY <1>2 DEF Chain, Known
<1>4. world = "loaded" => Punctual(events, date, Floor, "frame")
  BY <1>1 DEF Fits
<1> QED BY <1>2, <1>3, <1>4, Types, QueueFacts, FloorFacts DEF Punctual

\* A frame that moves the clock by a second at most.
LEMMA SlowWell ==
  ASSUME IInv, phase = "frame", NEW now \in {date, date + 1}
  PROVE  MovedWell(events, now)
<1>1. now \in Nat /\ now >= date /\ now <= date + 1
  BY Types
<1>2. ASSUME world = "loaded", NEW i \in 1..Len(events)
      PROVE  /\ events[i].due >= Floor
             /\ events[i].rundate = events[i].due \/ (i = 1 /\ events[i].rundate < now)
             /\ now > events[i].rundate => now - events[i].due \in 1..3
  <2>1. /\ Floor \in Int /\ Floor >= date - 2 /\ date \in Nat
        /\ events[i].due \in Nat /\ events[i].rundate \in Nat
        /\ events[i].due <= events[i].rundate /\ events[i].due >= Floor
        /\ events[i].rundate = events[i].due \/ (i = 1 /\ events[i].rundate < date)
    BY <1>2, BeforeFrame
  <2>2. ASSUME now > events[i].rundate PROVE now - events[i].due \in 1..3
    <3>1. now - events[i].due >= 1 /\ now - events[i].due <= 3
      BY <1>1, <2>1, <2>2
    <3> QED BY <1>1, <2>1, <3>1
  <2> QED BY <1>1, <2>1, <2>2
<1> QED BY <1>1, <1>2, BeforeFrame DEF MovedWell

\* A fast frame that meets no event.
LEMMA FreeWell ==
  ASSUME IInv, phase = "frame", NEW step \in Nat,
         events # <<>> => ~(events[1].rundate < date + step)
  PROVE  MovedWell(events, date + step)
<1>1. date + step \in Nat /\ date + step >= date /\ date \in Nat
  BY Types
<1>2. ASSUME world = "loaded", NEW i \in 1..Len(events)
      PROVE  /\ events[i].due >= Floor
             /\ events[i].rundate = events[i].due
             /\ ~(date + step > events[i].rundate)
  <2>1. /\ 1 \in 1..Len(events) /\ events # <<>>
        /\ events[1].due \in Nat /\ events[i].due \in Nat
        /\ events[1].rundate \in Nat /\ events[i].rundate \in Nat
    BY <1>2, BeforeFrame, EmptySeq
  <2>2. ~(events[1].rundate < date + step)
    BY <2>1
  <2>3. events[1].rundate = events[1].due
    <3>1. ~(events[1].rundate < date)
      BY <1>1, <2>1, <2>2
    <3> QED BY <1>2, <2>1, <3>1, BeforeFrame
  <2>4. CASE i = 1
    BY <1>2, <2>2, <2>3, <2>4, <1>1, BeforeFrame
  <2>5. CASE i # 1
    <3>1. MayPrecede(events[1], events[i], world)
      BY <1>2, <2>1, <2>5, BeforeFrame DEF Chain
    <3>2. events[1].due <= events[i].due
      BY <1>2, <2>1, <3>1 DEF MayPrecede
    <3>3. events[i].rundate = events[i].due /\ events[i].due >= Floor
      BY <1>2, <2>5, BeforeFrame
    <3> QED BY <1>1, <2>1, <2>2, <2>3, <3>2, <3>3
  <2> QED BY <2>4, <2>5
<1> QED BY <1>1, <1>2, BeforeFrame DEF MovedWell

LEMMA Postponed ==
  ASSUME NEW y \in UplinkEvent, NEW x, x = [y EXCEPT !.rundate = @ + 1]
  PROVE  /\ x \in UplinkEvent /\ x.rundate = y.rundate + 1 /\ x.due = y.due
         /\ x.id = y.id /\ x.warns = y.warns /\ x.period = y.period
<1>1. y.rundate + 1 \in Nat
  BY DEF UplinkEvent
<1> DEFINE n == y.rundate + 1
<1>2. x = [y EXCEPT !.rundate = n] /\ n \in Nat
  BY <1>1
<1> HIDE DEF n
<1>3. /\ x \in UplinkEvent /\ x.rundate = n /\ x.due = y.due
      /\ x.id = y.id /\ x.warns = y.warns /\ x.period = y.period
  BY <1>2 DEF UplinkEvent
<1> QED BY <1>3 DEF n

\* A fast frame that stops at the next event.
LEMMA StoppedWell ==
  ASSUME IInv, phase = "frame", events # <<>>,
         NEW q, q = [events EXCEPT ![1].rundate = @ + 1]
  PROVE  MovedWell(q, events[1].rundate + 2)
<1> DEFINE now == events[1].rundate + 2
           x == [events[1] EXCEPT !.rundate = @ + 1]
<1>1. /\ 1 \in 1..Len(events) /\ Len(events) \in Nat /\ events \in Seq(UplinkEvent)
      /\ events[1] \in UplinkEvent /\ events[1].rundate \in Nat /\ events[1].due \in Nat
      /\ events[1].due <= events[1].rundate
  <2>1. events \in Seq(UplinkEvent) /\ 1 \in 1..Len(events)
    BY BeforeFrame, EmptySeq
  <2> QED BY <2>1, BeforeFrame, QueueFacts
<1>2. /\ x \in UplinkEvent /\ x.rundate = events[1].rundate + 1 /\ x.due = events[1].due
      /\ x.id = events[1].id /\ x.warns = events[1].warns /\ x.period = events[1].period
  BY <1>1, Postponed
<1>3. q = [events EXCEPT ![1] = x]
  OBVIOUS
<1> HIDE DEF x
<1>4. /\ q \in Seq(UplinkEvent) /\ Len(q) = Len(events) /\ q[1] = x
      /\ \A i \in 1..Len(events) : i # 1 => q[i] = events[i]
  BY <1>1, <1>2, <1>3, ExceptSeq
<1>5. ASSUME NEW i \in 1..Len(q)
      PROVE  /\ q[i].due = events[i].due /\ q[i].id = events[i].id
             /\ q[i].warns = events[i].warns /\ q[i].period = events[i].period
             /\ i \in 1..Len(events)
  BY <1>2, <1>4
<1>6. ASSUME NEW i \in 1..Len(q) PROVE Known(q[i], made)
  <2>1. Known(events[i], made)
    BY <1>5, BeforeFrame DEF Chain
  <2>2. q[i].due <= q[i].rundate
    BY <1>1, <1>2, <1>4, <2>1 DEF Known
  <2> QED BY <1>5, <2>1, <2>2 DEF Known
<1>7. Chain(q, made, world)
  <2>1. ASSUME NEW i \in 1..Len(q), NEW j \in 1..Len(q), i < j
        PROVE  MayPrecede(q[i], q[j], world)
    <3>1. MayPrecede(events[i], events[j], world)
      BY <1>4, <2>1, BeforeFrame DEF Chain
    <3> QED BY <1>5, <3>1 DEF MayPrecede
  <2> QED BY <1>6, <2>1 DEF Chain
<1>8. PastLinked(q)
  <2>1. ASSUME NEW i \in 1..Len(ran), NEW j \in 1..Len(q)
        PROVE  MayPrecede(ran[i].event, q[j], world)
    <3>1. MayPrecede(ran[i].event, events[j], world)
      BY <1>4, BeforeFrame DEF PastLinked
    <3> QED BY <1>5, <3>1 DEF MayPrecede
  <2> QED BY <2>1 DEF PastLinked
<1>9. now \in Nat
  BY <1>1
<1>10. ASSUME world = "loaded"
       PROVE  /\ now >= date
              /\ \A i \in 1..Len(q) :
                   /\ q[i].due >= Floor
                   /\ q[i].rundate = q[i].due \/ (i = 1 /\ q[i].rundate < now)
                   /\ now > q[i].rundate => now - q[i].due \in 1..3
  <2>1. /\ Floor \in Int /\ Floor >= date - 2 /\ date \in Nat
        /\ events[1].due >= Floor
        /\ events[1].rundate = events[1].due \/ events[1].rundate < date
    BY <1>1, <1>10, BeforeFrame
  <2>2. now >= date
    BY <1>1, <2>1
  <2>3. now - events[1].due \in 1..3
    BY <1>1, <2>1
  <2>4. ASSUME NEW i \in 1..Len(q)
        PROVE  /\ q[i].due >= Floor
               /\ q[i].rundate = q[i].due \/ (i = 1 /\ q[i].rundate < now)
               /\ now > q[i].rundate => now - q[i].due \in 1..3
    <3>1. CASE i = 1
      BY <1>1, <1>2, <1>4, <2>1, <2>3, <3>1
    <3>2. CASE i # 1
      <4>1. /\ q[i] = events[i] /\ i \in 1..Len(events) /\ events[i].due \in Nat
            /\ events[i].rundate = events[i].due /\ events[i].due >= Floor
        BY <1>4, <1>10, <3>2, BeforeFrame
      <4>2. events[1].due <= events[i].due
        <5>1. MayPrecede(events[1], events[i], world)
          <6>1. 1 < i
            BY <1>1, <3>2, <4>1
          <6> QED BY <1>1, <4>1, <6>1, BeforeFrame DEF Chain
        <5> QED BY <1>1, <1>10, <4>1, <5>1 DEF MayPrecede
      <4>3. now > events[i].due => now - events[i].due \in 1..3
        <5> HIDE DEF now
        <5>1. /\ now \in Nat /\ events[1].due \in Nat /\ events[i].due \in Nat
              /\ now - events[1].due <= 3
          BY <1>1, <1>9, <2>3, <4>1
        <5>2. ASSUME now > events[i].due
              PROVE  now - events[i].due >= 1 /\ now - events[i].due <= 3
          BY <4>2, <5>1, <5>2
        <5> QED BY <5>1, <5>2
      <4> QED BY <4>1, <4>3
    <3> QED BY <3>1, <3>2
  <2> QED BY <2>2, <2>4
<1> QED BY <1>4, <1>7, <1>8, <1>9, <1>10 DEF MovedWell

\* A frame is an update of World on a clock and a queue moved well.
LEMMA FrameMoves ==
  ASSUME IInv, Frame
  PROVE  \E moved : WorldUpdate(moved) /\ MovedWell(moved.queue, moved.date)
<1>1. phase = "frame"
  BY DEF Frame
<1>2. CASE WorldUpdate(TooEarly)
  <2>1. MovedWell(TooEarly.queue, TooEarly.date)
    BY <1>1, SlowWell DEF TooEarly
  <2> QED BY <1>2, <2>1
<1>3. CASE WorldUpdate(OneSecond)
  <2>1. MovedWell(OneSecond.queue, OneSecond.date)
    BY <1>1, SlowWell DEF OneSecond
  <2> QED BY <1>3, <2>1
<1>4. ASSUME NEW step \in FastSteps, WorldUpdate(FastForward(step))
      PROVE  \E moved : WorldUpdate(moved) /\ MovedWell(moved.queue, moved.date)
  <2>1. step \in Nat
    BY ConstantsAssumption
  <2>2. CASE events # <<>> /\ events[1].rundate < date + step
    <3> DEFINE q == [events EXCEPT ![1].rundate = @ + 1]
    <3>1. MovedWell(q, events[1].rundate + 2)
      BY <1>1, <2>2, StoppedWell
    <3>2. FastForward(step).queue = q /\ FastForward(step).date = events[1].rundate + 2
      BY <2>2 DEF FastForward
    <3> QED BY <1>4, <3>1, <3>2
  <2>3. CASE ~(events # <<>> /\ events[1].rundate < date + step)
    <3>1. MovedWell(events, date + step)
      BY <1>1, <2>1, <2>3, FreeWell
    <3>2. FastForward(step).queue = events /\ FastForward(step).date = date + step
      BY <2>3 DEF FastForward
    <3> QED BY <1>4, <3>1, <3>2
  <2> QED BY <2>2, <2>3
<1> QED BY <1>2, <1>3, <1>4 DEF Frame

LEMMA FrameKeeps ==
  ASSUME IInv, Frame
  PROVE  IInv'
<1>1. phase = "frame"
  BY DEF Frame
<1>2. PICK moved : WorldUpdate(moved) /\ MovedWell(moved.queue, moved.date)
  BY FrameMoves
<1>3. CASE moved.date > nextupdate
  BY <1>1, <1>2, <1>3, UpdateKeeps
<1>4. CASE ~(moved.date > nextupdate)
  BY <1>1, <1>2, <1>4, QuietUpdateKeeps
<1> QED BY <1>3, <1>4

LEMMA StepKeeps == IInv /\ [Next]_vars => IInv'
<1> SUFFICES ASSUME IInv, [Next]_vars PROVE IInv'
  OBVIOUS
<1>1. CASE ScheduleStartingEvent
  BY <1>1, StartingKeeps
<1>2. CASE Frame
  BY <1>2, FrameKeeps
<1>3. CASE RunEvent
  BY <1>3, RunEventKeeps
<1>4. CASE EndUpdate
  BY <1>4, EndUpdateKeeps
<1>5. CASE Leap
  BY <1>5, LeapKeeps
<1>6. ASSUME NEW delay \in Delays, ScheduleOne(delay) PROVE IInv'
  BY <1>6, ScheduleOneKeeps
<1>7. ASSUME NEW w \in Warned, ScheduleWarned(w[1], w[2]) PROVE IInv'
  BY <1>7, ScheduleWarnedKeeps
<1>8. ASSUME NEW w \in Warned, ScheduleThenWarn(w[1], w[2]) PROVE IInv'
  BY <1>8, ScheduleThenWarnKeeps
<1>9. CASE Reload
  BY <1>9, ReloadKeeps
<1>10. CASE UNCHANGED vars
  BY <1>10 DEF vars, IInv, TypeOK, Fits, PastLinked, PastChain, Floor, Timely
<1> QED BY <1>1, <1>2, <1>3, <1>4, <1>5, <1>6, <1>7, <1>8, <1>9, <1>10 DEF Next

-----------------------------------------------------------------------------
(* The theorems.                                                           *)

\* Every reachable state of the clock and the queue satisfies the invariant.
THEOREM Invariance == Spec => []IInv
<1> QED BY InitEstablishes, StepKeeps, PTL DEF Spec

\* The variables keep their types, and an update ends with all of its events run.
THEOREM TypeCorrect == Spec => []TypeOK
<1>1. IInv => TypeOK
  BY DEF IInv
<1> QED BY <1>1, Invariance, PTL

\* Date::Update carries the clock past no event, at any speed: in a loaded world each
\* event runs one to three seconds after the date it was given.
THEOREM EventsOnTime == Spec => []OnTime
<1>1. IInv => OnTime
  <2> SUFFICES ASSUME IInv PROVE OnTime
    OBVIOUS
  <2> QED BY Types DEF IInv, Timely, OnTime
<1> QED BY <1>1, Invariance, PTL

\* EventScheduler runs the events of a loaded world in the order of their dates, and
\* those of one date in the order in which they were scheduled.
THEOREM EventsInOrder == Spec => []InDueOrder
<1>1. IInv => InDueOrder
  <2> SUFFICES ASSUME IInv, world = "loaded", NEW i \in DOMAIN ran, NEW j \in DOMAIN ran,
                      i < j
               PROVE  \/ ran[i].event.due < ran[j].event.due
                      \/ /\ ran[i].event.due = ran[j].event.due
                         /\ ran[i].event.id < ran[j].event.id
    BY DEF InDueOrder
  <2>1. MayPrecede(ran[i].event, ran[j].event, world)
    BY Types DEF IInv, PastChain
  <2> QED BY <2>1 DEF MayPrecede
<1> QED BY <1>1, Invariance, PTL

\* A WarningEvent never outlives the event that it points to, in a new world either.
THEOREM WarningsFirst == Spec => []NoDanglingWarning
<1>1. IInv => NoDanglingWarning
  <2> SUFFICES ASSUME IInv, NEW i \in DOMAIN ran, NEW j \in DOMAIN ran,
                      ran[i].event.warns = ran[j].event.id
               PROVE  i < j
    BY DEF NoDanglingWarning
  <2>1. i \in 1..Len(ran) /\ j \in 1..Len(ran) /\ Len(ran) \in Nat
    BY Types
  <2>2. i # j
    BY <2>1 DEF IInv, PastChain, Known
  <2>3. ~(j < i)
    BY <2>1 DEF IInv, PastChain, MayPrecede
  <2> QED BY <2>1, <2>2, <2>3
<1> QED BY <1>1, Invariance, PTL

\* No frame of a loaded world turns the clock back, although a fast one sets it from the
\* run date of an event that may be past.
THEOREM ClockNeverBack == Spec => ClockForward
<1>1. IInv /\ [Next]_vars => [world = "loaded" => date' >= date]_date
  <2> SUFFICES ASSUME IInv, Next, world = "loaded", date' # date PROVE date' >= date
    BY DEF vars
  <2>1. CASE Frame
    <3>1. PICK moved : WorldUpdate(moved) /\ MovedWell(moved.queue, moved.date)
      BY <2>1, FrameMoves
    <3> QED BY <3>1 DEF WorldUpdate, MovedWell
  <2>2. CASE Leap
    BY <2>2 DEF IInv, Timely, Leap
  <2>3. CASE ~Frame /\ ~Leap
    BY <2>3 DEF Next, ScheduleStartingEvent, RunEvent, EndUpdate, ScheduleOne,
                ScheduleWarned, ScheduleThenWarn, Reload
  <2> QED BY <2>1, <2>2, <2>3
<1> QED BY <1>1, Invariance, PTL DEF Spec, ClockForward
=============================================================================
