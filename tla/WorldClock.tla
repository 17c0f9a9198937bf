----------------------------- MODULE WorldClock -----------------------------
(***************************************************************************)
(* The clock of the single-player world and the queue of events that it    *)
(* drives: Date::Update (src/uplink/src/world/date.cpp), World::Update     *)
(* (src/uplink/src/world/world.cpp), EventScheduler                        *)
(* (src/uplink/src/world/scheduler) and the loop of Game::NewGame that     *)
(* lives through the first month (src/uplink/src/game/game.cpp).           *)
(*                                                                         *)
(* A date is a count of seconds (DateProofs shows that the fields are one),*)
(* from the start of the world.  One frame of the game moves the date and, *)
(* when the date is past nextupdate, takes the due events off the queue;   *)
(* they run one after the other, and may schedule more, before the next    *)
(* frame.  A pause is a frame that does not come.                          *)
(***************************************************************************)
EXTENDS Integers, Sequences, SequencesExt, FiniteSetsExt

CONSTANTS
  FastSteps,  (* seconds in a frame of each of the fast speeds             *)
  Delays,     (* from now to the due date of an event without a warning    *)
  Warned,     (* pairs <<delay, lead>> of an event and its warning         *)
  Periods,    (* of the notifications scheduled when the world is made     *)
  Firsts,     (* when they are first due in a new world                    *)
  Leaps,      (* what one turn of the loop of NewGame adds to the date     *)
  GameStart,  (* GAME_START_DATE                                           *)
  Worlds,     (* which worlds to start with: "new", "loaded"               *)
  MaxEvents,  (* bound on the events ever scheduled                        *)
  LastDate    (* bound: after it nothing is scheduled and, once nothing is *)
              (* left, no frame comes                                      *)

ASSUME ConstantsAssumption ==
  /\ FastSteps \subseteq Nat /\ Delays \subseteq Nat /\ Leaps \subseteq Nat
  /\ \A w \in Warned : w[1] \in Nat /\ w[2] \in 1..w[1]
  /\ Periods \in Seq(Nat) /\ Len(Periods) <= MaxEvents
  /\ \A i \in DOMAIN Periods : Periods[i] >= 3
  /\ Firsts \subseteq Nat
  /\ GameStart \in Nat /\ Worlds \subseteq {"new", "loaded"}
  /\ MaxEvents \in Nat /\ LastDate \in Nat

VARIABLES
  date,        (* World::date                                              *)
  nextupdate,  (* World::nextupdate                                        *)
  events,      (* EventScheduler::events                                   *)
  eventsToRun, (* EventScheduler::Update: taken off events, not run yet    *)
  phase,       (* what the program does next: schedule notifications at    *)
               (* the "start", a "frame", the rest of the "events" of this *)
               (* one, the "leap" of the loop of NewGame                   *)
  started,     (* whether that loop is over                                *)
  world,       (* history: whether it began "new" or "loaded"              *)
  made,        (* history: the events scheduled so far                     *)
  ran          (* history: the events run, with the date at which          *)

vars == <<date, nextupdate, events, eventsToRun, phase, started, world, made, ran>>

\* What nextupdate is when the world is made or loaded: a date of year 1000.
Never == -1

\* period is 0 unless the event schedules its successor; warns is 0 unless it
\* is a WarningEvent, which points to the event of that number.  due is
\* history: the run date that the event was given.
UplinkEvent ==
  [id: 1..MaxEvents, rundate: Nat, due: Nat, period: Nat, warns: 0..MaxEvents]

Event(id, rundate, period, warns) ==
  [id |-> id, rundate |-> rundate, due |-> rundate, period |-> period, warns |-> warns]

-----------------------------------------------------------------------------
(* The operators that the actions are built from.                          *)

\* Mutant: an event goes in front of those with its own run date.
ScheduleInFront(queue, event) ==
  LET later == {i \in DOMAIN queue : event.rundate <= queue[i].rundate}
  IN IF later = {} THEN Append(queue, event) ELSE InsertAt(queue, Min(later), event)

\* Mutant: every event goes to the back of the queue.
ScheduleAtEnd(queue, event) == Append(queue, event)

ScheduleEvent(queue, event) ==
  LET later == {i \in DOMAIN queue : event.rundate < queue[i].rundate}
  IN IF later = {} THEN Append(queue, event) ELSE InsertAt(queue, Min(later), event)

\* How many events EventScheduler::Update takes off: those before the first
\* one that is not past.
Due(queue, now) ==
  Max({n \in 0..Len(queue) : \A i \in 1..n : now > queue[i].rundate})

\* The clock and the queue after a Date::Update: when less time has gone by than
\* a frame takes, which is never so in the first frame of a world, when
\* previousupdate is 0; at normal speed; and at one of the fast speeds.
TooEarly == [date |-> date, queue |-> events]
OneSecond == [date |-> date + 1, queue |-> events]

\* Mutant: a fast frame does not look at the queue.
FastForwardBlind(step) == [date |-> date + step, queue |-> events]

\* A fast frame stops at the next event: two seconds after its run date, which
\* it moves by one.
FastForward(step) ==
  IF events # <<>> /\ events[1].rundate < date + step
  THEN [date  |-> events[1].rundate + 2,
        queue |-> [events EXCEPT ![1].rundate = @ + 1]]
  ELSE [date |-> date + step, queue |-> events]

-----------------------------------------------------------------------------
(* Init: the clock of a world just made, or of one just loaded.            *)

Init ==
  /\ world \in Worlds
  /\ date = 0
  /\ nextupdate = Never
  /\ events = <<>>
  /\ eventsToRun = <<>>
  /\ phase = IF Periods = <<>> THEN "frame" ELSE "start"
  /\ started = (world = "loaded")
  /\ made = 0
  /\ ran = <<>>

\* The notifications, one after the other: in a new world most are due at once
\* (the monthly ones later), in a loaded one nothing is overdue.
ScheduleStartingEvent ==
  /\ phase = "start"
  /\ LET period == Periods[made + 1]
     IN \E rundate \in IF world = "new" THEN Firsts ELSE {period} :
          events' = ScheduleEvent(events, Event(made + 1, rundate, period, 0))
  /\ made' = made + 1
  /\ phase' = IF made + 1 = Len(Periods) THEN "frame" ELSE "start"
  /\ UNCHANGED <<date, nextupdate, eventsToRun, started, world, ran>>

-----------------------------------------------------------------------------
(* The game loop.                                                          *)

\* World::Update on a clock moved by Date::Update: take the due events off.
WorldUpdate(moved) ==
  /\ date' = moved.date
  /\ IF moved.date > nextupdate
     THEN LET due == Due(moved.queue, moved.date)
          IN /\ eventsToRun' = SubSeq(moved.queue, 1, due)
             /\ events' = SubSeq(moved.queue, due + 1, Len(moved.queue))
             /\ phase' = "events"
     ELSE /\ events' = moved.queue
          /\ phase' = IF started THEN "frame" ELSE "leap"
          /\ UNCHANGED eventsToRun
  /\ UNCHANGED <<nextupdate, started, world, made, ran>>

Frame ==
  /\ phase = "frame"
  /\ date <= LastDate \/ events # <<>>
  /\ \/ nextupdate # Never /\ WorldUpdate(TooEarly)
     \/ WorldUpdate(OneSecond)
     \/ started /\ \E step \in FastSteps : WorldUpdate(FastForward(step))

\* Mutant: only the first event of the list is run, and the list goes out of
\* scope.
RunFirstOnly ==
  /\ phase = "events"
  /\ eventsToRun # <<>>
  /\ ran' = Append(ran, [event |-> Head(eventsToRun), at |-> date])
  /\ eventsToRun' = <<>>
  /\ UNCHANGED <<date, nextupdate, events, phase, started, world, made>>

\* UplinkEvent::Run of the first: a notification schedules its successor
\* from its own run date.
RunEvent ==
  /\ phase = "events"
  /\ eventsToRun # <<>>
  /\ LET event == Head(eventsToRun)
     IN /\ ran' = Append(ran, [event |-> event, at |-> date])
        /\ IF event.period > 0 /\ made < MaxEvents
           THEN /\ events' = ScheduleEvent(events,
                     Event(made + 1, event.rundate + event.period, event.period, 0))
                /\ made' = made + 1
           ELSE UNCHANGED <<events, made>>
  /\ eventsToRun' = Tail(eventsToRun)
  /\ UNCHANGED <<date, nextupdate, phase, started, world>>

\* Mutant: the next update is a second later.
EndUpdateLater ==
  /\ phase = "events"
  /\ eventsToRun = <<>>
  /\ nextupdate' = date + 3
  /\ phase' = IF started THEN "frame" ELSE "leap"
  /\ UNCHANGED <<date, events, eventsToRun, started, world, made, ran>>

EndUpdate ==
  /\ phase = "events"
  /\ eventsToRun = <<>>
  /\ nextupdate' = date + 2
  /\ phase' = IF started THEN "frame" ELSE "leap"
  /\ UNCHANGED <<date, events, eventsToRun, started, world, made, ran>>

\* The rest of one turn of the loop of NewGame.
Leap ==
  /\ phase = "leap"
  /\ \E step \in Leaps :
       /\ date' = date + step
       /\ started' = (date + step >= GameStart)
  /\ phase' = "frame"
  /\ UNCHANGED <<nextupdate, events, eventsToRun, world, made, ran>>

-----------------------------------------------------------------------------
(* What schedules and what ends a game.                                    *)

\* The player acts between frames, and the events that run act in them.
MaySchedule == phase = "events" \/ (phase = "frame" /\ started)

\* A plot scene, a robbery, a new gateway.
ScheduleOne(delay) ==
  /\ MaySchedule /\ date <= LastDate /\ made < MaxEvents
  /\ events' = ScheduleEvent(events, Event(made + 1, date + delay, 0, 0))
  /\ made' = made + 1
  /\ UNCHANGED <<date, nextupdate, eventsToRun, phase, started, world, ran>>

\* An arrest, a seizure, hardware: the warning first, then the event.
ScheduleWarned(delay, lead) ==
  /\ MaySchedule /\ date <= LastDate /\ made + 2 <= MaxEvents
  /\ LET warning == Event(made + 1, date + delay - lead, 0, made + 2)
         event   == Event(made + 2, date + delay, 0, 0)
     IN events' = ScheduleEvent(ScheduleEvent(events, warning), event)
  /\ made' = made + 2
  /\ UNCHANGED <<date, nextupdate, eventsToRun, phase, started, world, ran>>

\* CriminalScreenInterface schedules the event first, then its warning.
ScheduleThenWarn(delay, lead) ==
  /\ MaySchedule /\ date <= LastDate /\ made + 2 <= MaxEvents
  /\ LET event   == Event(made + 1, date + delay, 0, 0)
         warning == Event(made + 2, date + delay - lead, 0, made + 1)
     IN events' = ScheduleEvent(ScheduleEvent(events, event), warning)
  /\ made' = made + 2
  /\ UNCHANGED <<date, nextupdate, eventsToRun, phase, started, world, ran>>

\* The game is saved, ended and loaded again: nextupdate is not saved, and a
\* warning is saved and loaded with a copy of its event.
Reload ==
  /\ phase = "frame" /\ started
  /\ nextupdate' = Never
  /\ events' = [i \in DOMAIN events |-> [events[i] EXCEPT !.warns = 0]]
  /\ UNCHANGED <<date, eventsToRun, phase, started, world, made, ran>>

-----------------------------------------------------------------------------

Step == ScheduleStartingEvent \/ Frame \/ RunEvent \/ EndUpdate \/ Leap

Next ==
  \/ ScheduleStartingEvent
  \/ Frame
  \/ RunEvent
  \/ EndUpdate
  \/ Leap
  \/ \E delay \in Delays : ScheduleOne(delay)
  \/ \E w \in Warned : ScheduleWarned(w[1], w[2]) \/ ScheduleThenWarn(w[1], w[2])
  \/ Reload

Spec == Init /\ [][Next]_vars

\* The main loop runs, unpaused, and wall-clock time passes in it.
FairSpec == Spec /\ WF_vars(Step)

-----------------------------------------------------------------------------
(* Properties.  Those about the dates are promised to a world in which      *)
(* nothing is overdue when it is loaded; the loop of NewGame breaks them.  *)

\* Types, and the end of an update with no event left to run.
TypeOK ==
  /\ date \in Nat
  /\ nextupdate \in Nat \cup {Never}
  /\ events \in Seq(UplinkEvent)
  /\ eventsToRun \in Seq(UplinkEvent)
  /\ phase \in {"start", "frame", "events", "leap"}
  /\ started \in BOOLEAN
  /\ world \in Worlds
  /\ made \in 0..MaxEvents
  /\ ran \in Seq([event: UplinkEvent, at: Nat])
  /\ phase # "events" => eventsToRun = <<>>

\* The clock never goes back, although a fast frame sets it from the run date
\* of an event that may be past, and World::Update may have had no turn since.
ClockForward == [][world = "loaded" => date' >= date]_date

\* No speed carries the clock past an event: each runs after its due date, and
\* at most three seconds after it.
OnTime ==
  world = "loaded" => \A i \in DOMAIN ran : ran[i].at - ran[i].event.due \in 1..3

\* Events run in the order of the dates they were given, and those of one date
\* in the order they were scheduled in, however often fast frames moved the
\* first of the queue.
InDueOrder ==
  world = "loaded" =>
    \A i, j \in DOMAIN ran :
      i < j => \/ ran[i].event.due < ran[j].event.due
               \/ /\ ran[i].event.due = ran[j].event.due
                  /\ ran[i].event.id < ran[j].event.id

\* A warning has run before its event runs and is deleted: it keeps a pointer.
NoDanglingWarning ==
  \A i, j \in DOMAIN ran :
    ran[i].event.warns = ran[j].event.id => i < j

\* Every event scheduled runs in the end, whatever is scheduled before it.
AllRun ==
  \A n \in 1..MaxEvents :
    made >= n ~> \E i \in DOMAIN ran : ran[i].event.id = n

=============================================================================
