------------------------------ MODULE LogTools ------------------------------
(***************************************************************************)
(* One computer of the game, the player who works on its access logs, and  *)
(* everybody else who touches them.                                        *)
(*                                                                         *)
(* The player's programs (src/uplink/src/interface/taskmanager: LogDeleter *)
(* 1 to 4, LogUnDeleter, LogModifier) are ticked every frame and take many *)
(* frames for a log; several may run at once.  Between two frames the      *)
(* world goes on: connections leave logs, the events of the scheduler look *)
(* for suspicious logs and expire old ones, agents investigate.  All of it *)
(* runs on one thread, so an action is one tick of one program or one call *)
(* of the world.                                                           *)
(*                                                                         *)
(* How many ticks a program needs is left open, and so is which events run *)
(* in between.  LogDeleter 2 differs from 1 in the address it leaves only. *)
(* LogModifier's state CREATING is left out: SetTarget enters it for a     *)
(* blank slot, inside an if that lets only used slots through.             *)
(***************************************************************************)
EXTENDS LogBank

CONSTANTS
  Tasks,       (* as many programs as the gateway's memory holds           *)
  MaxEntries,  (* a bound on the logs ever made                            *)
  MaxTargets,  (* a bound on the logs, or banks, the player sets about     *)
  Routes,      (* where the player's connections come from                 *)
  Forgeries,   (* what LogModifier may write: pairs of a type and a source *)
  NoTask       (* an idle or closed program                                *)

ASSUME ConstantsAssumption ==
  /\ MaxEntries \in Nat
  /\ MaxTargets \in Nat
  /\ Dates = 0..MaxEntries
  /\ Routes \subseteq FromIps
  /\ Forgeries \subseteq LogTypes \X FromIps
  /\ NoTask \notin [tool: STRING, status: STRING, index: Nat]
  /\ Unused \notin AccessLog

VARIABLES
  bank,       (* the computer's logbank                                    *)
  isrunning,  (* whether the computer runs                                 *)
  fromip,     (* where the player is connected from; "none" if he is not   *)
  task,       (* the programs at work on this logbank                      *)
  made,       (* how many logs AddLog has made; also the date, which moves *)
              (* with them only                                            *)
  aged,       (* logs dated up to here are more than five minutes old      *)
  checked,    (* the date of the last CheckForSecurityBreaches             *)
  owed,       (* history: how often Disconnect marked an entry, less how   *)
              (* often ComputerHacked was called for it                    *)
  targets,    (* how many logs the player has set about                    *)
  wild        (* a program has written through a log that is gone          *)

vars == <<bank, isrunning, fromip, task, made, aged, checked, owed, targets, wild>>

-----------------------------------------------------------------------------

Entries == 1..MaxEntries

Tools == {"deleter1", "deleter3", "deleter4", "undeleter", "modifier"}

\* The index is sourceindex, and currentreplaceindex while the status is
\* REPLACING.  FINISHED is not kept: the next tick forgets the source.
Task == [tool: Tools, status: {"OFF", "INPROGRESS", "REPLACING"}, index: Entries]

Init ==
  /\ bank = EmptyBank
  /\ isrunning = TRUE
  /\ fromip = "none"
  /\ task = [t \in Tasks |-> NoTask]
  /\ made = 0
  /\ aged = 0
  /\ checked = 0
  /\ owed = [e \in Entries |-> 0]
  /\ targets = 0
  /\ wild = FALSE

Connected == fromip # "none"

NewLog(type, from, suspicious) ==
  [entry |-> made + 1, date |-> made + 1, type |-> type, fromip |-> from,
   suspicious |-> suspicious]

AddsLog(b, log) ==
  /\ made < MaxEntries
  /\ bank' = AddLog(b, log)
  /\ made' = made + 1

\* Log i of both arrays with a suspicion.
WithSuspicion(b, i, suspicious) ==
  [logs         |-> [b.logs EXCEPT ![i].suspicious = suspicious],
   internallogs |-> IF ValidIndex(b.internallogs, i)
                    THEN [b.internallogs EXCEPT ![i].suspicious = suspicious]
                    ELSE b.internallogs]

-----------------------------------------------------------------------------
(* Connections, and others who use the computer.                           *)

Connect(from) ==
  /\ ~Connected
  /\ AddsLog(bank, NewLog(CONNECTIONOPENED, from, NOTSUSPICIOUS))
  /\ fromip' = from
  /\ UNCHANGED <<isrunning, task, aged, checked, owed, targets, wild>>

\* The logs Disconnect would rather mark than the one it adds: those of a
\* connection from the same place, among the last that are all recent.
Openings ==
  {i \in UsedSlots(bank.logs) :
     /\ bank.logs[i].type = CONNECTIONOPENED
     /\ bank.logs[i].fromip = fromip
     /\ \A j \in UsedSlots(bank.logs) : j >= i => bank.logs[j].date > aged}

\* Whether a trace was under way and had not reached the player is not known
\* here.  No program ticks before it sees that the connection is gone.
Disconnect ==
  /\ Connected
  /\ \/ /\ AddsLog(bank, NewLog(TEXT, fromip, NOTSUSPICIOUS))
        /\ UNCHANGED owed
     \/ \E i \in Openings :
          /\ \A j \in Openings : j <= i
          /\ AddsLog(WithSuspicion(bank, i, SUSPICIOUS),
                     NewLog(TEXT, fromip, NOTSUSPICIOUS))
          /\ owed' = [owed EXCEPT ![bank.logs[i].entry] = @ + 1]
     \/ /\ Openings = {}
        /\ AddsLog(bank, NewLog(TEXT, fromip, SUSPICIOUS))
        /\ owed' = [owed EXCEPT ![made + 1] = @ + 1]
  /\ fromip' = "none"
  /\ UNCHANGED <<isrunning, task, aged, checked, targets, wild>>

\* Computer::Update makes up the log of somebody else.
OtherAccess ==
  /\ isrunning
  /\ AddsLog(bank, NewLog(TEXT, Elsewhere, NOTSUSPICIOUS))
  /\ UNCHANGED <<isrunning, fromip, task, aged, checked, owed, targets, wild>>

TimePasses ==
  /\ aged' \in (aged + 1)..made
  /\ UNCHANGED <<bank, isrunning, fromip, task, made, checked, owed, targets, wild>>

\* Revelation 1.0 empties the bank under the programs at work on it.
InfectWithRevelation ==
  /\ isrunning
  /\ bank' = EmptyBank
  /\ isrunning' = FALSE
  /\ UNCHANGED <<fromip, task, made, aged, checked, owed, targets, wild>>

\* The console's "delete all" in the directory of the logs.
DeleteAll ==
  /\ Connected
  /\ isrunning
  /\ targets < MaxTargets
  /\ targets' = targets + 1
  /\ bank' = [bank EXCEPT !.logs =
                [i \in 1..Len(bank.logs) |->
                   IF bank.logs[i] = Unused THEN Unused
                   ELSE [entry |-> bank.logs[i].entry, date |-> made, type |-> DELETED,
                         fromip |-> Elsewhere, suspicious |-> NOTSUSPICIOUS]]]
  /\ UNCHANGED <<isrunning, fromip, task, made, aged, checked, owed, wild>>

\* TaskManager::Save writes no programs.
SaveAndLoadGame ==
  /\ bank' = SaveAndLoad(bank)
  /\ task' = [t \in Tasks |-> NoTask]
  /\ UNCHANGED <<isrunning, fromip, made, aged, checked, owed, targets, wild>>

-----------------------------------------------------------------------------
(* The computer's administrator and the investigators.                     *)

UsedWith(b, suspicious) ==
  {i \in UsedSlots(b.logs) : b.logs[i].suspicious = suspicious}

\* What a check makes of the logs in one of the arrays.  Those in pardoned are
\* the player's own, made while he traces a hacker for this company.
Judged(b, array, pardoned) ==
  [i \in 1..Len(array) |->
     IF array[i] = Unused THEN Unused
     ELSE IF i \in UsedWith(b, SUSPICIOUS) \ pardoned
          THEN [array[i] EXCEPT !.suspicious = SUSPICIOUSANDNOTICED]
     ELSE IF i \in UsedWith(b, SUSPICIOUSANDNOTICED)
          THEN [array[i] EXCEPT !.suspicious = UNDERINVESTIGATION]
     ELSE array[i]]

\* Mutant: a check leaves the backups alone.
CheckLogsOnly ==
  /\ checked <= aged
  /\ checked' = made
  /\ bank' = [bank EXCEPT !.logs = Judged(bank, bank.logs, {})]
  /\ LET hacked == {bank.logs[i].entry : i \in UsedWith(bank, SUSPICIOUSANDNOTICED)}
     IN owed' = [e \in Entries |-> IF e \in hacked THEN owed[e] - 1 ELSE owed[e]]
  /\ UNCHANGED <<isrunning, fromip, task, made, aged, targets, wild>>

\* Every eight hours.  What was suspicious is noticed, and what was noticed is
\* handed to ConsequenceGenerator::ComputerHacked.
CheckForSecurityBreaches ==
  /\ checked <= aged
  /\ checked' = made
  /\ IF ~isrunning
     THEN /\ isrunning' = TRUE
          /\ UNCHANGED <<bank, owed>>
     ELSE /\ \E pardoned \in {{}, UsedWith(bank, SUSPICIOUS)} :
               LET judged == Judged(bank, bank.logs, pardoned)
               IN bank' = [logs |-> [i \in 1..Len(judged) |->
                                       IF i \in pardoned
                                       THEN [judged[i] EXCEPT !.suspicious = NOTSUSPICIOUS]
                                       ELSE judged[i]],
                           internallogs |-> Judged(bank, bank.internallogs, pardoned)]
          /\ LET hacked == {bank.logs[i].entry : i \in UsedWith(bank, SUSPICIOUSANDNOTICED)}
             IN owed' = [e \in Entries |-> IF e \in hacked THEN owed[e] - 1 ELSE owed[e]]
          /\ UNCHANGED isrunning
  /\ UNCHANGED <<fromip, task, made, aged, targets, wild>>

\* The slots a packed array takes its logs from, in order.
Packings(a) ==
  LET n == Cardinality(UsedSlots(a))
  IN {f \in [1..n -> UsedSlots(a)] : \A i, j \in 1..n : i < j => f[i] < f[j]}

\* Mutant: packing moves the logs and forgets their backups.
PackLogsOnly ==
  /\ \E from \in Packings(bank.logs) :
       bank' = [logs |-> [i \in DOMAIN from |-> bank.logs[from[i]]],
                internallogs |-> SetSize(bank.internallogs, Cardinality(DOMAIN from))]
  /\ UNCHANGED <<isrunning, fromip, task, made, aged, checked, owed, targets, wild>>

\* Every seven days: logs older than forty days go with their backups, then
\* the rest closes up.  A slot whose log has no backup keeps what it had.
ManageOldLogs ==
  /\ \E expired \in SUBSET UsedSlots(bank.logs) :
       LET Without(a) == [i \in 1..Len(a) |-> IF i \in expired THEN Unused ELSE a[i]]
           logs       == Without(bank.logs)
           backups    == Without(bank.internallogs)
           Kept(i)    == IF ValidIndex(logs, i) \/ i > Len(backups) THEN Unused
                         ELSE backups[i]
       IN /\ \A i \in expired : bank.logs[i].date <= aged
          /\ \E from \in Packings(logs) :
               bank' = [logs         |-> [i \in DOMAIN from |-> logs[from[i]]],
                        internallogs |-> [i \in DOMAIN from |->
                                            IF ValidIndex(backups, from[i])
                                            THEN backups[from[i]] ELSE Kept(i)]]
  /\ UNCHANGED <<isrunning, fromip, task, made, aged, checked, owed, targets, wild>>

\* Somebody's LogBank::TraceLog goes through the first k logs.
TraceLog(rating, k) ==
  /\ bank' = RecoveredUpTo(bank, k, rating)
  /\ UNCHANGED <<isrunning, fromip, task, made, aged, checked, owed, targets, wild>>

\* Agent::AttemptMission_TraceUser clears what it has looked at, and ends at the
\* end of the bank or at a suspicious opening whose trace leads to somebody.
AgentTraces(rating, k) ==
  LET seen    == RecoveredUpTo(bank, k, rating)
      suspect == {i \in UsedSlots(seen.logs) :
                    i <= k /\ seen.logs[i].suspicious # NOTSUSPICIOUS}
      Cleared(a) == [i \in 1..Len(a) |->
                       IF i \in suspect /\ a[i] # Unused
                       THEN [a[i] EXCEPT !.suspicious = NOTSUSPICIOUS] ELSE a[i]]
  IN /\ k = Len(bank.logs) \/ (k \in suspect /\ seen.logs[k].type = CONNECTIONOPENED)
     /\ bank' = [logs         |-> Cleared(seen.logs),
                 internallogs |-> Cleared(seen.internallogs)]
     /\ UNCHANGED <<isrunning, fromip, task, made, aged, checked, owed, targets, wild>>

-----------------------------------------------------------------------------
(* The programs.                                                           *)

At(t, tool, status) ==
  /\ task[t] # NoTask
  /\ task[t].tool = tool
  /\ task[t].status = status

Becomes(t, status) == task' = [task EXCEPT ![t].status = status]

Removed(t) == task' = [task EXCEPT ![t] = NoTask]

worldVars == <<isrunning, fromip, made, aged, checked, owed, targets>>

\* SetTarget, on the log screen.  A blank slot between two used ones is a
\* target for the fourth deleter only; a modifier that waits for its commit may
\* be set on another log.
SetTarget(t, tool, i) ==
  /\ Connected
  /\ isrunning
  /\ task[t] = NoTask \/ (tool = "modifier" /\ At(t, "modifier", "OFF"))
  /\ targets < MaxTargets
  /\ targets' = targets + 1
  /\ \/ ValidIndex(bank.logs, i) /\ (tool = "undeleter" => ValidIndex(bank.internallogs, i))
     \/ /\ tool = "deleter4"
        /\ bank.logs[i] = Unused
        /\ \E before, after \in UsedSlots(bank.logs) : before < i /\ i < after
  /\ task' = [task EXCEPT ![t] = [tool |-> tool, status |-> "OFF", index |-> i]]
  /\ UNCHANGED <<bank, isrunning, fromip, made, aged, checked, owed, wild>>

\* Mutant: the tick that sees the source leaves the status as it was.
StartForgotten(t) ==
  /\ task[t] # NoTask
  /\ task[t].tool # "modifier"
  /\ task[t].status = "OFF"
  /\ Becomes(t, "OFF")
  /\ UNCHANGED <<bank, wild, worldVars>>

\* The next tick sees the source.  The ticks of a modifier wait for a commit.
Start(t) ==
  /\ task[t] # NoTask
  /\ task[t].tool # "modifier"
  /\ task[t].status = "OFF"
  /\ IF task[t].tool = "deleter4" /\ ~ValidIndex(bank.logs, task[t].index)
     THEN Becomes(t, "REPLACING")
     ELSE Becomes(t, "INPROGRESS")
  /\ UNCHANGED <<bank, wild, worldVars>>

\* The modifier's Commit button, which asks neither for the log nor for the
\* connection.  A click during the work, which starts it over, is not told: the
\* ticks of the work are not counted.
CommitClick(t) ==
  /\ At(t, "modifier", "OFF")
  /\ Becomes(t, "INPROGRESS")
  /\ UNCHANGED <<bank, wild, worldVars>>

CloseTask(t) ==
  /\ task[t] # NoTask
  /\ Removed(t)
  /\ UNCHANGED <<bank, wild, worldVars>>

\* A tick sees that the log is gone, or that the connection is.
GiveUp(t) ==
  /\ task[t] # NoTask
  /\ LET i    == task[t].index
         gone == \/ ~ValidIndex(bank.logs, i)
                 \/ task[t].tool = "undeleter" /\ ~ValidIndex(bank.internallogs, i)
     IN \/ task[t].status = "INPROGRESS" /\ (gone \/ ~Connected)
        \/ task[t].status = "REPLACING" /\ ~Connected
  /\ Removed(t)
  /\ UNCHANGED <<bank, wild, worldVars>>

\* The last tick of work on a log that is there, while connected.
Completes(t, tool) ==
  /\ At(t, tool, "INPROGRESS")
  /\ ValidIndex(bank.logs, task[t].index)
  /\ Connected

Replaced(i, log) ==
  bank' = [bank EXCEPT !.logs = PutData(bank.logs, i,
             [entry |-> bank.logs[i].entry, date |-> bank.logs[i].date, type |-> log.type,
              fromip |-> log.fromip, suspicious |-> NOTSUSPICIOUS])]

\* Versions 1 and 2: a marker, with the date of the log.
Delete(t) ==
  /\ Completes(t, "deleter1")
  /\ Replaced(task[t].index, [type |-> DELETED, fromip |-> Elsewhere])
  /\ Removed(t)
  /\ UNCHANGED <<wild, worldVars>>

\* Version 3: the first log that is not from the gateway itself, copied, or if
\* there is none a log made up.
Overwrite(t) ==
  /\ Completes(t, "deleter3")
  /\ LET i      == task[t].index
         others == {j \in UsedSlots(bank.logs) \ {i} : bank.logs[j].fromip # Localhost}
     IN \/ \E j \in others :
             /\ \A k \in others : j <= k
             /\ Replaced(i, bank.logs[j])
        \/ /\ others = {}
           /\ Replaced(i, [type |-> TEXT, fromip |-> Elsewhere])
  /\ Removed(t)
  /\ UNCHANGED <<wild, worldVars>>

\* Version 4: the slot is blank, its backup still there, and the shift begins.
Remove(t) ==
  /\ Completes(t, "deleter4")
  /\ bank' = [bank EXCEPT !.logs = RemoveData(bank.logs, task[t].index)]
  /\ Becomes(t, "REPLACING")
  /\ UNCHANGED <<wild, worldVars>>

\* Mutant: the shift goes on for one slot more than there is.
ShiftPastEnd(t) ==
  LET i == task[t].index
  IN /\ At(t, "deleter4", "REPLACING")
     /\ Connected
     /\ i <= Len(bank.logs)
     /\ IF ValidIndex(bank.logs, i + 1) /\ ValidIndex(bank.internallogs, i + 1)
        THEN bank' = [logs |-> RemoveData(PutData(bank.logs, i, bank.logs[i + 1]), i + 1),
                      internallogs |-> RemoveData(PutData(bank.internallogs, i,
                                         bank.internallogs[i + 1]), i + 1)]
        ELSE UNCHANGED bank
     /\ task' = [task EXCEPT ![t].index = i + 1]
     /\ UNCHANGED <<wild, worldVars>>

\* One slot of the shift: the next log moves up, and its backup with it.
Shift(t) ==
  LET i == task[t].index
  IN /\ At(t, "deleter4", "REPLACING")
     /\ Connected
     /\ i < Len(bank.logs)
     /\ IF ValidIndex(bank.logs, i + 1)
        THEN bank' = [logs |-> RemoveData(PutData(bank.logs, i, bank.logs[i + 1]), i + 1),
                      internallogs |->
                        IF ValidIndex(bank.internallogs, i + 1)
                        THEN RemoveData(PutData(bank.internallogs, i,
                                                bank.internallogs[i + 1]), i + 1)
                        ELSE bank.internallogs]
        ELSE UNCHANGED bank
     /\ task' = [task EXCEPT ![t].index = i + 1]
     /\ UNCHANGED <<wild, worldVars>>

\* The end of the shift cuts off the last slot.
EndShift(t) ==
  /\ At(t, "deleter4", "REPLACING")
  /\ Connected
  /\ task[t].index >= Len(bank.logs)
  /\ bank' = [logs         |-> SetSize(bank.logs, Len(bank.logs) - 1),
              internallogs |-> SetSize(bank.internallogs, Len(bank.logs) - 1)]
  /\ Removed(t)
  /\ UNCHANGED <<wild, worldVars>>

UnDelete(t) ==
  /\ Completes(t, "undeleter")
  /\ LET i == task[t].index
     IN /\ ValidIndex(bank.internallogs, i)
        /\ bank' = [bank EXCEPT !.logs = PutData(bank.logs, i, bank.internallogs[i])]
  /\ Removed(t)
  /\ UNCHANGED <<wild, worldVars>>

\* LogUnDeleter::Tick notes that a log is gone and goes on: when this is its
\* last tick it writes into what GetData finds in the unused slot.
UnDeleteGone(t) ==
  /\ At(t, "undeleter", "INPROGRESS")
  /\ Connected
  /\ LET i == task[t].index
     IN ~ValidIndex(bank.logs, i) \/ ~ValidIndex(bank.internallogs, i)
  /\ wild' = TRUE
  /\ Removed(t)
  /\ UNCHANGED <<bank, worldVars>>

\* A forgery, copied into the internal log: "this should be undetectable".  The
\* player who commits it is perhaps connected to another computer by then.
Modify(t, type, from) ==
  /\ At(t, "modifier", "INPROGRESS")
  /\ ValidIndex(bank.logs, task[t].index)
  /\ LET i   == task[t].index
         log == [bank.logs[i] EXCEPT !.type = type, !.fromip = from]
     IN bank' = [logs         |-> PutData(bank.logs, i, log),
                 internallogs |-> PutData(bank.internallogs, i, log)]
  /\ Removed(t)
  /\ UNCHANGED <<wild, worldVars>>

-----------------------------------------------------------------------------

Tick(t) ==
  \/ Start(t)
  \/ GiveUp(t)
  \/ Delete(t)
  \/ Overwrite(t)
  \/ Remove(t)
  \/ Shift(t)
  \/ EndShift(t)
  \/ UnDelete(t)
  \/ UnDeleteGone(t)
  \/ \E forgery \in Forgeries : Modify(t, forgery[1], forgery[2])

Use(t) ==
  \/ \E tool \in Tools, i \in 1..Len(bank.logs) : SetTarget(t, tool, i)
  \/ CommitClick(t)
  \/ CloseTask(t)

Player ==
  \/ \E from \in Routes : Connect(from)
  \/ Disconnect
  \/ InfectWithRevelation
  \/ DeleteAll
  \/ SaveAndLoadGame

World ==
  \/ OtherAccess
  \/ TimePasses
  \/ CheckForSecurityBreaches
  \/ ManageOldLogs
  \/ \E rating \in Ratings, k \in 1..Len(bank.logs) :
       TraceLog(rating, k) \/ AgentTraces(rating, k)

\* After a write through a dead pointer nothing is known of the program.
Next ==
  /\ ~wild
  /\ \/ Player
     \/ World
     \/ \E t \in Tasks : Tick(t) \/ Use(t)

Spec == Init /\ [][Next]_vars

\* The task manager ticks every program in every frame; no click is due.
FairSpec == Spec /\ \A t \in Tasks : WF_vars(~wild /\ Tick(t))

-----------------------------------------------------------------------------
(* Properties.                                                             *)

TypeOK ==
  /\ bank \in Bank
  /\ isrunning \in BOOLEAN
  /\ fromip \in FromIps \cup {"none"}
  /\ task \in [Tasks -> Task \cup {NoTask}]
  /\ made \in 0..MaxEntries
  /\ aged \in 0..made
  /\ checked \in 0..made
  /\ owed \in [Entries -> Int]
  /\ targets \in 0..MaxTargets
  /\ wild \in BOOLEAN

\* Every log has a backup in the slot of its own index, made for the same
\* access, whatever programs, events and investigators did to the two arrays.
BackupKept ==
  /\ Len(bank.internallogs) = Len(bank.logs)
  /\ \A i \in UsedSlots(bank.logs) :
       /\ ValidIndex(bank.internallogs, i)
       /\ bank.internallogs[i].entry = bank.logs[i].entry

\* Nobody is pursued more often than a hack of his was left suspicious: a log
\* that was handed to the consequences does not become suspicious again when a
\* deleted or forged copy of it is recovered.
NoUndueConsequence == \A e \in Entries : owed[e] >= 0

\* Moving logs up and cutting off the end ("remove the gap from the end", as
\* LogDeleter says) loses no log.
ShiftLosesNothing ==
  [][\A t \in Tasks :
       Shift(t) \/ EndShift(t) =>
         {bank.logs[i].entry : i \in UsedSlots(bank.logs)} =
         {bank'.logs[i].entry : i \in UsedSlots(bank'.logs)}]_vars

\* A program that has been given a log lets go of it in the end, whatever is
\* done to the log meanwhile; only a modifier may wait for ever, for a commit.
TasksEnd ==
  \A t \in Tasks :
    task[t] # NoTask ~> (task[t] = NoTask \/ At(t, "modifier", "OFF") \/ wild)
=============================================================================
