# A TLA+ model of Cybrelink

Cybrelink is a fork of the game Uplink with a dedicated server for several
players. This directory holds TLA+ models of its core, the TLC configurations
that check them on small instances, and proofs, checked by TLAPS, of what holds
for every value of the parameters. Paths are relative to the repository.

## 1. Inventory

Status: **M** modelled, **P** partly, **-** not. *Hard* is what makes the part
hard to get right and to test.

| Part | Source | State | Operations | Hard | |
|---|---|---|---|---|---|
| Server: players and main loop | `src/server/gameserver.*` | the vector `m_players`, `m_nextPlayerId`, the tick | accept, receive, handshake, actions, chat, disconnect, timeout | the vector is erased from while it is walked over; failing requests; repeated handshakes | P |
| Supabase client | `src/uplink/src/network/supabase_client.cpp` | URL, keys, the one auth token | verify a token, read and create profiles, read missions | failure and "no row" look alike; most requests have five seconds, those of the profiles no limit; one token for everybody | P |
| Server: world, missions, NPCs | `src/server/server_world.*` | missions, agents, next mission id | load, spawn, claim, attempt, complete | two halves of a claim; ids of the table against ids handed out; a cap that counts completed missions | P |
| Server: date | `src/server/server_date.cpp` | a date | advance by a second | own copy of the arithmetic | - |
| Game date | `src/uplink/src/world/date.cpp` | six fields | set, advance in any unit, compare | carries and borrows at every edge | P |
| World clock and event queue | `world/world.cpp`, `world/scheduler/*`, `game/game.cpp` under `src/uplink/src` | the date, the next update, a sorted list of events | update at four speeds, schedule, warn, run, save, load | fast forward writes into the queue; pointers between events; overdue events | P |
| Sockets, wire format | `network_sdl.cpp`, `protocol.h`, `deltaencoder.h` | streams of bytes | send, receive, frame, delta-encode | packets that arrive together or in pieces; lengths | - |
| Game client: network | `networkclient.cpp`, `network.cpp`, `mainmenu/networkoptions_interface.cpp`, the end of `App::LoadGame` | the mode, connection state, socket, receive buffer, connecting thread | connect and wait, connect on a thread, update, stop, close | a thread and the main loop share the socket; a thread that outlives its reason; half packets | P |
| Server mode of the original game | `networkserver.cpp`, `clientconnection.cpp` | connections | listen, accept | `NetworkServer::Update`, which would accept, is compiled out by a misspelt macro | - |
| Access logs | `world/computer/logbank.cpp`, the parts of `computer.cpp` and `agent.cpp` that use it | two parallel arrays of logs | add, mark, check, expire and pack, recover, delete, forge, save | two arrays in step under programs that hold indices into them for many frames | P |
| Trace and connection | `world/connection.cpp`, `world/player.cpp`, `computer/security*.cpp`, the map, the links, the dialler | the route, the remote host, the trace, the monitor, enabled and bypassed systems | edit the route, dial, connect, trace, disconnect, catch, bypass | two notions of where the player is; a trace that ends while he leaves; programs that are not saved | P |
| Bank accounts, fines, loans | `computer/bankaccount.cpp`, `world/person.cpp`, `scheduler/bankrobberyevent.cpp`, the finance and loans screens | balances, loans, logs of transfers, robbery events, fines | transfer, charge, fine, pay, borrow, pay back, sell | the event before the transfer; a screen left over; matching by text and sum | P |
| Player's programs | `interface/taskmanager` | a target, a progress | start, tick, end | targets that change under them | P |
| Gateway | `computer/gateway.cpp` | hardware, memory | exchange, upgrade | memory kept across an exchange | - |
| Missions, companies, generators, plot | `world/company`, `world/generator` | content | generate | content, not protocol; of the missions, to pay a fine is in `Bank` | - |
| Interface, graphics, sound, scripts | `interface`, `mainmenu`, `view`, `src/lib` | screens | draw, click | the clicks that change the state above are in its modules | - |
| Containers | `src/lib/tosser` | lists, arrays, trees | insert, remove, find | slots that are unused inside the size | P |

How the parts meet: `GameServer::Run` calls `GameTick` (date, NPCs and missions
of `ServerWorld`) sixty times a second and `NetworkTick` (one accept, one
receive for each player, the broadcasts, the timeouts) twenty times; handlers
call `SupabaseClient` and wait for its answer. The server sends its date in
every tick and the client writes it into the world's date. In the game
`Game::Update` calls `World::Update`, which moves the date, updates the objects
and runs the events that are due; events schedule events. The player's programs are
ticked in every frame after that, and clicks run between frames: a program works
for many frames on a computer that events, agents and the player change under it.
`Player::Update` moves the monitor and the trace; `Connection::Disconnect` is
called from some ten places, writes into the logbank of the computer at the end of
the route, and changes security codes along it. Everything but the client's
connecting thread runs on one thread.

## 2. Modules

| Module | What it is |
|---|---|
| `GameServer` | the main loop, `m_players` as storage + length + walk, the handshake, bounties, silence |
| `PlayerRegistry` | what the list promises: a table of sessions in which each step concerns one player |
| `GameServerProofs` | its theorems |
| `ServerWorld`, `ServerWorldProofs` | missions, NPC agents, claims and pay |
| `Date`, `DateProofs` | the arithmetic of dates |
| `WorldClock`, `WorldClockProofs` | the date and the queue of events at every speed |
| `NetworkClient`, `NetworkClientProofs` | the socket of the client between its two threads, and the mode |
| `DArray`, `LogBank` | the game's array with unused slots; a computer's logs and their internal copies |
| `LogTools`, `LogToolsProofs` | one computer's logs between the player's programs, connections, events and agents |
| `Connection`, `ConnectionProofs` | the route, the trace, the monitor, security systems and bypasses |
| `Bank`, `BankProofs` | accounts, transfers, robberies, fines, loans |
| `MCGameServer`, `MCServerWorld`, `MCDate`, `MCWorldClock`, `MCNetworkClient`, `MCLogTools`, `MCConnection`, `MCBank` | values for TLC |

Each definition of a module that models code names it in `PROJECT.json` under
`map`. Definitions whose comment begins with "Mutant:" are variants of the
definition that follows them, used to see that each property notices a bug of
that kind; they are no part of a specification.

### GameServer

`m_players` is reserved once, so the model has `slots` (the storage), `size`
and, during a walk, the `end` that the range-for took. `DisconnectPlayer` erases
(`Erased`), so a walk skips the element that moved up and reads one past the new
end. Reading there is undefined; the model keeps in that place what the move of
`remove_if` leaves (the element, its socket gone). One action is one turn of a
walk (`ProcessIncoming`, `CheckTimeouts`) or one of the steps between them;
`HandlePacket` is the whole handler, with the outcome of each request chosen by
`RequestsMayFail`. A peer's behaviour (`PeerStops`: it closes, or falls silent)
is the environment. Integers of 32 bits are kept modulo `WordSize`.
`PlaceBounty` checks the amount as a signed number and takes it as an unsigned one,
for every word a packet may hold. The element's `wide` is not in the code and only the
properties read it: a bounty of half a word or more was placed since the last
handshake.

### ServerWorld

`Init` is `LoadFromSupabase` on every table of `Tables`, with the part of it a
null `claimed_by` cuts off. `SpawnMissions`, `Claim`, `Succeed` and `Fail` are the
steps of `Update`; the timers and the dice are nondeterministic. The server counts
ids from 1 whatever the table holds, and looks missions up by id, so `Succeed` may find
another mission than the agent's; nothing is assumed of the table's ids or holders, and
the properties speak of the missions whose id is `Unique`. `loaded` keeps what was
loaded, for the properties.

### Date

The five `Advance` operations are functions from a date and a number to a date,
with both conditions of each and the modulo that may leave day 0. The
specification sets one date and advances it, with the seconds asked for as a
history variable.

### WorldClock

A date is a number of seconds. `ScheduleStartingEvent` schedules the recurring
notifications one after the other before the first frame, in a new world for a date
of `Firsts`, which may be overdue, in a loaded one a period ahead. `Frame` is `Date::Update` and the first half of
`World::Update`: it takes the due events off the queue; `RunEvent` runs them one by
one, `EndUpdate` sets `nextupdate`. Between them events, and between frames the
player, schedule more. `Leap` is the rest of a turn of the loop in
`Game::NewGame`. `Reload` is a save and a load: `nextupdate` is not saved, and each
warning gets a copy of its event. Of the successors that events schedule only
those of recurring notifications are tied to the event that runs; the others
are `ScheduleOne`.

### NetworkClient

The main loop (`main`) and the connecting thread (`thread`) are two program
counters over the pointer `socket`, the objects it may point to (`memory`) and
`m_connectionState`. Each access to one of them is a step, so the two interleave
as they may in the program; `Update` reads the pointer twice, for its test and for its
copy, and the thread may clear it in between (`UpdateReadNull`). `clientSock` and `newSock` are the copies of the
pointer that `Update` and the thread work on. A use of a freed object is
undefined: it may end the program (`Crash`) or behave as a call that works or
fails. `LoadGame` and the menu's buttons run between frames. A join is a guard
(`Joined`) that keeps the main loop where it is. A packet is two halves, a
header and the rest, and a receive takes any number of halves, so `recvBuffer` may keep
one; a header read in the wrong place leaves anything (`Remains`).
`Network::STATUS` guards `GetClient`, with its assertion in `LoadGameAborts`.

### LogBank and LogTools

An array is a sequence whose slots may be `Unused`; slot i of the code is element
i + 1. Of a log its date, type, source and suspicion are kept, and `entry`, which
tells the call of `AddLog` the slot goes back to. A program is a tool, a status
and an index; one action is one tick that does something, so how many ticks a log
takes is left open, and any event may come between two ticks. A modifier waits for
the player's button (`CommitClick`) before its ticks do anything. `Shift` and `EndShift`
are the two branches of the fourth deleter's state REPLACING. `Judged` is what
`CheckForSecurityBreaches` makes of one of the arrays, `Packings` the order in which
`ManageOldLogs` closes the gaps. `owed` counts, for each entry, the times it was left
suspicious less the times it was handed to `ComputerHacked`. `wild` says that
`LogUnDeleter::Tick`, which notes that a log is gone and goes on, has written through
the null pointer that `GetData` gives for it; nothing is known after that, so the
model stops there.

### Connection

`link` is the `Connection` with the remote host of its owner and the state of
`SecurityMonitor`, which begin and end with it. `Connect`, `Disconnect`, `Reset` and
`BeginTrace` are functions of a link; the handlers compose them in the order of the
code, so that `HangUp` is `Disconnect`, `Reset` and the change of codes along the route
(`Rumbled`, whose index the code computes from the progress of the trace, 0 for
a direct connection without any trace). `screen` is the computer whose screens are
shown, which clicks act on and which may be one the player has left: a password box of
it can still be broken (`Crack`), and the code found is then noted for the gateway.
`Accounts` says which computers have accounts. Two fields of `link` are for the
properties alone: `hack` records what became of the trace of the connection (`open`,
`answered` by a capture or by a suspicious log, or answered `twice`), and `dropped`
changes when a connection is made over one whose trace is open.

### Bank

`book` has what `TransferMoney` and `BankRobberyEvent` work on, so that both are
functions of a book, and `Paid` is what `ClickPayFinesButton` makes of it fine by
fine. `FinesLeft` is a list of fines without some.
`Found` says which account's address is contained in which other's, because the code
looks for them with `strstr`; `NameOf` that an account may be held under any name; `Payable`, what `GetRandomAccount` may pick for a fine, among it accounts the
player has opened. `loanchange` survives the click that applied it, and the screen survives a
disconnection. Amounts are units, a loan step stands for a hundred credits.

## 3. Runs

| Run | Question | Instance |
|---|---|---|
| `gs_players` | Does erasing during walks lose, mix up or keep the wrong player? No; and every dead peer goes in the end. May a session hold credits nobody gave it? No, as long as it places no bounty of half a word or more. | two places, three connections, one account, words of four values and bounties of all of them (630,000 states) |
| `gs_bounty` | Is every bounty deducted? **No** (finding). | one place, words of 16 values |
| `sw_claims` | Do claims, completions and pay agree? Yes, for missions whose id names no other. | two agents, up to five missions, four tables: ids the server hands out, an id twice, the id 0, a null holder (171,000 states) |
| `sw_foreign` | Is a mission completed only by its holder? **No** (finding). | the same from one loaded mission with the id 1 |
| `date_exact` | Is date arithmetic exact? Yes. | two operations of each unit, thirteen amounts, three dates at the edges |
| `wc_queue` | Does any speed skip, reorder or lose an event, or turn the clock back? No, if nothing is overdue at the start. | four events that crowd within the two seconds between updates; two fast speeds; reloads; a new game for the two properties that hold there |
| `nc_connect` | What may the thread and the main loop do to each other's socket? They may free it under each other, but come to rest with a sound pointer, in the right state, and attempts and losses end. | three connections, a packet on each: one of the menu, one of the thread, and one more after either (214,000 states) |
| `lb_tools` | May a log lose its backup, a hack be pursued twice, a program hang? No, but for a modifier that is never committed. | one program of any kind, three logs, two targets (330,000 states) |
| `lb_shift` | Does the fourth deleter lose logs it was not given? **Yes** (finding). | two programs, three logs |
| `hk_trace` | May the player get away from a completed trace, or be punished twice for one? No; may a trace be forgotten? Only by a number dialled over it; and traces end. | a guarded computer and a bounce, both on hot keys, one bypass program (876,000 states) |
| `hk_bypass` | Does a bypass end with its program? **No** (finding). | as `hk_trace` |
| `bk_money` | Is money made or lost, does a theft pass though its log is left, do assertions fail, fines stay? No. | two accounts of the player under different names, two of others, fines payable into one of each, three movements (567,000 states) |

Bounds. The list of players needs a walk that passes over an element behind the erased
one and reads past the new end, two erasures in one walk, a refused connection and a
place used again: two places and three connections; the proofs drop the bound, but for
`DeadPeersDropped`, which is checked at it only. A word of
four values has two that are negative when read as signed, and a balance the others
reach. Two agents suffice for a mission held by another, a table of two or three rows for one
id twice and for an id the server gives out later, and a cap of five for two batches. Date operations are
functions and every pair of them meets every carry and borrow from the edge
dates; the proofs drop the bound. Three logs are the target, one before it and one
behind it, or two behind it, which is what a shift or a packing tells apart, and two
programs the least for one to finish inside the other's work; the proofs of
`LogTools` and `Connection` drop both bounds. A route of the gateway and two
computers has a middle, an end and a trace that stops on the way; the guarded
computer has a proxy, without which its monitor cannot be disabled. Three movements
of money are a theft, a transfer that looks like it and a payment of a fine. Three connections are a socket of each thread
at once and a new one behind them; one packet may be cut in two, and cut off. In `wc_queue` delays and periods are seconds
where the game has minutes and hours: what the properties turn on is dates
within three seconds of each other, the gap between updates, and not the length
of the waits; the fast steps are the real ones. Deadlock is checked for
`GameServer`, which never stops; `NetworkClient` stutters when the program
has ended (`Ended`) and can always be closed; the others stop at their bounds
(`MaxMoves`, `LastDate`) or when there is nothing to claim, `LogTools` after a wild
write, `Bank` when the game is over.

Fairness. `GameServer!FairSpec`: the main loop goes on; requests and sends are
assumed to return. `ServerWorld` has none.
`WorldClock!FairSpec`: frames come, that is the game is not left paused for ever,
and time passes in them.
`NetworkClient!FairSpec`: the thread runs and its attempt to connect returns, as
a TCP connect does; the main loop goes on drawing and leaves the joins it waits
in. Clicks and the server owe nothing. `LogTools!FairSpec`: `TaskManager::Update`
ticks every program in every frame; the Commit button of a modifier is the player's and
never due. `Connection!FairSpec`: `Player::Update` runs in
every frame and the date of the trace's next step comes; every computer of the
generators with a trace action has a trace speed above -1. A player who is traced
and connects anew again and again restarts the trace each time, which `TraceEnds`
allows. `Bank!FairSpec`: due dates come and are looked at every day.

### Findings

1. A bounty of half a word or more (2^31) is negative in the check of the funds and
   passes it with any balance; its deduction then adds to the credits (`gs_bounty`).
2. The server's mission ids start at 1 over a table that may have the same ones, and
   an agent's mission is looked up by id: it completes the loaded mission somebody else
   holds, and its own stays open under its name (`sw_foreign`).
3. The fourth LogDeleter ends its shift by cutting off the last slot, "the gap".
   When the logs were packed meanwhile, or a second deleter has finished first,
   that slot holds a log (`lb_shift`).
4. A security system's bypass is saved and the program that holds it is not, so
   it stays bypassed after a load (`hk_bypass`).

Behaviours the models reach that no run has as its question:

- A player is passed over in a network tick when one before it is erased in the
  same walk, although the comment over it speaks of all players. Harmless
  beyond the tick: `StaleSlotsHarmless`, `DeadPeersDropped`, `ImplementsRegistry`.
- A failed lookup of a profile gives an existing account the defaults.
- A logged-in player who loads a game outside the client mode fails the assertion of
  `GetClient` (app.cpp:340, network.cpp:49), because only a connection from the network
  menu sets the mode: `LoadGameAborts`, which ends the behaviour.
- An agent whose mission shares its id with an earlier one is paid what the earlier one
  pays, also when that is completed already. An agent that claims a loaded mission with the
  id 0 stays idle, and may claim another.
- Completed missions fill the cap for good.
- A new game starts with overdue notifications, and its first fast frame sets the
  clock back to them.
- `LogUnDeleter::Tick` writes through a log it has found to be gone (`UnDeleteGone`).
- F2 or F3 while the map's number is dialled connect, and the dialler then
  connects again on top, without a `Disconnect`: a trace begun meanwhile is forgotten
  with neither a capture nor a suspicious log. `NoTraceWithoutConsequence` names this as
  the only case, and that it is the same computer again.
- A password broken on a screen left over after a disconnection is noted for the
  player's own gateway (`Crack`).
- A direct connection has no middle, so its host changes its codes at every
  disconnection of a player who has an account there, traced or not.
- The loans screen applies its `loanchange` again with each click once the player is
  disconnected, and the credit rating may fall below zero.
- What the sales screens and `TradeShares` ask for is the sum of all accounts, and
  what they charge is the current one, which may be overdrawn and fined.
- A fine counts as paid by any transfer of its sum ever made, also an older one.
- The robbery event is scheduled for a transfer that then fails too.

`NetworkClient` also reaches behaviours that no run has as its question, since
no line of the repository promises their absence. The mode is needed for the
thread to start at all, that is a connection from the menu first and a load
after it. Then `Update` may find the pointer cleared between its two reads (`UpdateReadNull`);
`Update` may delete the thread's socket before the thread sends
on it; the thread may delete its socket while `Update` receives on it
(`ThreadCrash`, `UpdateCrash`). After a loss the mode is `NONE`, so the menu may
connect while the thread still works, and the thread's late `socket = nullptr`
loses that connection's socket, which stays open. `StopClient` keeps half a
packet in the buffer, and the thread's next connection reads it as its first.
After a loss the state stays `CONNECTED`.

## 4. Proofs

Assumptions are the named `ConstantsAssumption` of each module, nothing more.

**GameServer** (`TypeCorrect`, `ListStaysOrdered`, `StaleSlotsStayHarmless`,
`CreditsStayBacked`, `CreditsStayNotNegative`). The
inductive invariant is `TypeOK /\ PlayersInOrder /\ StaleSlotsHarmless`. Order is
needed for erasing by number: two elements of one number would both go. It is
kept by erasing because the elements only move down, and by accepting because
numbers only grow. `StaleSlotsHarmless` says what the place past the end holds,
which the turn of a walk that reads it relies on.
For the credits `Solvent` adds that rows and credits are values of an int32
and every player is backed by a row or the start balance, unless `wide` tells of a bounty of
half a word or more; rows stay (`RowsStay`), erasing gives nobody another's element, and
any other bounty that passes the check is below what it is taken from (`SmallWord`). With a
wide one the check and the deduction read different numbers, which is the finding of
`gs_bounty` and why the theorems exempt it.
`Refinement` maps the storage to the table `PlayerRegistry` has; its steps are lemmas
like `PacketConcernsSender`. `NobodyDroppedForOthers` shows that a player goes only
through its own fault.

**ServerWorld** (`TypeCorrect`, `ClaimsStayAgreed`, `OnlyClaimantCompletes`,
`ClaimsStayFinal`, `CapIsKept`, `PaidExactlyOnce`), from any table. An id is looked up by
the first mission that has it, so the invariant restates the agreement by place instead of
by id, for the missions whose id is `Unique` (`ClaimsMatch`), and adds that an agent on a
mission holds one of that id (`HoldsItsOwn`), wherever it is found. An id that is unique
after a step was so before (`UniqueBefore`), because missions are only added. What an agent
has earned is a sum along the list; `EarnedShifts` says that it grows by what one mission has
become worth, and each step makes at most one worth more. What is loaded as completed is
not earned here, so `PaidOnce` takes off what the first list was worth.
`ClaimsStayFinal` and `CapIsKept` hold for missions of any id.

**Date** (`StaysInCalendar`, `AdvanceExact`, `OrderIsRight`). One lemma for each
operation, from months down to seconds, says that it moves the count of its unit
by exactly the amount and leaves the smaller fields alone; months take a date
with any day, because a carry hands them a date with day 0. The invariant is
`TypeOK /\ NoSecondLost`; that the comparison of fields is the order of seconds is
one more lemma, from the larger units down.

**NetworkClient** (`TypesKept`, `AsyncReturnsAtOnce`, `PointerSound`,
`MenuFramingSound`, `StatesInOrder`). The state is `CONNECTING` exactly while
the thread works (`StateTellsOfThread`): that is why a load never joins a
working thread and why only `StopClient` breaks the order of the states. The pointer
dangles only while the thread or the frame that freed its object is about to
clear it (`DanglingIsCleared`, with `FrameHasSocket` for the copies). A thread
starts with no socket and no frame under way (`ConnectsAlone`). The buffer of a
menu connection is the half that comes next (`MenuBuffer`), by a lemma on what
`Remains` leaves of whole packets.

**LogTools** (`TypesKept`, `BackupsStayWithLogs`, `NobodyPursuedTwice`). The inductive
invariant is `TypeOK`, `NoUndueConsequence` and `Sound`: both arrays have one length,
every log has a backup of its own entry (which is `BackupKept`), no entry stands in
two slots, and `Backed`, what the suspicions of a log and of its backup may be when
its entry is owed a consequence or not. The last is what makes recovery
harmless: a backup that is put back is never more suspicious than what is owed. There
is one lemma for each way an array is changed (a slot written, added, cut, moved up,
packed, recovered) and one for each action.

**Connection** (`TypesKept`, `RouteEndsAtRemoteHost`, `NobodyEscapesATrace`,
`EveryTraceAnswered`, `NoTraceGetsAway`, `TraceOnlyNears`). The inductive invariant is `TypeOK`, `Good`,
`Aimed` and `Shown`. `Good`
says of a link that its route is one (`IsRoute`) and ends at the remote host while
connected, that a trace of it has not reached the gateway, and that `hack` is `open`
exactly while it is connected and traced. `Aimed`, that programs bypass systems that exist,
is needed for the type of `bypassed`; `Shown`, that the screens of a connected player are the
remote host's, for that of `accounts`: a code is noted for the computer it was found on, or
for the gateway (`Noted`). Each of `Connect`, `Disconnect`, `Reset`,
`AddVLocation` has a lemma on what it makes of a good link, and the handlers, which
compose them, follow from these. For `NoTraceGetsAway` the lemmas also say what they leave of
`hack` and `dropped`: only `Connect` on a traced link changes `dropped`, and of its callers only
the map's dialler does not disconnect first. `TraceOnlyNears` is the argument of `TraceEnds`
without its fairness: `Ahead`, the hosts a trace still has to pass, falls with each
`UpdateTrace`, and only a connection made anew, by a hot key or by a number that was
being dialled, lets it rise.

**WorldClock** (`TypeCorrect`, `EventsOnTime`, `EventsInOrder`, `WarningsFirst`,
`ClockNeverBack`). The queue is in the order `MayPrecede`, in which a warning comes before
what it warns of (`Chain`), and what has run, then what is taken off, then what is queued
continue one another (`PastLinked`, `PastChain`): this gives the order and the warnings. The
clock needs `Timely`: no queued event is due before the last update (`Floor`), the clock is at
most two seconds past it, and of the queue only the first has been moved by a
fast frame (`Punctual`). `Inserted` says what `ScheduleEvent` makes of a queue, `MovedWell` what
`Date::Update` leaves, whatever the speed; the actions follow from these two. A notification's
period is assumed to be three seconds at least (the shortest of the code is
four hours, in the demo), or its successor could be due before the clock.

**Bank** (`TypesKept`, `NoMoneyMade`, `TheftsAreAnswered`, `PayButtonAssertsHold`,
`FinesOnlyGoDuly`). The
inductive invariant adds two parts to the four properties. `Linked`: ids are handed out
once, and a log of a robbery's id is one of the two that `BankRobberyEvent::Run` looks for;
without it the event could find another log, or miss its own. `FinesSound`: fines
go to accounts that exist by then and are not zero, which is what makes the transfer of the
pay button succeed; accounts are only opened (`ExistStill`), and one of the player's own may
be among them. `Total` is all balances less all loans; `SumUpdate` says
what one changed account does to it, and each of `TransferMoney`, `ChangeBalance`,
`PayOne` and the loans has a lemma on what it leaves of the total and of the links. Of the
accounts it is assumed that those of the others are finitely many.
`FinesOnlyGoDuly` is what `FinesEnd` rests on besides fairness: each of the places
that rebuild the list of fines (`LeftAre`, `PaidDeals`) leaves out only what is paid, or
overdue on the day that is looked at, and leaves the others as they were.

The library's induction theorems take an operator as a parameter, which the provers
cannot use. Where a definition is recursive (`Paid`, `FinesLeft`, `Earned`, the sums)
the proofs take a least counterexample instead: `LeastNumber` and `LeastSet` give
one in any set of numbers, or of subsets of a finite set, that is not empty. The same
argument shows that the recursive function exists (`PaidDefined`, `LeftDefined`,
`RemovedDefined`, `EarnedDefined`, `SumDefined`), before anything is said of its values.

Every safety property of a passing run is proved. Only model-checked: liveness
(`DeadPeersDropped`, `AllRun`, `ConnectingEnds`, `LossNoticed`, `TasksEnd`, `TraceEnds`,
`FinesEnd`), which needs ENABLED, out of the prover's reach. Without a run but proved:
`WorldClock`'s `TypeOK`, `PlayersInOrder`, `OnlyOwnFault`, `ClaimsAreFinal`, `CapHolds`, `TraceNears`, `FinesGoDuly`.

## 5. Not modelled

Most of the repository by lines is content and drawing: the generators (worlds,
LANs, missions, the plot, 20,000 lines), the screens, the tutorial, the scripts, the
vendored libraries. They have state machines of a line or two (a page, a selection)
and no property that outlives the abstraction of their texts; what their clicks do to
connections, logs and accounts is in the modules above. So the map covers a small share of
all lines and a larger one of the files it names.

Of the modelled parts: the server's player operations that nothing calls
(`TransferMoney`, `ClaimMission`, `CompleteMission`, ...) and `Shutdown`; what the
single-player events do apart from those in `LogTools`, `Connection` and `Bank`; the
arithmetic of `ServerDate`, which only ever adds a second. Of the client: its screens,
the chat and the list of players, `SendChat`, the date a TIME_SYNC sets, and
that `~Network` shuts SDL_net down before the client's destructor joins the thread. Of
logs: the walk of `TraceLog` from one computer to the next, the logs that hired agents hide,
`LogModifier`'s state CREATING, which no path reaches (logmodifier.cpp:273). Of
connections: the seconds between two steps of a trace, the LAN monitor, the jump from
Uplink's public to its internal machine. Of banks: transfers forged over other logs, and
legal action once it has begun.

## 6. Plan

1. `TimeSync`: `NetworkClient`'s frames over `WorldClock`, where a TIME_SYNC sets
   the date while `nextupdate` and the queue stay.
2. `Session`: client and server over a stream of bytes, with framing, keepalive,
   timeouts and requests that keep the main loop waiting.
3. `Gateway`: the exchange of a gateway. `Codec`: varints and delta buffers as
   functions.
4. `LogTools` and `Connection` composed: the suspicious log that `AnsweredOnce` speaks of
   is the one `NoUndueConsequence` counts.
