----------------------------- MODULE Connection -----------------------------
(***************************************************************************)
(* The player's connection through a route of computers, the trace that    *)
(* follows it back, and what may happen to both                            *)
(* (src/uplink/src/world/connection.cpp, player.cpp, securitymonitor.cpp,  *)
(* the dialler, and the programs that work on a computer's security).      *)
(*                                                                         *)
(* All of it runs on one thread, and an action is one callback or one tick.*)
(* Which one comes next is open: the player clicks and presses hot keys    *)
(* while a number is being dialled, programs are ticked, the monitor and   *)
(* the trace move when their dates have come, and events catch him late.   *)
(* The crash or the end of the program is SaveAndLoadGame, taken where the *)
(* game was last saved; it is saved every minute and whenever it is closed.*)
(*                                                                         *)
(* The logs a connection leaves are the subject of LogTools; here only     *)
(* whether a disconnection leaves a suspicious one is told.                *)
(***************************************************************************)
EXTENDS Integers, Sequences, SequencesExt

CONSTANTS
  Hosts,       (* the computers of the world                               *)
  Gateway,     (* the player's own                                         *)
  Systems,     (* the types of a host's security systems, in their order   *)
  Tracing,     (* hosts with a trace action                                *)
  Accounts,    (* the accounts there are: pairs of a host and a level      *)
  Recodes,     (* the accounts of a host whose codes are changed           *)
  HotKeys,     (* the hosts of the hot keys F2 and F3                      *)
  SavedRoute,  (* the route saved on the map                               *)
  Programs,    (* the player's bypass programs                             *)
  Idle         (* no dialling; a bypass program without a target           *)

Ips    == Hosts \cup {Gateway}
Levels == {"admin", "user"}
Types  == {"monitor", "proxy", "firewall", "encryption"}

\* Every route begins at the player's gateway and goes nowhere twice.
IsRoute(r) == r \in Seq(Ips) /\ r # <<>> /\ Head(r) = Gateway /\ IsInjective(r)

ASSUME ConstantsAssumption ==
  /\ Gateway \notin Hosts
  /\ Systems \in [Ips -> Seq(Types)]
  /\ Systems[Gateway] = <<>>
  /\ Tracing \subseteq Hosts
  /\ Accounts \subseteq Hosts \X Levels
  /\ Recodes \in [Hosts -> SUBSET Levels]
  /\ HotKeys \subseteq Hosts
  /\ IsRoute(SavedRoute)

VARIABLES
  link,      (* the connection: see Link                                   *)
  screen,    (* the computer whose screens are shown                       *)
  dialler,   (* the number being dialled, and by whom                      *)
  disabled,  (* the security systems that are not enabled: <<host, index>> *)
  bypassed,  (* the security systems that are bypassed                     *)
  accounts,  (* the codes the player has noted, for a computer and a level,*)
             (* and that have not been changed since                       *)
  bypass     (* what the bypass programs do                                *)

vars == <<link, screen, dialler, disabled, bypassed, accounts, bypass>>

SystemsOf(h) == {h} \X (1..Len(Systems[h]))
AllSystems   == UNION {SystemsOf(h) : h \in Hosts}

\* The connection with the player's remotehost and the security monitor, which
\* begin and end with it.  hack and dropped are not in the code.  hack is what
\* became of the trace begun on the connection that is, or was the last; dropped
\* changes whenever a connection is made over one that is being traced.
Link == [vlocations: Seq(Ips), remotehost: Ips,
         traceinprogress: BOOLEAN, traceprogress: Nat,
         status: 0..2, index: Nat,
         hack: {"none", "open", "answered", "twice"}, dropped: BOOLEAN]

Dial == [scene: {"map"}, ip: Ips] \cup [scene: {"link", "bounce"}, ip: Hosts]

Bypassing == [host: Hosts, index: Nat, paused: BOOLEAN]

Init ==
  /\ link = [vlocations |-> <<Gateway>>, remotehost |-> Gateway,
             traceinprogress |-> FALSE, traceprogress |-> 0,
             status |-> 0, index |-> 1, hack |-> "none", dropped |-> FALSE]
  /\ screen = Gateway
  /\ dialler = Idle
  /\ disabled = {}
  /\ bypassed = {}
  /\ accounts = {}
  /\ bypass = [p \in Programs |-> Idle]

Connected == link.remotehost # Gateway

\* Whether a system of the type is enabled, when those in off are not, and is
\* not bypassed.
RunningWithout(off, h, type) ==
  \E i \in 1..Len(Systems[h]) :
    Systems[h][i] = type /\ <<h, i>> \notin off \cup bypassed

Running(h, type) == RunningWithout(disabled, h, type)

-----------------------------------------------------------------------------
(* What the methods of Connection make of a connection l.                  *)

GetTarget(l) == Last(l.vlocations)
GetSize(l)   == Len(l.vlocations)
Traced(l)    == l.traceinprogress /\ l.traceprogress = GetSize(l) - 1

AddVLocation(l, ip) ==
  IF ip \in ToSet(l.vlocations) THEN l
  ELSE [l EXCEPT !.vlocations = Append(@, ip)]

\* "Cannot remove the first location."
AddOrRemoveVLocation(l, ip) ==
  LET places == {i \in 2..GetSize(l) : l.vlocations[i] = ip}
  IN IF places # {}
     THEN [l EXCEPT !.vlocations = RemoveAt(@, CHOOSE i \in places : \A j \in places : i <= j)]
     ELSE AddVLocation(l, ip)

Reset(l) ==
  [l EXCEPT !.vlocations = <<Gateway>>, !.traceinprogress = FALSE, !.traceprogress = 0]

BeginTrace(l) ==
  IF l.traceinprogress \/ GetTarget(l) \notin Tracing THEN l
  ELSE [l EXCEPT !.traceinprogress = TRUE, !.traceprogress = 0,
                 !.hack = IF l.remotehost = Gateway THEN @ ELSE "open"]

\* Connect begins a trace at once where a system is among those in off, and
\* SecurityMonitor::BeginAttack does nothing where there is no system at all.
Connect(l, off) ==
  LET target == GetTarget(l)
      made   == [l EXCEPT !.remotehost = target,
                          !.traceinprogress = FALSE, !.traceprogress = 0,
                          !.status = IF Systems[target] = <<>> THEN @ ELSE 1,
                          !.index = IF Systems[target] = <<>> THEN @ ELSE 1,
                          !.hack = "none",
                          !.dropped = (l.hack = "open") # @]
  IN IF off \cap SystemsOf(target) = {} THEN made ELSE BeginTrace(made)

\* Another consequence of the trace of this connection.
Answer(hack) == IF hack = "open" THEN "answered" ELSE "twice"

\* Mutant: whoever was traced is marked, also when he has been caught.
DisconnectMarksAll(l) ==
  [l EXCEPT !.remotehost = Gateway, !.traceinprogress = FALSE, !.traceprogress = 0,
            !.status = 0,
            !.hack = IF l.traceinprogress /\ l.remotehost # Gateway THEN Answer(@) ELSE @]

\* Disconnect leaves a suspicious log if a trace was begun and not completed.
Disconnect(l) ==
  [l EXCEPT !.remotehost = Gateway, !.traceinprogress = FALSE, !.traceprogress = 0,
            !.status = 0,
            !.hack = IF l.traceinprogress /\ ~Traced(l) /\ l.remotehost # Gateway
                     THEN Answer(@) ELSE @]

HasAccount(h) == \E level \in Levels : <<h, level>> \in accounts

\* The computers at the end of the route that Disconnect has change their
\* codes, as many as the trace is past the middle, and at the middle one.
Rumbled(l) ==
  LET rumbledindex == l.traceprogress - (GetSize(l) - 1) \div 2
  IN {h \in Hosts : HasAccount(h) /\ \E i \in 0..rumbledindex : l.vlocations[GetSize(l) - i] = h}

\* ChangeSecurityCodes also enables every system again.
CodesChanged(hosts) ==
  /\ accounts' = {a \in accounts : a[1] \notin hosts \/ a[2] \notin Recodes[a[1]]}
  /\ disabled' = {s \in disabled : s[1] \notin hosts}

-----------------------------------------------------------------------------
(* The map, the links and accounts the player clicks on, the dialler.      *)

\* Mutant: the route can be edited while it is in use.
LocationClickAnytime(h) ==
  /\ link' = AddOrRemoveVLocation(link, h)
  /\ UNCHANGED <<screen, dialler, disabled, bypassed, accounts, bypass>>

\* The map's LocationClick; AutoClick and LoadConnection begin with Cancel.
LocationClick(h) ==
  /\ ~Connected
  /\ link' = AddOrRemoveVLocation(link, h)
  /\ UNCHANGED <<screen, dialler, disabled, bypassed, accounts, bypass>>

CancelClick ==
  /\ ~Connected
  /\ link' = Reset(link)
  /\ UNCHANGED <<screen, dialler, disabled, bypassed, accounts, bypass>>

\* The map's Disconnect button, and likewise a sysadmin who has found the
\* player, Revelation, the scripts, and the end of the game.
HangUp ==
  /\ Connected
  /\ link' = Reset(Disconnect(link))
  /\ CodesChanged(Rumbled(link))
  /\ screen' = Gateway
  /\ UNCHANGED <<dialler, bypassed, bypass>>

\* A new dialler takes the place of the one that is dialling.
ConnectClick ==
  /\ ~Connected
  /\ dialler' = [scene |-> "map", ip |-> GetTarget(link)]
  /\ UNCHANGED <<link, screen, disabled, bypassed, accounts, bypass>>

\* A link, or an account of the finance screen.  The screen stays, and so the
\* player may go on with what it shows though he is disconnected.
LinkClick(h) ==
  /\ link' = Reset(Disconnect(link))
  /\ CodesChanged(Rumbled(link))
  /\ dialler' = [scene |-> "link", ip |-> h]
  /\ UNCHANGED <<screen, bypassed, bypass>>

LinkMiddleClick(h) ==
  /\ dialler' = [scene |-> "bounce", ip |-> h]
  /\ UNCHANGED <<link, screen, disabled, bypassed, accounts, bypass>>

\* The number is dialled.  The map connects along the route as it is by now,
\* the others disconnect first and make their own; the locations of the saved
\* route, added one by one to the gateway, make that route again.
AfterPhoneDialler ==
  /\ dialler # Idle
  /\ dialler' = Idle
  /\ \/ /\ dialler.scene = "map"
        /\ link' = Connect(link, disabled)
        /\ UNCHANGED <<disabled, accounts>>
     \/ /\ dialler.scene # "map"
        /\ CodesChanged(Rumbled(link))
        /\ LET reset  == Reset(Disconnect(link))
               bounce == [reset EXCEPT !.vlocations = SavedRoute]
               route  == IF dialler.scene = "link" THEN reset
                         ELSE AddOrRemoveVLocation(bounce, dialler.ip)
           IN link' = Connect(AddVLocation(route, dialler.ip), disabled')
  /\ screen' = link'.remotehost
  /\ UNCHANGED <<bypassed, bypass>>

\* Mutant: the hot keys connect without a disconnection, as the map does.
ForceOpenIpOver(h) ==
  /\ link' = Connect(AddVLocation(Reset(link), h), disabled)
  /\ screen' = link'.remotehost
  /\ UNCHANGED <<dialler, disabled, accounts, bypassed, bypass>>

\* F2 and F3, which do not look whether a number is being dialled.
ForceOpenIp(h) ==
  /\ IF Connected
     THEN /\ CodesChanged(Rumbled(link))
          /\ link' = Connect(AddVLocation(Reset(Disconnect(link)), h), disabled')
     ELSE /\ link' = Connect(AddVLocation(link, h), disabled)
          /\ UNCHANGED <<disabled, accounts>>
  /\ screen' = link'.remotehost
  /\ UNCHANGED <<dialler, bypassed, bypass>>

\* App::LoadGame disconnects whatever the saved game was connected to.  The
\* programs and the dialler are not saved, the security systems are.
SaveAndLoadGame ==
  /\ link' = Reset(Disconnect(link))
  /\ CodesChanged(Rumbled(link))
  /\ screen' = Gateway
  /\ dialler' = Idle
  /\ bypass' = [p \in Programs |-> Idle]
  /\ UNCHANGED bypassed

-----------------------------------------------------------------------------
(* What the player does to the computer whose screens he sees.             *)

\* A password breaker, a decypherer or the like has been set to work.
Provoke ==
  /\ Running(screen, "monitor")
  /\ link' = BeginTrace(link)
  /\ UNCHANGED <<screen, dialler, disabled, bypassed, accounts, bypass>>

\* The code found, of an account of the computer shown, is noted for the remote
\* host: the gateway, if the screen with its password box is what a disconnection
\* has left.
Crack(level) ==
  /\ <<screen, level>> \in Accounts
  /\ accounts' = accounts \cup {<<link.remotehost, level>>}
  /\ UNCHANGED <<link, screen, dialler, disabled, bypassed, bypass>>

\* "Always trace admin access."
AdminLogin ==
  /\ Connected
  /\ <<screen, "admin">> \in accounts
  /\ link' = BeginTrace(link)
  /\ UNCHANGED <<screen, dialler, disabled, bypassed, accounts, bypass>>

\* The security screen's StatusClick.
StatusClick(i) ==
  /\ ~Running(screen, "proxy")
  /\ LET ss == <<screen, i>>
     IN disabled' = IF ss \in disabled THEN disabled \ {ss} ELSE disabled \cup {ss}
  /\ link' = IF RunningWithout(disabled', screen, "monitor") THEN BeginTrace(link)
             ELSE link
  /\ UNCHANGED <<screen, dialler, bypassed, accounts, bypass>>

\* ProxyDisable and FirewallDisable, at the end of their work.
Disable(type) ==
  /\ Connected
  /\ type \in {"proxy", "firewall"}
  /\ Running(link.remotehost, type)
  /\ disabled' = disabled \cup {s \in SystemsOf(link.remotehost) :
                                  Systems[s[1]][s[2]] = type /\ s \notin bypassed}
  /\ link' = IF type = "firewall" /\ Running(link.remotehost, "monitor")
             THEN BeginTrace(link) ELSE link
  /\ UNCHANGED <<screen, dialler, bypassed, accounts, bypass>>

-----------------------------------------------------------------------------
(* The bypass programs.                                                    *)

\* EndCurrentBypass of a program, on the systems that are bypassed.
Ended(p) ==
  IF bypass[p] = Idle THEN bypassed
  ELSE bypassed \ {<<bypass[p].host, bypass[p].index>>}

\* Mutant: the systems are counted from 0.
SetTargetBelow(p, i) ==
  /\ Connected
  /\ bypassed' = Ended(p) \cup {<<link.remotehost, i - 1>>}
  /\ bypass' = [bypass EXCEPT ![p] =
                  [host |-> link.remotehost, index |-> i - 1, paused |-> FALSE]]
  /\ UNCHANGED <<link, screen, dialler, disabled, accounts>>

SetTarget(p, i) ==
  /\ Connected
  /\ bypassed' = Ended(p) \cup {<<link.remotehost, i>>}
  /\ bypass' = [bypass EXCEPT ![p] =
                  [host |-> link.remotehost, index |-> i, paused |-> FALSE]]
  /\ UNCHANGED <<link, screen, dialler, disabled, accounts>>

PauseClick(p) ==
  /\ bypass[p] # Idle
  /\ bypass' = [bypass EXCEPT ![p].paused = ~@]
  /\ LET ss == <<bypass[p].host, bypass[p].index>>
     IN bypassed' = IF bypass[p].paused THEN bypassed \cup {ss} ELSE bypassed \ {ss}
  /\ UNCHANGED <<link, screen, dialler, disabled, accounts>>

Close(p) ==
  /\ bypass[p] # Idle
  /\ bypassed' = Ended(p)
  /\ bypass' = [bypass EXCEPT ![p] = Idle]
  /\ UNCHANGED <<link, screen, dialler, disabled, accounts>>

\* "Switch off if we have disconnected."
Tick(p) ==
  /\ bypass[p] # Idle
  /\ link.remotehost # bypass[p].host
  /\ bypassed' = Ended(p)
  /\ bypass' = [bypass EXCEPT ![p] = Idle]
  /\ UNCHANGED <<link, screen, dialler, disabled, accounts>>

-----------------------------------------------------------------------------
(* Player::Update: the monitor of the remote host, and the trace.          *)

Monitor ==
  /\ Connected
  /\ LET host == link.remotehost
     IN \/ /\ link.status = 1
           /\ Running(host, "monitor")
           /\ link' = [link EXCEPT !.status = 2]
        \/ /\ link.status = 2
           /\ LET seen == /\ Running(host, "monitor")
                          /\ <<host, link.index>> \in disabled \cup bypassed
                  now  == IF seen THEN BeginTrace(link) ELSE link
              IN link' = [now EXCEPT !.status = 1,
                                     !.index = IF @ < Len(Systems[host]) THEN @ + 1 ELSE 1]
  /\ UNCHANGED <<screen, dialler, disabled, bypassed, accounts, bypass>>

\* Mutant: the end of the trace is seen by the next update only.
UpdateTraceLate ==
  /\ Connected
  /\ link.traceinprogress
  /\ IF link.traceprogress < GetSize(link) - 1
     THEN /\ link' = [link EXCEPT !.traceprogress = @ + 1]
          /\ UNCHANGED <<screen, disabled, accounts>>
     ELSE /\ link' = Reset(Disconnect([link EXCEPT !.hack = Answer(@)]))
          /\ CodesChanged(Rumbled(link))
          /\ screen' = Gateway
  /\ UNCHANGED <<dialler, bypassed, bypass>>

\* Mutant: the trace stops at the first computer of the route.
UpdateTraceShort ==
  /\ Connected
  /\ link.traceinprogress
  /\ link.traceprogress < GetSize(link) - 2
  /\ link' = [link EXCEPT !.traceprogress = @ + 1]
  /\ UNCHANGED <<screen, dialler, disabled, bypassed, accounts, bypass>>

\* The trace takes another step, and if it has reached the player
\* ConsequenceGenerator::CaughtHacking disconnects him at once; the host may
\* change its codes besides.
UpdateTrace ==
  /\ Connected
  /\ link.traceinprogress
  /\ LET now == [link EXCEPT !.traceprogress = @ + 1]
     IN IF Traced(now)
        THEN /\ link' = Reset(Disconnect([now EXCEPT !.hack = Answer(@)]))
             /\ \E reset \in {{}, {link.remotehost}} : CodesChanged(Rumbled(now) \cup reset)
             /\ screen' = Gateway
        ELSE /\ link' = now
             /\ UNCHANGED <<screen, disabled, accounts>>
  /\ UNCHANGED <<dialler, bypassed, bypass>>

\* CaughtHacking, for a suspicious log of the host that was noticed.  He is
\* disconnected if he is connected there again, or has a route that ends there.
CaughtLater(h) ==
  /\ \E reset \in {{}, {h}} :
       IF GetTarget(link) = h
       THEN /\ link' = Reset(Disconnect(link))
            /\ screen' = Gateway
            /\ CodesChanged(Rumbled(link) \cup reset)
       ELSE /\ UNCHANGED <<link, screen>>
            /\ CodesChanged(reset)
  /\ UNCHANGED <<dialler, bypassed, bypass>>

-----------------------------------------------------------------------------

Player ==
  \/ \E h \in Hosts : LocationClick(h) \/ LinkClick(h) \/ LinkMiddleClick(h)
  \/ \E h \in HotKeys : ForceOpenIp(h)
  \/ CancelClick
  \/ HangUp
  \/ ConnectClick
  \/ SaveAndLoadGame

Hack ==
  \/ Provoke
  \/ AdminLogin
  \/ \E level \in Levels : Crack(level)
  \/ \E i \in 1..Len(Systems[screen]) : StatusClick(i)
  \/ \E type \in Types : Disable(type)
  \/ \E p \in Programs :
       \/ \E i \in 1..Len(Systems[link.remotehost]) : SetTarget(p, i)
       \/ PauseClick(p)
       \/ Close(p)
       \/ Tick(p)

World ==
  \/ AfterPhoneDialler
  \/ Monitor
  \/ UpdateTrace
  \/ \E h \in Hosts : CaughtLater(h)

Next == Player \/ Hack \/ World

Spec == Init /\ [][Next]_vars

\* Player::Update runs in every frame, and a trace that is begun moves on when
\* its next date has come.
FairSpec == Spec /\ WF_vars(UpdateTrace)

-----------------------------------------------------------------------------
(* Properties.                                                             *)

\* The codes are of accounts there are, or useless codes of the gateway.
TypeOK ==
  /\ link \in Link
  /\ screen \in Ips
  /\ dialler \in Dial \cup {Idle}
  /\ disabled \subseteq AllSystems
  /\ bypassed \subseteq AllSystems
  /\ accounts \subseteq Accounts \cup ({Gateway} \X Levels)
  /\ bypass \in [Programs -> Bypassing \cup {Idle}]

\* The two notions the code has of where the player is connected agree: the
\* end of the connection's route, which BeginTrace, Disconnect and the
\* consequences go by, and the person's remote host, which everything else
\* asks, though the route can be edited while a number is dialled.
RouteLeadsToRemoteHost ==
  Connected => /\ GetTarget(link) = link.remotehost
               /\ Head(link.vlocations) = Gateway
               /\ IsInjective(link.vlocations)

\* "So the player can't quickly disconnect": nothing the player does can come
\* between the end of a trace and its consequences.
CaughtAtOnce == Connected => ~Traced(link)

\* No trace has two consequences, and a trace that goes on has had none yet:
\* what is open is the trace of the connection that is.
AnsweredOnce ==
  /\ link.hack # "twice"
  /\ link.hack = "open" <=> Connected /\ link.traceinprogress

\* A trace that ends with the connection has its consequence: the player is
\* caught, or one suspicious log is left.  No other connection is made over a
\* trace, but in one case: the map was dialling when a hot key connected the
\* player, and now that the number is dialled connects him to the same computer
\* once more, without a disconnection.
NoTraceWithoutConsequence ==
  [][/\ link.hack = "open" /\ ~Connected' => link'.hack = "answered"
     /\ link'.dropped # link.dropped =>
          /\ Connected /\ link'.remotehost = link.remotehost
          /\ dialler # Idle /\ dialler.scene = "map" /\ dialler' = Idle]_vars

\* A trace does not go on for ever: the player is caught or he is gone, unless
\* he makes his connection anew again and again, by which every trace restarts.
TraceEnds ==
  \/ []<>~(Connected /\ link.traceinprogress)
  \/ []<><<link'.traceprogress < link.traceprogress>>_vars

\* A security system is bypassed only while a program bypasses it.
BypassHeld ==
  \A s \in bypassed :
    \E p \in Programs :
      bypass[p] # Idle /\ <<bypass[p].host, bypass[p].index>> = s /\ ~bypass[p].paused
=============================================================================
