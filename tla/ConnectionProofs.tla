-------------------------- MODULE ConnectionProofs --------------------------
(***************************************************************************)
(* That the trace, the consequences and the two notions of where the player*)
(* is connected stay in step, for any world of hosts and security systems, *)
(* routes of any length and any number of programs.                        *)
(***************************************************************************)
EXTENDS Connection, SequenceTheorems, TLAPS

\* A connection whose route leads to the remote host, whose trace has not yet
\* come to its end, and whose trace has not been answered while it is open.
Good(l) ==
  /\ l \in Link
  /\ IsRoute(l.vlocations)
  /\ l.remotehost # Gateway => Last(l.vlocations) = l.remotehost
  /\ l.remotehost # Gateway /\ l.traceinprogress =>
       l.traceprogress < Len(l.vlocations) - 1
  /\ l.hack # "twice"
  /\ l.hack = "open" <=> l.remotehost # Gateway /\ l.traceinprogress

\* The bypass programs are at work on systems that there are.
Aimed(b) ==
  \A p \in Programs : b[p] # Idle => <<b[p].host, b[p].index>> \in AllSystems

\* The codes there may be.
Noted == Accounts \cup ({Gateway} \X Levels)

\* While the player is connected the screens are those of the remote host.
Shown == link.remotehost # Gateway => screen = link.remotehost

\* The inductive invariant.
IInv == TypeOK /\ Good(link) /\ Aimed(bypass) /\ Shown

-----------------------------------------------------------------------------
(* Routes.                                                                 *)

LEMMA RouteFacts ==
  ASSUME NEW r, IsRoute(r)
  PROVE  /\ r \in Seq(Ips)
         /\ Len(r) \in Nat \ {0}
         /\ DOMAIN r = 1..Len(r)
         /\ \A i \in 1..Len(r) : r[i] \in Ips
         /\ r[1] = Gateway
         /\ \A i, j \in 1..Len(r) : r[i] = r[j] => i = j
<1>1. r \in Seq(Ips) /\ r # <<>> /\ Head(r) = Gateway /\ IsInjective(r)
  BY DEF IsRoute
<1>2. /\ Len(r) \in Nat /\ r \in [1..Len(r) -> Ips] /\ DOMAIN r = 1..Len(r)
  BY <1>1, LenProperties
<1>3. Len(r) # 0
  BY <1>1, EmptySeq
<1>4. r[1] = Gateway
  BY <1>1, <1>3, <1>2
<1> QED BY <1>1, <1>2, <1>3, <1>4 DEF IsInjective

LEMMA RouteBuilt ==
  ASSUME NEW r \in Seq(Ips), Len(r) > 0, r[1] = Gateway,
         \A i, j \in 1..Len(r) : r[i] = r[j] => i = j
  PROVE  IsRoute(r)
<1>1. Len(r) \in Nat /\ DOMAIN r = 1..Len(r)
  BY LenProperties
<1>2. r # <<>> /\ Head(r) = Gateway
  BY <1>1
<1> QED BY <1>1, <1>2 DEF IsRoute, IsInjective

LEMMA GatewayRoute == IsRoute(<<Gateway>>) /\ Len(<<Gateway>>) = 1
<1> DEFINE r == <<Gateway>>
<1>1. r \in Seq(Ips) /\ Len(r) = 1 /\ r[1] = Gateway
  BY DEF Ips
<1> HIDE DEF r
<1>2. \A i, j \in 1..Len(r) : r[i] = r[j] => i = j
  BY <1>1
<1>3. IsRoute(r)
  BY <1>1, <1>2, RouteBuilt
<1> QED BY <1>1, <1>3 DEF r

LEMMA GatewayIsIp == Gateway \in Ips
BY DEF Ips

\* A route that ends elsewhere than at the gateway is longer than the gateway.
LEMMA LastOfRoute ==
  ASSUME NEW r, IsRoute(r)
  PROVE  /\ Last(r) \in Ips
         /\ Last(r) # Gateway => Len(r) >= 2
BY RouteFacts DEF Last

LEMMA AppendRoute ==
  ASSUME NEW r, IsRoute(r), NEW ip \in Ips, ip \notin ToSet(r)
  PROVE  IsRoute(Append(r, ip))
<1>1. /\ r \in Seq(Ips) /\ Len(r) \in Nat \ {0} /\ DOMAIN r = 1..Len(r)
      /\ r[1] = Gateway
      /\ \A i, j \in 1..Len(r) : r[i] = r[j] => i = j
  BY RouteFacts
<1> DEFINE a == Append(r, ip)
<1>2. /\ a \in Seq(Ips) /\ Len(a) = Len(r) + 1 /\ a[Len(r) + 1] = ip
      /\ \A i \in 1..Len(r) : a[i] = r[i]
  BY <1>1, AppendProperties
<1>3. \A i \in 1..Len(r) : r[i] # ip
  BY <1>1 DEF ToSet
<1> HIDE DEF a
<1>4. \A i, j \in 1..Len(a) : a[i] = a[j] => i = j
  BY <1>1, <1>2, <1>3
<1>5. IsRoute(a)
  BY <1>1, <1>2, <1>4, RouteBuilt
<1> QED BY <1>5 DEF a

LEMMA RemoveRoute ==
  ASSUME NEW r, IsRoute(r), NEW k \in 2..Len(r)
  PROVE  IsRoute(RemoveAt(r, k))
<1>1. /\ r \in Seq(Ips) /\ Len(r) \in Nat \ {0}
      /\ \A i \in 1..Len(r) : r[i] \in Ips
      /\ r[1] = Gateway
      /\ \A i, j \in 1..Len(r) : r[i] = r[j] => i = j
  BY RouteFacts
<1> DEFINE s == SubSeq(r, 1, k - 1)
           t == SubSeq(r, k + 1, Len(r))
           u == s \o t
<1>2. s \in Seq(Ips) /\ Len(s) = k - 1 /\ \A i \in 1..(k - 1) : s[i] = r[i]
  <2>1. /\ SubSeq(r, 1, k - 1) \in Seq(Ips)
        /\ Len(SubSeq(r, 1, k - 1)) = IF 1 <= k - 1 THEN k - 1 - 1 + 1 ELSE 0
        /\ \A i \in 1..(k - 1 - 1 + 1) : SubSeq(r, 1, k - 1)[i] = r[1 + i - 1]
    BY <1>1, SubSeqProperties
  <2> QED BY <2>1
<1>3. t \in Seq(Ips) /\ Len(t) = Len(r) - k /\ \A i \in 1..(Len(r) - k) : t[i] = r[k + i]
  <2>1. /\ SubSeq(r, k + 1, Len(r)) \in Seq(Ips)
        /\ Len(SubSeq(r, k + 1, Len(r))) =
             IF k + 1 <= Len(r) THEN Len(r) - (k + 1) + 1 ELSE 0
        /\ \A i \in 1..(Len(r) - (k + 1) + 1) :
             SubSeq(r, k + 1, Len(r))[i] = r[k + 1 + i - 1]
    BY <1>1, SubSeqProperties
  <2> QED BY <1>1, <2>1
<1> HIDE DEF s, t
<1>4. /\ u \in Seq(Ips) /\ Len(u) = Len(s) + Len(t)
      /\ \A i \in 1..(Len(s) + Len(t)) : u[i] = IF i <= Len(s) THEN s[i] ELSE t[i - Len(s)]
  BY <1>2, <1>3, ConcatProperties
<1> HIDE DEF u
<1>5. Len(u) = Len(r) - 1 /\ \A i \in 1..Len(u) : u[i] = IF i < k THEN r[i] ELSE r[i + 1]
  <2>1. Len(u) = Len(r) - 1
    BY <1>1, <1>2, <1>3, <1>4
  <2>2. ASSUME NEW i \in 1..Len(u), i < k PROVE u[i] = r[i]
    BY <1>1, <1>2, <1>3, <1>4, <2>1, <2>2
  <2>3. ASSUME NEW i \in 1..Len(u), ~(i < k) PROVE u[i] = r[i + 1]
    <3>1. u[i] = t[i - (k - 1)] /\ i - (k - 1) \in 1..(Len(r) - k)
      BY <1>1, <1>2, <1>3, <1>4, <2>1, <2>3
    <3> QED BY <3>1, <1>1, <1>3
  <2> QED BY <2>1, <2>2, <2>3
<1>6. u[1] = Gateway
  BY <1>1, <1>5
<1>7. \A i, j \in 1..Len(u) : u[i] = u[j] => i = j
  BY <1>1, <1>5
<1>8. IsRoute(u)
  <2>1. u \in Seq(Ips)
    BY <1>4
  <2>2. Len(u) \in Nat /\ Len(u) >= 1
    BY <1>1, <1>5
  <2> QED BY <2>1, <2>2, <1>6, <1>7, RouteBuilt
<1> QED BY <1>8 DEF u, s, t, RemoveAt

-----------------------------------------------------------------------------
(* The methods of Connection.                                              *)

\* A connection that has ended, and what became of its trace.
Gone(l, h) ==
  [l EXCEPT !.remotehost = Gateway, !.traceinprogress = FALSE,
            !.traceprogress = 0, !.status = 0, !.hack = h]

LEMMA GoneFields ==
  ASSUME NEW l \in Link, NEW h \in {"none", "open", "answered", "twice"}
  PROVE  /\ Gone(l, h) \in Link
         /\ Gone(l, h).remotehost = Gateway
         /\ Gone(l, h).vlocations = l.vlocations
         /\ Gone(l, h).traceinprogress = FALSE
         /\ Gone(l, h).hack = h
<1> DEFINE d == Gone(l, h)
<1>1. d = [l EXCEPT !.remotehost = Gateway, !.traceinprogress = FALSE,
                    !.traceprogress = 0, !.status = 0, !.hack = h]
  BY DEF Gone
<1> HIDE DEF d
<1>2. 0 \in 0..2 /\ 0 \in Nat /\ FALSE \in BOOLEAN
  OBVIOUS
<1>3. d \in Link
  BY <1>1, <1>2, GatewayIsIp DEF Link
<1>4. d.remotehost = Gateway /\ d.vlocations = l.vlocations
  BY <1>1 DEF Link
<1>5. d.traceinprogress = FALSE
  BY <1>1 DEF Link
<1>6. d.hack = h
  BY <1>1 DEF Link
<1> QED BY <1>3, <1>4, <1>5, <1>6 DEF d

LEMMA GoneGood ==
  ASSUME NEW l \in Link, IsRoute(l.vlocations), NEW h \in {"none", "answered"}
  PROVE  Good(Gone(l, h)) /\ Gone(l, h).remotehost = Gateway
<1> DEFINE d == Gone(l, h)
<1>1. /\ d \in Link /\ d.remotehost = Gateway /\ d.vlocations = l.vlocations
      /\ d.traceinprogress = FALSE /\ d.hack = h
  <2>1. h \in {"none", "open", "answered", "twice"}
    OBVIOUS
  <2> QED BY <2>1, GoneFields
<1> HIDE DEF d
<1>2. IsRoute(d.vlocations)
  BY <1>1
<1>3. ~d.traceinprogress /\ d.hack # "twice" /\ d.hack # "open"
  BY <1>1
<1>4. Good(d)
  BY <1>1, <1>2, <1>3 DEF Good
<1> QED BY <1>1, <1>4 DEF d

LEMMA DisconnectGood ==
  ASSUME NEW l, Good(l)
  PROVE  Good(Disconnect(l)) /\ Disconnect(l).remotehost = Gateway
<1> DEFINE h == IF l.traceinprogress /\ ~Traced(l) /\ l.remotehost # Gateway
                THEN Answer(l.hack) ELSE l.hack
<1>1. h \in {"none", "answered"}
  BY DEF Good, Link, Traced, GetSize, Answer
<1>2. Disconnect(l) = Gone(l, h)
  BY DEF Disconnect, Gone
<1>3. l \in Link /\ IsRoute(l.vlocations)
  BY DEF Good
<1> HIDE DEF h
<1> QED BY <1>1, <1>2, <1>3, GoneGood

LEMMA ResetGood ==
  ASSUME NEW l, Good(l), l.remotehost = Gateway
  PROVE  Good(Reset(l)) /\ Reset(l).remotehost = Gateway
<1>1. IsRoute(<<Gateway>>) /\ <<Gateway>> \in Seq(Ips)
  BY GatewayRoute DEF IsRoute
<1> QED BY <1>1 DEF Good, Reset, Link, Ips

\* A route is only edited where the player is not connected.
LEMMA RerouteGood ==
  ASSUME NEW l, Good(l), l.remotehost = Gateway, NEW r, IsRoute(r)
  PROVE  /\ Good([l EXCEPT !.vlocations = r])
         /\ [l EXCEPT !.vlocations = r].remotehost = Gateway
         /\ [l EXCEPT !.vlocations = r].vlocations = r
BY DEF Good, Link, IsRoute

LEMMA AddVLocationGood ==
  ASSUME NEW l, Good(l), l.remotehost = Gateway, NEW ip \in Ips
  PROVE  Good(AddVLocation(l, ip)) /\ AddVLocation(l, ip).remotehost = Gateway
<1>1. CASE ip \in ToSet(l.vlocations)
  BY <1>1 DEF AddVLocation
<1>2. CASE ip \notin ToSet(l.vlocations)
  <2>1. IsRoute(Append(l.vlocations, ip))
    BY <1>2, AppendRoute DEF Good
  <2> QED BY <1>2, <2>1, RerouteGood DEF AddVLocation
<1> QED BY <1>1, <1>2

LEMMA AddOrRemoveVLocationGood ==
  ASSUME NEW l, Good(l), l.remotehost = Gateway, NEW ip \in Ips
  PROVE  /\ Good(AddOrRemoveVLocation(l, ip))
         /\ AddOrRemoveVLocation(l, ip).remotehost = Gateway
<1> DEFINE r == l.vlocations
           places == {i \in 2..GetSize(l) : r[i] = ip}
           k == CHOOSE i \in places : \A j \in places : i <= j
<1>1. /\ IsRoute(r) /\ Len(r) \in Nat
      /\ \A i, j \in 1..Len(r) : r[i] = r[j] => i = j
  BY RouteFacts DEF Good
<1>2. CASE places = {}
  BY <1>2, AddVLocationGood DEF AddOrRemoveVLocation
<1>3. CASE places # {}
  <2>1. \A i, j \in places : i = j /\ i \in Nat
    BY <1>1 DEF GetSize
  <2>2. \E i \in places : \A j \in places : i <= j
    BY <1>3, <2>1
  <2>3. k \in places
    BY <2>2
  <2>4. k \in 2..Len(r)
    BY <2>3 DEF GetSize
  <2> HIDE DEF k
  <2>5. IsRoute(RemoveAt(r, k))
    BY <1>1, <2>4, RemoveRoute
  <2>6. AddOrRemoveVLocation(l, ip) = [l EXCEPT !.vlocations = RemoveAt(r, k)]
    BY <1>3 DEF AddOrRemoveVLocation, k
  <2> QED BY <2>5, <2>6, RerouteGood
<1> QED BY <1>2, <1>3

LEMMA BeginTraceGood ==
  ASSUME NEW l, Good(l)
  PROVE  /\ Good(BeginTrace(l))
         /\ BeginTrace(l).remotehost = l.remotehost
         /\ BeginTrace(l).vlocations = l.vlocations
         /\ BeginTrace(l).dropped = l.dropped
<1>1. CASE l.traceinprogress \/ GetTarget(l) \notin Tracing
  BY <1>1 DEF BeginTrace
<1>2. CASE ~(l.traceinprogress \/ GetTarget(l) \notin Tracing)
  <2>1. l.remotehost # Gateway => 0 < Len(l.vlocations) - 1
    BY LastOfRoute, RouteFacts DEF Good
  <2> QED BY <1>2, <2>1 DEF BeginTrace, Good, Link
<1> QED BY <1>1, <1>2

LEMMA ConnectGood ==
  ASSUME NEW l, Good(l), NEW off
  PROVE  /\ Good(Connect(l, off)) /\ Connect(l, off).remotehost \in Ips
         /\ Connect(l, off).remotehost = GetTarget(l)
         /\ l.hack # "open" => Connect(l, off).dropped = l.dropped
<1> DEFINE target == GetTarget(l)
           made   == [l EXCEPT !.remotehost = target,
                               !.traceinprogress = FALSE, !.traceprogress = 0,
                               !.status = IF Systems[target] = <<>> THEN @ ELSE 1,
                               !.index = IF Systems[target] = <<>> THEN @ ELSE 1,
                               !.hack = "none",
                               !.dropped = (l.hack = "open") # @]
<1>1. target \in Ips /\ target = Last(l.vlocations)
  BY LastOfRoute DEF Good, GetTarget
<1>2. l \in Link /\ IsRoute(l.vlocations)
  BY DEF Good
<1> DEFINE status == IF Systems[target] = <<>> THEN l.status ELSE 1
           index  == IF Systems[target] = <<>> THEN l.index ELSE 1
           dropped == (l.hack = "open") # l.dropped
<1>3. /\ made = [l EXCEPT !.remotehost = target,
                          !.traceinprogress = FALSE, !.traceprogress = 0,
                          !.status = status, !.index = index, !.hack = "none",
                          !.dropped = dropped]
      /\ status \in 0..2 /\ index \in Nat /\ dropped \in BOOLEAN
      /\ l.hack # "open" => dropped = l.dropped
  BY <1>2 DEF Link
<1> HIDE DEF target, status, index, dropped
<1> HIDE DEF made
<1>4. /\ made \in Link /\ made.remotehost = target /\ made.vlocations = l.vlocations
      /\ ~made.traceinprogress /\ made.hack = "none" /\ made.dropped = dropped
  BY <1>1, <1>2, <1>3 DEF Link
<1>5. Good(made)
  BY <1>1, <1>2, <1>4 DEF Good
<1>6. Connect(l, off) = IF off \cap SystemsOf(target) = {} THEN made ELSE BeginTrace(made)
  BY DEF Connect, target, made
<1>7. target = GetTarget(l)
  BY DEF target
<1> QED BY <1>1, <1>3, <1>4, <1>5, <1>6, <1>7, BeginTraceGood

\* The number that is dialled is never the gateway's.
LEMMA AddVLocationLeaves ==
  ASSUME NEW l, Good(l), NEW ip \in Hosts
  PROVE  GetTarget(AddVLocation(l, ip)) # Gateway
<1> DEFINE r == l.vlocations
<1>1. /\ l \in Link /\ IsRoute(r) /\ ip # Gateway
  BY ConstantsAssumption DEF Good
<1>2. /\ r \in Seq(Ips) /\ Len(r) \in Nat \ {0} /\ DOMAIN r = 1..Len(r)
      /\ r[1] = Gateway /\ \A i, j \in 1..Len(r) : r[i] = r[j] => i = j
  BY <1>1, RouteFacts
<1>3. CASE ip \in ToSet(r)
  <2>1. PICK i \in 1..Len(r) : r[i] = ip
    BY <1>2, <1>3 DEF ToSet
  <2>2. Len(r) # 1
    BY <1>1, <1>2, <2>1
  <2>3. r[Len(r)] # Gateway
    <3>1. 1 \in 1..Len(r) /\ Len(r) \in 1..Len(r)
      BY <1>2
    <3>2. r[Len(r)] = r[1] => Len(r) = 1
      BY <1>2, <3>1
    <3> QED BY <1>2, <2>2, <3>2
  <2> QED BY <1>3, <2>3 DEF AddVLocation, GetTarget, Last
<1>4. CASE ip \notin ToSet(r)
  <2>1. AddVLocation(l, ip).vlocations = Append(r, ip)
    BY <1>1, <1>4 DEF AddVLocation, Link
  <2>2. ip \in Ips
    BY DEF Ips
  <2>3. Last(Append(r, ip)) = ip
    <3>1. Len(Append(r, ip)) = Len(r) + 1 /\ Append(r, ip)[Len(r) + 1] = ip
      BY <1>2, <2>2, AppendProperties
    <3> QED BY <3>1 DEF Last
  <2> QED BY <1>1, <2>1, <2>3 DEF GetTarget
<1> QED BY <1>3, <1>4

\* What the edits of a route leave alone.
LEMMA RouteOnly ==
  ASSUME NEW l \in Link, NEW ip
  PROVE  /\ Reset(l).hack = l.hack /\ Reset(l).dropped = l.dropped
         /\ AddVLocation(l, ip).hack = l.hack
         /\ AddVLocation(l, ip).dropped = l.dropped
         /\ AddOrRemoveVLocation(l, ip).hack = l.hack
         /\ AddOrRemoveVLocation(l, ip).dropped = l.dropped
BY DEF Reset, AddVLocation, AddOrRemoveVLocation, Link

\* Somebody who is disconnected is at his own gateway, and a trace of his has
\* been answered.
LEMMA HungUpGood ==
  ASSUME NEW l, Good(l)
  PROVE  /\ Good(Reset(Disconnect(l))) /\ Reset(Disconnect(l)).remotehost = Gateway
         /\ Reset(Disconnect(l)).hack # "open"
         /\ l.hack = "open" => Reset(Disconnect(l)).hack = "answered"
         /\ Reset(Disconnect(l)).dropped = l.dropped
<1>1. /\ Good(Disconnect(l)) /\ Disconnect(l).remotehost = Gateway
      /\ Disconnect(l) \in Link
  BY DisconnectGood DEF Good
<1>2. Good(Reset(Disconnect(l))) /\ Reset(Disconnect(l)).remotehost = Gateway
  BY <1>1, ResetGood
<1>3. Reset(Disconnect(l)).hack # "open"
  BY <1>2 DEF Good
<1>4. ASSUME l.hack = "open" PROVE Disconnect(l).hack = "answered"
  <2>1. l.remotehost # Gateway /\ l.traceinprogress /\ l \in Link
    BY <1>4 DEF Good
  <2>2. ~Traced(l)
    <3>1. l.traceprogress < Len(l.vlocations) - 1 /\ Len(l.vlocations) \in Nat
      BY <2>1, RouteFacts DEF Good
    <3> QED BY <3>1, <2>1 DEF Traced, GetSize, Link
  <2> QED BY <1>4, <2>1, <2>2 DEF Disconnect, Answer, Link
<1>5. Disconnect(l).dropped = l.dropped
  BY DEF Disconnect, Good, Link
<1> QED BY <1>1, <1>2, <1>3, <1>4, <1>5, RouteOnly

\* The trace has come to its end.
LEMMA CaughtGood ==
  ASSUME NEW l, Good(l), l.remotehost # Gateway, l.traceinprogress,
         NEW now, now = [l EXCEPT !.traceprogress = @ + 1], Traced(now)
  PROVE  /\ Good(Reset(Disconnect([now EXCEPT !.hack = Answer(@)])))
         /\ Reset(Disconnect([now EXCEPT !.hack = Answer(@)])).remotehost = Gateway
         /\ Reset(Disconnect([now EXCEPT !.hack = Answer(@)])).hack = "answered"
<1> DEFINE c == [now EXCEPT !.hack = Answer(@)]
<1>1. l.hack = "open" /\ now \in Link /\ now.hack = "open"
  BY DEF Good, Link
<1>2. /\ c \in Link /\ c.vlocations = l.vlocations
      /\ Traced(c) /\ c.hack = "answered"
  BY <1>1 DEF Good, Link, Answer, Traced, GetSize
<1>3. IsRoute(l.vlocations)
  BY DEF Good
<1> HIDE DEF c
<1>4. Disconnect(c) = Gone(c, "answered")
  BY <1>2 DEF Disconnect, Gone
<1>5. Good(Disconnect(c)) /\ Disconnect(c).remotehost = Gateway
  BY <1>2, <1>3, <1>4, GoneGood
<1>6. Disconnect(c).hack = "answered"
  <2>1. Gone(c, "answered").hack = "answered"
    BY <1>2, GoneFields
  <2> QED BY <2>1, <1>4
<1>7. Reset(Disconnect(c)).hack = "answered"
  BY <1>5, <1>6 DEF Reset, Good, Link
<1> QED BY <1>5, <1>7, ResetGood DEF c

-----------------------------------------------------------------------------
(* Every step keeps the invariant.                                         *)

LEMMA InitInv == Init => IInv
<1> SUFFICES ASSUME Init PROVE IInv
  OBVIOUS
<1>1. IsRoute(<<Gateway>>) /\ <<Gateway>> \in Seq(Ips)
  BY GatewayRoute DEF IsRoute
<1>2. Good(link)
  BY <1>1, GatewayIsIp DEF Init, Good, Link
<1>3. TypeOK
  BY <1>2, GatewayIsIp DEF Init, TypeOK, Good
<1>4. Aimed(bypass) /\ Shown
  BY DEF Init, Aimed, Shown
<1> QED BY <1>2, <1>3, <1>4 DEF IInv

\* ChangeSecurityCodes only takes away.
LEMMA CodesChangedTypes ==
  ASSUME TypeOK, NEW hosts, CodesChanged(hosts)
  PROVE  accounts' \subseteq Noted /\ disabled' \subseteq AllSystems
BY DEF TypeOK, CodesChanged, Noted

\* An action that leaves the programs alone.
LEMMA LinkStep ==
  ASSUME IInv, Good(link)', Shown', screen' \in Ips, dialler' \in Dial \cup {Idle},
         accounts' \subseteq Noted, disabled' \subseteq AllSystems,
         UNCHANGED <<bypassed, bypass>>
  PROVE  IInv'
BY DEF IInv, TypeOK, Good, Aimed, Noted

LEMMA PlayerStep == IInv /\ Player => IInv'
<1> SUFFICES ASSUME IInv, Player PROVE IInv'
  OBVIOUS
<1> USE DEF IInv
<1>a. /\ link \in Link /\ screen \in Ips /\ dialler \in Dial \cup {Idle}
      /\ accounts \subseteq Noted /\ disabled \subseteq AllSystems
      /\ Hosts \subseteq Ips
  BY DEF TypeOK, Ips, Noted
<1>b. /\ Good(Reset(Disconnect(link)))
      /\ Reset(Disconnect(link)).remotehost = Gateway
  BY HungUpGood
<1>1. CASE \E h \in Hosts : LocationClick(h)
  <2> PICK h \in Hosts : LocationClick(h)
    BY <1>1
  <2>1. Good(AddOrRemoveVLocation(link, h)) /\ AddOrRemoveVLocation(link, h).remotehost = Gateway
    BY <1>a, AddOrRemoveVLocationGood DEF LocationClick, Connected
  <2>2. Good(link)' /\ Shown'
    BY <2>1 DEF LocationClick, Shown
  <2> QED BY <2>2, <1>a, LinkStep DEF LocationClick
<1>2. CASE \E h \in Hosts : LinkClick(h)
  <2> PICK h \in Hosts : LinkClick(h)
    BY <1>2
  <2>1. [scene |-> "link", ip |-> h] \in Dial
    BY DEF Dial
  <2>2. accounts' \subseteq Noted /\ disabled' \subseteq AllSystems
    BY CodesChangedTypes DEF LinkClick
  <2> QED BY <2>1, <2>2, <1>a, <1>b, LinkStep DEF Shown, LinkClick
<1>3. CASE \E h \in Hosts : LinkMiddleClick(h)
  <2> PICK h \in Hosts : LinkMiddleClick(h)
    BY <1>3
  <2>1. [scene |-> "bounce", ip |-> h] \in Dial
    BY DEF Dial
  <2> QED BY <2>1, <1>a, LinkStep DEF Shown, LinkMiddleClick, Good
<1>4. CASE \E h \in HotKeys : ForceOpenIp(h)
  <2> PICK h \in HotKeys : ForceOpenIp(h)
    BY <1>4
  <2>1. h \in Ips
    BY <1>a, ConstantsAssumption
  <2>2. Good(link)' /\ link'.remotehost \in Ips
    <3>1. CASE Connected
      BY <3>1, <2>1, <1>b, AddVLocationGood, ConnectGood DEF ForceOpenIp
    <3>2. CASE ~Connected
      <4>1. Good(AddVLocation(link, h))
        BY <3>2, <2>1, AddVLocationGood DEF Connected
      <4> QED BY <3>2, <4>1, ConnectGood DEF ForceOpenIp
    <3> QED BY <3>1, <3>2
  <2>3. accounts' \subseteq Noted /\ disabled' \subseteq AllSystems
    BY <1>a, CodesChangedTypes DEF ForceOpenIp
  <2> QED BY <2>2, <2>3, <1>a, LinkStep DEF Shown, ForceOpenIp
<1>5. CASE CancelClick
  <2>1. Good(Reset(link)) /\ Reset(link).remotehost = Gateway
    BY <1>5, ResetGood DEF CancelClick, Connected
  <2>2. Good(link)' /\ Shown'
    BY <1>5, <2>1 DEF CancelClick, Shown
  <2> QED BY <1>5, <2>2, <1>a, LinkStep DEF CancelClick
<1>6. CASE HangUp
  <2>1. accounts' \subseteq Noted /\ disabled' \subseteq AllSystems
    BY <1>6, CodesChangedTypes DEF HangUp
  <2> QED BY <1>6, <2>1, <1>a, <1>b, GatewayIsIp, LinkStep DEF Shown, HangUp
<1>7. CASE ConnectClick
  <2>1. GetTarget(link) \in Ips
    BY LastOfRoute DEF Good, GetTarget
  <2>2. [scene |-> "map", ip |-> GetTarget(link)] \in Dial
    BY <2>1 DEF Dial
  <2> QED BY <1>7, <2>2, <1>a, LinkStep DEF Shown, ConnectClick, Good
<1>8. CASE SaveAndLoadGame
  <2>1. accounts' \subseteq Noted /\ disabled' \subseteq AllSystems
    BY <1>8, CodesChangedTypes DEF SaveAndLoadGame
  <2>2. Good(link)'
    BY <1>8, <1>b DEF SaveAndLoadGame
  <2>3. bypass' \in [Programs -> Bypassing \cup {Idle}] /\ Aimed(bypass')
    BY <1>8 DEF SaveAndLoadGame, Aimed
  <2>4. TypeOK'
    BY <1>8, <2>1, <2>2, <2>3, GatewayIsIp DEF SaveAndLoadGame, TypeOK, Good, Noted
  <2> QED BY <1>8, <1>b, <2>2, <2>3, <2>4 DEF Aimed, Shown, SaveAndLoadGame
<1> QED BY <1>1, <1>2, <1>3, <1>4, <1>5, <1>6, <1>7, <1>8 DEF Player

\* An action of the programs leaves the connection alone.
LEMMA ProgramStep ==
  ASSUME IInv, UNCHANGED <<link, screen, dialler, disabled, accounts>>,
         bypassed' \subseteq AllSystems,
         bypass' \in [Programs -> Bypassing \cup {Idle}], Aimed(bypass')
  PROVE  IInv'
BY DEF IInv, TypeOK, Good, Aimed, Shown

\* The bypass of a program replaced by another.
LEMMA Redirected ==
  ASSUME NEW b \in [Programs -> Bypassing \cup {Idle}], Aimed(b), NEW p \in Programs,
         NEW x \in Bypassing \cup {Idle}, x # Idle => <<x.host, x.index>> \in AllSystems
  PROVE  /\ [b EXCEPT ![p] = x] \in [Programs -> Bypassing \cup {Idle}]
         /\ Aimed([b EXCEPT ![p] = x])
BY DEF Aimed

LEMMA SystemsOfAll ==
  ASSUME NEW h \in Hosts
  PROVE  SystemsOf(h) \subseteq AllSystems
BY DEF AllSystems

\* A system of the computer that is named by its number.
LEMMA SystemNumbered ==
  ASSUME NEW h \in Ips, NEW i \in 1..Len(Systems[h])
  PROVE  h \in Hosts /\ i \in Nat /\ <<h, i>> \in AllSystems
<1>1. h # Gateway
  <2>1. Len(<<>>) = 0
    OBVIOUS
  <2> QED BY <2>1, ConstantsAssumption
<1>2. h \in Hosts
  BY <1>1 DEF Ips
<1>3. <<h, i>> \in SystemsOf(h) /\ i \in Nat
  BY DEF SystemsOf
<1> QED BY <1>2, <1>3, SystemsOfAll

LEMMA HackStep == IInv /\ Hack => IInv'
<1> SUFFICES ASSUME IInv, Hack PROVE IInv'
  OBVIOUS
<1> USE DEF IInv
<1>a. /\ link \in Link /\ screen \in Ips /\ dialler \in Dial \cup {Idle}
      /\ accounts \subseteq Noted /\ disabled \subseteq AllSystems
      /\ bypassed \subseteq AllSystems
      /\ bypass \in [Programs -> Bypassing \cup {Idle}]
      /\ link.remotehost \in Ips
  BY DEF TypeOK, Link, Noted
<1>b. Good(BeginTrace(link)) /\ BeginTrace(link).remotehost = link.remotehost
  BY BeginTraceGood
<1>c. Connected => link.remotehost \in Hosts
  BY <1>a DEF Connected, Ips
<1>1. CASE Provoke
  BY <1>1, <1>a, <1>b, LinkStep DEF Shown, Provoke
<1>2. CASE AdminLogin
  BY <1>2, <1>a, <1>b, LinkStep DEF Shown, AdminLogin
<1>3. CASE \E level \in Levels : Crack(level)
  <2> PICK level \in Levels : Crack(level)
    BY <1>3
  <2>1. <<link.remotehost, level>> \in Noted
    BY <1>a DEF Crack, Shown, Noted
  <2>2. accounts' \subseteq Noted
    BY <2>1, <1>a DEF Crack
  <2> QED BY <2>2, <1>a, LinkStep DEF Crack, Good, Shown
<1>4. CASE \E i \in 1..Len(Systems[screen]) : StatusClick(i)
  <2> PICK i \in 1..Len(Systems[screen]) : StatusClick(i)
    BY <1>4
  <2>1. <<screen, i>> \in AllSystems
    BY <1>a, SystemNumbered
  <2>2. disabled' \subseteq AllSystems
    BY <2>1, <1>a DEF StatusClick
  <2>3. Good(link)' /\ link'.remotehost = link.remotehost
    BY <1>b DEF StatusClick
  <2>4. Shown'
    BY <2>3 DEF Shown, StatusClick
  <2> QED BY <2>2, <2>3, <2>4, <1>a, LinkStep DEF StatusClick
<1>5. CASE \E type \in Types : Disable(type)
  <2> PICK type \in Types : Disable(type)
    BY <1>5
  <2>1. disabled' \subseteq AllSystems
    BY <1>a, <1>c, SystemsOfAll DEF Disable
  <2>2. Good(link)' /\ link'.remotehost = link.remotehost
    BY <1>b DEF Disable
  <2>3. Shown'
    BY <2>2 DEF Shown, Disable
  <2> QED BY <2>1, <2>2, <2>3, <1>a, LinkStep DEF Disable
<1>6. ASSUME NEW p \in Programs PROVE Ended(p) \subseteq AllSystems
  BY <1>a DEF Ended
<1>7. CASE \E p \in Programs : \E i \in 1..Len(Systems[link.remotehost]) : SetTarget(p, i)
  <2> PICK p \in Programs, i \in 1..Len(Systems[link.remotehost]) : SetTarget(p, i)
    BY <1>7
  <2> DEFINE x == [host |-> link.remotehost, index |-> i, paused |-> FALSE]
  <2>1. /\ link.remotehost \in Hosts /\ i \in Nat
        /\ <<link.remotehost, i>> \in AllSystems
    BY <1>a, SystemNumbered
  <2>2. x \in Bypassing /\ x.host = link.remotehost /\ x.index = i
    BY <2>1 DEF Bypassing
  <2>3. bypass' = [bypass EXCEPT ![p] = x]
    BY DEF SetTarget
  <2> HIDE DEF x
  <2>4. bypass' \in [Programs -> Bypassing \cup {Idle}] /\ Aimed(bypass')
    BY <1>a, <2>1, <2>2, <2>3, Redirected
  <2>5. bypassed' \subseteq AllSystems
    BY <2>1, <1>6 DEF SetTarget
  <2> QED BY <2>4, <2>5, ProgramStep DEF SetTarget
<1>8. CASE \E p \in Programs : PauseClick(p)
  <2> PICK p \in Programs : PauseClick(p)
    BY <1>8
  <2> DEFINE x == [bypass[p] EXCEPT !.paused = ~@]
  <2>1. bypass[p] \in Bypassing /\ <<bypass[p].host, bypass[p].index>> \in AllSystems
    BY <1>a DEF PauseClick, Aimed
  <2>2. x \in Bypassing /\ x.host = bypass[p].host /\ x.index = bypass[p].index
    BY <2>1 DEF Bypassing
  <2>3. bypass' = [bypass EXCEPT ![p] = x]
    BY <1>a DEF PauseClick
  <2> HIDE DEF x
  <2>4. bypass' \in [Programs -> Bypassing \cup {Idle}] /\ Aimed(bypass')
    BY <1>a, <2>1, <2>2, <2>3, Redirected
  <2>5. bypassed' \subseteq AllSystems
    BY <2>1, <1>a DEF PauseClick
  <2> QED BY <2>4, <2>5, ProgramStep DEF PauseClick
<1>9. ASSUME NEW p \in Programs, Close(p) \/ Tick(p) PROVE IInv'
  <2>1. bypass' = [bypass EXCEPT ![p] = Idle] /\ bypassed' = Ended(p)
    BY <1>9 DEF Close, Tick
  <2>2. bypass' \in [Programs -> Bypassing \cup {Idle}] /\ Aimed(bypass')
    BY <1>a, <2>1, Redirected
  <2>3. UNCHANGED <<link, screen, dialler, disabled, accounts>>
    BY <1>9 DEF Close, Tick
  <2> QED BY <1>6, <2>1, <2>2, <2>3, ProgramStep
<1> QED BY <1>1, <1>2, <1>3, <1>4, <1>5, <1>7, <1>8, <1>9 DEF Hack

LEMMA WorldStep == IInv /\ World => IInv'
<1> SUFFICES ASSUME IInv, World PROVE IInv'
  OBVIOUS
<1> USE DEF IInv
<1>a. /\ link \in Link /\ screen \in Ips /\ dialler \in Dial \cup {Idle}
      /\ accounts \subseteq Noted /\ disabled \subseteq AllSystems
  BY DEF TypeOK, Noted
<1>b. /\ Good(Reset(Disconnect(link)))
      /\ Reset(Disconnect(link)).remotehost = Gateway
  BY HungUpGood
<1>1. CASE AfterPhoneDialler
  <2>1. Good(link)' /\ link'.remotehost \in Ips
    <3>1. CASE dialler.scene = "map"
      BY <1>1, <3>1, ConnectGood DEF AfterPhoneDialler
    <3>2. CASE dialler.scene # "map"
      <4> DEFINE reset  == Reset(Disconnect(link))
                 bounce == [reset EXCEPT !.vlocations = SavedRoute]
                 route  == IF dialler.scene = "link" THEN reset
                           ELSE AddOrRemoveVLocation(bounce, dialler.ip)
                 all    == AddVLocation(route, dialler.ip)
      <4>1. dialler.ip \in Ips
        BY <1>1, <1>a DEF AfterPhoneDialler, Dial, Ips
      <4>2. Good(bounce) /\ bounce.remotehost = Gateway
        BY <1>b, RerouteGood, ConstantsAssumption
      <4>3. Good(route) /\ route.remotehost = Gateway
        BY <1>b, <4>1, <4>2, AddOrRemoveVLocationGood
      <4>4. Good(all)
        BY <4>1, <4>3, AddVLocationGood
      <4>5. link' = Connect(all, disabled')
        BY <1>1, <3>2 DEF AfterPhoneDialler
      <4> HIDE DEF all
      <4> QED BY <4>4, <4>5, ConnectGood
    <3> QED BY <3>1, <3>2
  <2>2. accounts' \subseteq Noted /\ disabled' \subseteq AllSystems
    BY <1>1, <1>a, CodesChangedTypes DEF AfterPhoneDialler
  <2> QED BY <1>1, <2>1, <2>2, LinkStep DEF Shown, AfterPhoneDialler
<1>2. CASE Monitor
  <2>1. Good(link)' /\ link'.remotehost = link.remotehost
    <3>1. CASE link' = [link EXCEPT !.status = 2]
      BY <3>1 DEF Good, Link
    <3>2. ASSUME NEW now, now = link \/ now = BeginTrace(link),
                 NEW n \in Nat, link' = [now EXCEPT !.status = 1, !.index = n]
          PROVE  Good(link)' /\ link'.remotehost = link.remotehost
      <4>1. Good(now) /\ now.remotehost = link.remotehost
        BY <3>2, BeginTraceGood
      <4> DEFINE x == [now EXCEPT !.status = 1, !.index = n]
      <4>2. now \in Link /\ 1 \in 0..2
        BY <4>1 DEF Good
      <4>3. x \in Link
        BY <4>2 DEF Link
      <4>4. /\ x.vlocations = now.vlocations /\ x.remotehost = now.remotehost
            /\ x.traceinprogress = now.traceinprogress
            /\ x.traceprogress = now.traceprogress /\ x.hack = now.hack
        BY <4>2 DEF Link
      <4> HIDE DEF x
      <4>5. Good(x)
        BY <4>1, <4>3, <4>4 DEF Good
      <4>6. link' = x
        BY <3>2 DEF x
      <4> QED BY <4>1, <4>4, <4>5, <4>6
    <3>3. ASSUME NEW now, now = link \/ now = BeginTrace(link),
                 NEW m, link' = [now EXCEPT !.status = 1, !.index = IF @ < m THEN @ + 1 ELSE 1]
          PROVE  Good(link)' /\ link'.remotehost = link.remotehost
      <4>1. now \in Link
        BY <3>3, BeginTraceGood DEF Good
      <4>2. now.index \in Nat
        BY <4>1 DEF Link
      <4>3. (IF now.index < m THEN now.index + 1 ELSE 1) \in Nat
        BY <4>2
      <4> QED BY <3>2, <3>3, <4>3
    <3> QED BY <1>2, <3>1, <3>3 DEF Monitor
  <2>2. Shown'
    BY <1>2, <2>1 DEF Shown, Monitor
  <2> QED BY <1>2, <2>1, <2>2, <1>a, LinkStep DEF Monitor
<1>3. CASE UpdateTrace
  <2> DEFINE now == [link EXCEPT !.traceprogress = @ + 1]
  <2>1. Connected /\ link.traceinprogress
    BY <1>3 DEF UpdateTrace
  <2>2. CASE Traced(now)
    <3>1. Good(link)' /\ link'.remotehost = Gateway
      BY <1>3, <2>1, <2>2, CaughtGood DEF UpdateTrace, Connected
    <3>3. Shown'
      BY <3>1 DEF Shown
    <3>2. accounts' \subseteq Noted /\ disabled' \subseteq AllSystems
      BY <1>3, <2>2, CodesChangedTypes DEF UpdateTrace
    <3> QED BY <1>3, <2>2, <3>1, <3>2, <3>3, <1>a, GatewayIsIp, LinkStep DEF UpdateTrace
  <2>3. CASE ~Traced(now)
    <3>1. link' = now /\ UNCHANGED <<screen, dialler, disabled, bypassed, accounts, bypass>>
      BY <1>3, <2>3 DEF UpdateTrace
    <3>2. /\ now \in Link /\ now.traceinprogress = link.traceinprogress
          /\ now.vlocations = link.vlocations
          /\ now.remotehost = link.remotehost /\ now.hack = link.hack
          /\ now.traceprogress = link.traceprogress + 1
      BY <1>a DEF Link
    <3>3. link.traceprogress < Len(link.vlocations) - 1
      BY <2>1 DEF Good, Connected
    <3>4. link.traceprogress \in Nat
      BY <1>a DEF Link
    <3>5. now.traceprogress # Len(link.vlocations) - 1
      BY <2>1, <2>3, <3>2 DEF Traced, GetSize
    <3>6. Len(link.vlocations) \in Nat
      BY RouteFacts DEF Good
    <3>7. now.traceprogress < Len(now.vlocations) - 1
      BY <3>2, <3>3, <3>5, <3>6, <3>4
    <3> HIDE DEF now
    <3>8. Good(now)
      BY <3>2, <3>7 DEF Good
    <3> QED BY <3>1, <3>2, <3>8, <1>a, LinkStep DEF Shown, now
  <2> QED BY <2>2, <2>3
<1>4. CASE \E h \in Hosts : CaughtLater(h)
  <2> PICK h \in Hosts : CaughtLater(h)
    BY <1>4
  <2>1. Good(link)' /\ screen' \in Ips
    BY <1>a, <1>b, GatewayIsIp DEF CaughtLater
  <2>2. accounts' \subseteq Noted /\ disabled' \subseteq AllSystems
    BY CodesChangedTypes DEF CaughtLater
  <2>3. Shown'
    BY <1>b DEF CaughtLater, Shown
  <2> QED BY <2>1, <2>2, <2>3, <1>a, LinkStep DEF CaughtLater
<1> QED BY <1>1, <1>2, <1>3, <1>4 DEF World

-----------------------------------------------------------------------------
(* The theorems.                                                           *)

\* The invariant holds in every state the player, the programs and the world
\* can bring about.
THEOREM Invariance == Spec => []IInv
<1>1. Init => IInv
  BY InitInv
<1>2. IInv /\ [Next]_vars => IInv'
  <2> SUFFICES ASSUME IInv, [Next]_vars PROVE IInv'
    OBVIOUS
  <2>1. CASE Next
    BY <2>1, PlayerStep, HackStep, WorldStep DEF Next
  <2>2. CASE UNCHANGED vars
    BY <2>2 DEF vars, IInv, TypeOK, Good, Aimed, Shown
  <2> QED BY <2>1, <2>2
<1> QED BY <1>1, <1>2, PTL DEF Spec

\* Every variable keeps its type; the computers, systems and accounts that are
\* named are ones that there are.
THEOREM TypesKept == Spec => []TypeOK
<1>1. IInv => TypeOK
  BY DEF IInv
<1> QED BY <1>1, Invariance, PTL

\* Where the player is connected is the end of the connection's route, whatever
\* he clicks while a number is being dialled.
THEOREM RouteEndsAtRemoteHost == Spec => []RouteLeadsToRemoteHost
<1>1. IInv => RouteLeadsToRemoteHost
  BY DEF IInv, Good, RouteLeadsToRemoteHost, Connected, GetTarget, IsRoute
<1> QED BY <1>1, Invariance, PTL

\* No state has a completed trace of somebody who is still connected.
THEOREM NobodyEscapesATrace == Spec => []CaughtAtOnce
<1>1. IInv => CaughtAtOnce
  <2> SUFFICES ASSUME IInv, Connected, Traced(link) PROVE FALSE
    BY DEF CaughtAtOnce
  <2>1. link.traceprogress < Len(link.vlocations) - 1
    BY DEF IInv, Good, Connected, Traced
  <2>2. Len(link.vlocations) \in Nat
    BY RouteFacts DEF IInv, Good
  <2> QED BY <2>1, <2>2 DEF Traced, GetSize
<1> QED BY <1>1, Invariance, PTL

\* No trace has two consequences, and the one that is open is that of the
\* connection the player has.
THEOREM EveryTraceAnswered == Spec => []AnsweredOnce
<1>1. IInv => AnsweredOnce
  BY DEF IInv, Good, AnsweredOnce, Connected
<1> QED BY <1>1, Invariance, PTL

\* Every other callback leaves the connection to the same computer.
SameConnection == link'.remotehost = link.remotehost /\ link'.dropped = link.dropped

LEMMA TicksKeepConnection ==
  ASSUME IInv, Hack \/ Monitor
  PROVE  SameConnection
<1>1. /\ link \in Link
      /\ BeginTrace(link).remotehost = link.remotehost
      /\ BeginTrace(link).dropped = link.dropped
  BY BeginTraceGood DEF IInv, TypeOK
<1>2. CASE Hack
  BY <1>1, <1>2 DEF Hack, Provoke, AdminLogin, Crack, StatusClick, Disable, SetTarget,
                    PauseClick, Close, Tick, SameConnection
<1>3. CASE Monitor
  <2>1. PICK now \in {link, BeginTrace(link)} :
          \/ link' = [link EXCEPT !.status = 2]
          \/ \E n : link' = [now EXCEPT !.status = 1, !.index = n]
    BY <1>3 DEF Monitor
  <2>2. now \in Link /\ now.remotehost = link.remotehost /\ now.dropped = link.dropped
    BY <1>1, BeginTraceGood DEF IInv, Good
  <2> QED BY <1>1, <2>1, <2>2 DEF Link, SameConnection
<1> QED BY <1>2, <1>3

\* No connection ends, and none but one to the same computer is made over a
\* trace, without the consequence of the trace.
THEOREM NoTraceGetsAway == Spec => NoTraceWithoutConsequence
<1>1. IInv /\ [Next]_vars =>
        [/\ link.hack = "open" /\ ~Connected' => link'.hack = "answered"
         /\ link'.dropped # link.dropped =>
              /\ Connected /\ link'.remotehost = link.remotehost
              /\ dialler # Idle /\ dialler.scene = "map" /\ dialler' = Idle]_vars
  <2> SUFFICES ASSUME IInv, Next
               PROVE  /\ link.hack = "open" /\ ~Connected' => link'.hack = "answered"
                      /\ link'.dropped # link.dropped =>
                           /\ Connected /\ link'.remotehost = link.remotehost
                           /\ dialler # Idle /\ dialler.scene = "map" /\ dialler' = Idle
    OBVIOUS
  <2> DEFINE hung == Reset(Disconnect(link))
  <2>1. /\ Good(link) /\ link \in Link
        /\ link.hack = "open" => Connected /\ GetTarget(link) = link.remotehost
    BY DEF IInv, Good, Connected, GetTarget
  <2>2. /\ Good(hung) /\ hung \in Link /\ hung.remotehost = Gateway
        /\ hung.hack # "open" /\ hung.dropped = link.dropped
        /\ link.hack = "open" => hung.hack = "answered"
    BY <2>1, HungUpGood DEF Good
  <2> HIDE DEF hung
  <2>3. CASE SameConnection
    BY <2>1, <2>3 DEF SameConnection, Connected
  <2>4. CASE link' = hung
    BY <2>2, <2>4
  <2>5. CASE \E h \in Hosts : LocationClick(h)
    BY <2>1, <2>5, RouteOnly DEF LocationClick
  <2>6. CASE CancelClick
    BY <2>1, <2>6, RouteOnly DEF CancelClick
  <2>7. CASE \E h \in HotKeys : ForceOpenIp(h)
    <3> PICK h \in HotKeys : ForceOpenIp(h)
      BY <2>7
    <3>1. h \in Hosts /\ h \in Ips
      BY ConstantsAssumption DEF Ips
    <3>2. PICK l \in {hung, link} :
            /\ l.hack # "open" /\ Good(l) /\ l \in Link /\ l.dropped = link.dropped
            /\ l.remotehost = Gateway
            /\ \E off : link' = Connect(AddVLocation(l, h), off)
      BY <2>1, <2>2 DEF ForceOpenIp, hung, Connected
    <3>3. PICK off : link' = Connect(AddVLocation(l, h), off)
      BY <3>2
    <3>4. /\ l.hack # "open" /\ Good(l) /\ l \in Link /\ l.dropped = link.dropped
          /\ l.remotehost = Gateway
          /\ link' = Connect(AddVLocation(l, h), off)
      BY <3>2, <3>3
    <3>5. /\ Good(AddVLocation(l, h)) /\ AddVLocation(l, h).hack # "open"
          /\ AddVLocation(l, h).dropped = link.dropped
          /\ GetTarget(AddVLocation(l, h)) # Gateway
      BY <3>1, <3>4, AddVLocationGood, RouteOnly, AddVLocationLeaves
    <3>6. link'.remotehost # Gateway /\ link'.dropped = link.dropped
      BY <3>4, <3>5, ConnectGood
    <3> QED BY <3>6 DEF Connected
  <2>8. CASE AfterPhoneDialler /\ dialler.scene = "map"
    <3>1. link' = Connect(link, disabled) /\ dialler # Idle /\ dialler' = Idle
      BY <2>8 DEF AfterPhoneDialler
    <3>2. /\ link'.remotehost = GetTarget(link)
          /\ link.hack # "open" => link'.dropped = link.dropped
      BY <2>1, <3>1, ConnectGood
    <3> QED BY <2>1, <2>8, <3>1, <3>2 DEF Connected
  <2>9. CASE AfterPhoneDialler /\ dialler.scene # "map"
    <3> DEFINE bounce == [hung EXCEPT !.vlocations = SavedRoute]
               route  == IF dialler.scene = "link" THEN hung
                         ELSE AddOrRemoveVLocation(bounce, dialler.ip)
               all    == AddVLocation(route, dialler.ip)
    <3>1. dialler.ip \in Hosts /\ dialler.ip \in Ips
      BY <2>9 DEF AfterPhoneDialler, IInv, TypeOK, Dial, Ips
    <3>2. /\ Good(bounce) /\ bounce.remotehost = Gateway /\ bounce \in Link
          /\ bounce.hack = hung.hack /\ bounce.dropped = hung.dropped
      BY <2>2, RerouteGood, ConstantsAssumption DEF Good, Link
    <3> HIDE DEF bounce
    <3>3. /\ Good(route) /\ route.remotehost = Gateway /\ route \in Link
          /\ route.hack = hung.hack /\ route.dropped = hung.dropped
      BY <2>2, <3>1, <3>2, AddOrRemoveVLocationGood, RouteOnly DEF Good
    <3> HIDE DEF route
    <3>4. /\ Good(all) /\ all.hack # "open" /\ all.dropped = link.dropped
          /\ GetTarget(all) # Gateway
      BY <2>2, <3>1, <3>3, AddVLocationGood, RouteOnly, AddVLocationLeaves
    <3>5. link' = Connect(all, disabled')
      BY <2>9 DEF AfterPhoneDialler, all, route, bounce, hung
    <3> HIDE DEF all
    <3>6. link'.remotehost # Gateway /\ link'.dropped = link.dropped
      BY <3>4, <3>5, ConnectGood
    <3> QED BY <3>6 DEF Connected
  <2>10. CASE UpdateTrace
    <3> DEFINE now == [link EXCEPT !.traceprogress = @ + 1]
    <3>1. CASE Traced(now)
      <4> DEFINE c == [now EXCEPT !.hack = Answer(@)]
      <4>1. link' = Reset(Disconnect(c)) /\ link'.hack = "answered"
        BY <2>1, <2>10, <3>1, CaughtGood DEF UpdateTrace, Connected
      <4>2. link'.dropped = link.dropped
        BY <2>1, <4>1 DEF Reset, Disconnect, Link
      <4> QED BY <4>1, <4>2
    <3>2. CASE ~Traced(now)
      BY <2>1, <2>3, <2>10, <3>2 DEF UpdateTrace, SameConnection, Link
    <3> QED BY <3>1, <3>2
  <2>11. CASE link' = link
    BY <2>3, <2>11 DEF SameConnection
  <2>12. CASE Player
    BY <2>4, <2>5, <2>6, <2>7, <2>11, <2>12
       DEF Player, LinkClick, LinkMiddleClick, HangUp, ConnectClick, SaveAndLoadGame, hung
  <2>13. CASE Hack \/ Monitor
    BY <2>3, <2>13, TicksKeepConnection
  <2>14. CASE \E h \in Hosts : CaughtLater(h)
    BY <2>4, <2>11, <2>14 DEF CaughtLater, hung
  <2> QED BY <2>8, <2>9, <2>10, <2>12, <2>13, <2>14 DEF Next, World
<1> QED BY <1>1, Invariance, PTL DEF Spec, NoTraceWithoutConsequence

-----------------------------------------------------------------------------
(* The argument of TraceEnds, which is itself beyond the prover: whatever  *)
(* happens to a trace, Ahead falls with each of its steps, and nothing but *)
(* a connection made anew lets it rise.                                    *)

\* How many computers the trace is from the player.
Ahead == GetSize(link) - 1 - link.traceprogress

\* The trace of the same connection goes on.
SameTrace ==
  /\ link'.vlocations = link.vlocations
  /\ link'.remotehost = link.remotehost
  /\ link'.traceinprogress

\* While a trace goes on, and unless the connection ends or the dialler or a hot
\* key makes it anew, a step of Player::Update takes the trace one computer
\* nearer, short of the player, and nothing else moves it or the route under it.
TraceNears ==
  [][Connected /\ link.traceinprogress =>
       \/ ~Connected'
       \/ AfterPhoneDialler \/ \E h \in HotKeys : ForceOpenIp(h)
       \/ UpdateTrace /\ SameTrace /\ Ahead' = Ahead - 1 /\ Ahead' > 0
       \/ ~UpdateTrace /\ SameTrace /\ Ahead' = Ahead]_vars

\* Further attempts to begin a trace that is begun do nothing.
LEMMA BegunAlready ==
  ASSUME NEW l, l.traceinprogress
  PROVE  BeginTrace(l) = l
BY DEF BeginTrace

LEMMA UpdateTraceNears ==
  ASSUME IInv, UpdateTrace
  PROVE  ~Connected' \/ (SameTrace /\ Ahead' = Ahead - 1 /\ Ahead' > 0)
<1> DEFINE now == [link EXCEPT !.traceprogress = @ + 1]
<1>1. CASE Traced(now)
  <2> DEFINE c == [now EXCEPT !.hack = Answer(@)]
  <2>1. link' = Reset(Disconnect(c))
    BY <1>1 DEF UpdateTrace
  <2>2. link \in Link
    BY DEF IInv, TypeOK
  <2>3. Good(Reset(Disconnect(c)))
    BY <1>1, CaughtGood DEF IInv, UpdateTrace, Connected
  <2>4. link'.remotehost = Gateway
    BY <2>1, <2>2 DEF Reset, Disconnect, Link
  <2> QED BY <2>4 DEF Connected
<1>2. CASE ~Traced(now)
  <2>1. link' = now /\ link \in Link /\ Connected /\ link.traceinprogress
    BY <1>2 DEF UpdateTrace, IInv, TypeOK
  <2>2. /\ SameTrace
        /\ link'.traceprogress = link.traceprogress + 1 /\ link.traceprogress \in Nat
    BY <2>1 DEF Link, SameTrace
  <2>3. Len(link.vlocations) \in Nat
    BY RouteFacts DEF IInv, Good
  <2>4. link.traceprogress < Len(link.vlocations) - 1
    BY <2>1 DEF IInv, Good, Connected
  <2>5. link'.traceprogress # Len(link.vlocations) - 1
    BY <1>2, <2>1, <2>2 DEF Traced, GetSize, SameTrace
  <2>6. Ahead' = Len(link.vlocations) - 1 - link'.traceprogress
    BY <2>2 DEF Ahead, GetSize, SameTrace
  <2> QED BY <2>2, <2>3, <2>4, <2>5, <2>6 DEF Ahead, GetSize
<1> QED BY <1>1, <1>2

\* The variant of TraceEnds: no click, program or late consequence takes a
\* trace back, holds it, or changes the route it follows, unless it connects anew.
THEOREM TraceOnlyNears == Spec => TraceNears
<1>1. IInv /\ [Next]_vars =>
        [Connected /\ link.traceinprogress =>
           \/ ~Connected'
           \/ AfterPhoneDialler \/ \E h \in HotKeys : ForceOpenIp(h)
           \/ UpdateTrace /\ SameTrace /\ Ahead' = Ahead - 1 /\ Ahead' > 0
           \/ ~UpdateTrace /\ SameTrace /\ Ahead' = Ahead]_vars
  <2> SUFFICES ASSUME IInv, Next, Connected, link.traceinprogress, Connected',
                      ~AfterPhoneDialler, ~\E h \in HotKeys : ForceOpenIp(h)
               PROVE  \/ UpdateTrace /\ SameTrace /\ Ahead' = Ahead - 1 /\ Ahead' > 0
                      \/ ~UpdateTrace /\ SameTrace /\ Ahead' = Ahead
    OBVIOUS
  <2>1. /\ BeginTrace(link) = link /\ Good(link) /\ link \in Link
        /\ Reset(Disconnect(link)).remotehost = Gateway
    BY BegunAlready, HungUpGood DEF IInv, TypeOK
  <2>2. link' # Reset(Disconnect(link))
    BY <2>1 DEF Connected
  <2>3. CASE UpdateTrace
    BY <2>3, UpdateTraceNears
  <2>4. CASE ~UpdateTrace
    <3>1. SUFFICES /\ link'.vlocations = link.vlocations
                   /\ link'.remotehost = link.remotehost
                   /\ link'.traceinprogress = link.traceinprogress
                   /\ link'.traceprogress = link.traceprogress
      BY <2>4 DEF SameTrace, Ahead, GetSize
    <3>2. CASE link' = link
      BY <3>2
    <3>3. CASE link' # link
      <4>1. ~Player
        BY <2>2, <3>3 DEF Player, LocationClick, LinkClick, LinkMiddleClick, CancelClick,
                          HangUp, ConnectClick, SaveAndLoadGame
      <4>2. ~Hack
        BY <2>1, <3>3 DEF Hack, Provoke, AdminLogin, Crack, StatusClick, Disable,
                          SetTarget, PauseClick, Close, Tick
      <4>3. ~\E h \in Hosts : CaughtLater(h)
        BY <2>2, <3>3 DEF CaughtLater
      <4>4. Monitor
        BY <2>4, <4>1, <4>2, <4>3 DEF Next, World
      <4>5. \/ link' = [link EXCEPT !.status = 2]
            \/ \E n : link' = [link EXCEPT !.status = 1, !.index = n]
        BY <2>1, <4>4 DEF Monitor
      <4> QED BY <2>1, <4>5 DEF Link
    <3> QED BY <3>2, <3>3
  <2> QED BY <2>3, <2>4
<1> QED BY <1>1, Invariance, PTL DEF Spec, TraceNears

=============================================================================
