------------------------- MODULE ServerWorldProofs -------------------------
(***************************************************************************)
(* What ServerWorld keeps for every number of agents, missions and rows,   *)
(* whatever ids and holders the rows of the missions table have.           *)
(***************************************************************************)
EXTENDS ServerWorld, SequenceTheorems, WellFoundedInduction, TLAPS

\* An agent that is on a mission holds one of that id.
HoldsItsOwn ==
  \A n \in Npc :
    npcs[n].currentMissionId # 0 =>
      \E k \in DOMAIN missions : /\ missions[k].id = npcs[n].currentMissionId
                                 /\ missions[k].claimedBy = AgentId(n)

\* ClaimsAgree without the search by id.
ClaimsMatch ==
  /\ \A n \in Npc, k \in DOMAIN missions :
       /\ npcs[n].currentMissionId # 0
       /\ missions[k].id = npcs[n].currentMissionId
       /\ Unique(missions[k].id)
       => missions[k].claimedBy = AgentId(n) /\ ~missions[k].completed
  /\ \A k \in DOMAIN missions, n \in Npc :
       /\ missions[k].claimedBy = AgentId(n)
       /\ ~missions[k].completed
       /\ ClaimedHere(k)
       /\ Unique(missions[k].id)
       => npcs[n].currentMissionId = missions[k].id

\* The inductive invariant.
IInv == TypeOK /\ HoldsItsOwn /\ ClaimsMatch

-----------------------------------------------------------------------------
(* Operators.                                                              *)

\* The larger and the smaller of two integers.
LEMMA MaxMinOfTwo ==
  ASSUME NEW a \in Int, NEW b \in Int
  PROVE  /\ Max({a, b}) \in {a, b} /\ Max({a, b}) >= a /\ Max({a, b}) >= b
         /\ Min({a, b}) \in {a, b} /\ Min({a, b}) <= a /\ Min({a, b}) <= b
<1>1. \E x \in {a, b} : \A y \in {a, b} : x >= y
  <2>1. CASE a >= b
    BY <2>1
  <2>2. CASE b >= a
    BY <2>2
  <2> QED BY <2>1, <2>2
<1>2. \E x \in {a, b} : \A y \in {a, b} : x =< y
  <2>1. CASE a =< b
    BY <2>1
  <2>2. CASE b =< a
    BY <2>2
  <2> QED BY <2>1, <2>2
<1>3. Max({a, b}) \in {a, b} /\ \A y \in {a, b} : Max({a, b}) >= y
  BY <1>1 DEF Max
<1>4. Min({a, b}) \in {a, b} /\ \A y \in {a, b} : Min({a, b}) =< y
  BY <1>2 DEF Min
<1> QED BY <1>3, <1>4

\* A set of numbers that is not empty has a least one.
LEMMA LeastOf ==
  ASSUME NEW B, B \subseteq Nat, B # {}
  PROVE  \E n \in B : \A m \in B : n <= m
<1> DEFINE R == {p \in Nat \X Nat : p[1] < p[2]}
<1>1. IsWellFoundedOn(R, Nat)
  <2>1. OpToRel(<, Nat) = R
    BY DEF OpToRel
  <2> QED BY <2>1, NatLessThanWellFounded
<1>2. \E n \in B : \A m \in B : ~ (<<m, n>> \in R)
  <2> HIDE DEF R
  <2> QED BY <1>1, WFMin
<1>3. PICK n \in B : \A m \in B : ~ (<<m, n>> \in R)
  BY <1>2
<1>4. ASSUME NEW m \in B PROVE n <= m
  <2>1. m \in Nat /\ n \in Nat /\ ~(m < n)
    BY <1>3
  <2> QED BY <2>1
<1> QED BY <1>4

LEMMA LeastNumber ==
  ASSUME NEW B, B \subseteq Nat, B # {}
  PROVE  \E n \in B : n = 0 \/ n - 1 \notin B
<1>1. PICK n \in B : \A m \in B : n <= m
  BY LeastOf
<1> QED BY <1>1

\* FindMission finds a mission of the id if there is one.
LEMMA FindMissionFinds ==
  ASSUME TypeOK, NEW missionId, \E k \in DOMAIN missions : missions[k].id = missionId
  PROVE  /\ FindMission(missionId) \in DOMAIN missions
         /\ missions[FindMission(missionId)].id = missionId
<1> DEFINE found == {k \in DOMAIN missions : missions[k].id = missionId}
<1>1. found \subseteq Nat /\ found # {}
  BY DEF TypeOK
<1>2. FindMission(missionId) = CHOOSE k \in found : \A j \in found : k <= j
  BY DEF FindMission
<1> HIDE DEF found
<1>3. \E k \in found : \A j \in found : k <= j
  BY <1>1, LeastOf
<1>4. FindMission(missionId) \in found
  BY <1>2, <1>3
<1> QED BY <1>4 DEF found

\* An id that names one mission names no other.
LEMMA UniqueNamesOne ==
  ASSUME NEW j \in DOMAIN missions, NEW k \in DOMAIN missions,
         missions[j].id = missions[k].id, Unique(missions[k].id)
  PROVE  j = k /\ missions[k].id # 0
<1>1. PICK i \in DOMAIN missions :
        {l \in DOMAIN missions : missions[l].id = missions[k].id} = {i}
  BY DEF Unique
<1>2. j \in {i} /\ k \in {i}
  BY <1>1
<1> QED BY <1>2 DEF Unique

\* Missions stay in their place with their id, so an id that names one mission
\* of the list as it is now named one before, if it named any.
LEMMA UniqueBefore ==
  ASSUME NEW k \in DOMAIN missions, Unique(missions[k].id)',
         \A j \in DOMAIN missions : /\ j \in DOMAIN missions'
                                   /\ missions'[j].id = missions[j].id
  PROVE  Unique(missions[k].id)
<1>1. /\ missions[k].id # 0
      /\ \E i \in DOMAIN missions' :
           {l \in DOMAIN missions' : missions'[l].id = missions[k].id} = {i}
  BY DEF Unique
<1>2. PICK i \in DOMAIN missions' :
        {l \in DOMAIN missions' : missions'[l].id = missions[k].id} = {i}
  BY <1>1
<1>3. k = i
  BY <1>2
<1>4. {l \in DOMAIN missions : missions[l].id = missions[k].id} = {k}
  BY <1>2, <1>3
<1> QED BY <1>1, <1>4 DEF Unique

\* The ids of two agents differ, and none is 0, an unclaimed mission's holder.
LEMMA AgentIdsDiffer ==
  /\ \A n \in Npc : AgentId(n) \in Nat \ {0}
  /\ \A m, n \in Npc : AgentId(m) = AgentId(n) => m = n
BY ConstantsAssumption DEF Npc, AgentId

\* What the type invariant says of the list and of its elements.
LEMMA ListFacts ==
  ASSUME TypeOK
  PROVE  /\ Len(missions) \in Nat
         /\ DOMAIN missions = 1..Len(missions)
         /\ \A k \in DOMAIN missions :
              /\ missions[k] \in ServerMission
              /\ missions[k].id \in Nat
              /\ missions[k].claimedBy \in Nat
              /\ missions[k].completed \in BOOLEAN
<1>1. missions \in Seq(ServerMission)
  BY DEF TypeOK
<1>2. Len(missions) \in Nat /\ DOMAIN missions = 1..Len(missions)
  BY <1>1
<1>3. \A k \in DOMAIN missions : missions[k] \in ServerMission
  BY <1>1, <1>2
<1> QED BY <1>2, <1>3 DEF ServerMission

-----------------------------------------------------------------------------
(* What a list of missions has earned an agent.                            *)

\* A pay is a number.
LEMMA PayIsInt ==
  ASSUME NEW m \in ServerMission, NEW n
  PROVE  Pay(m, n) \in Int
<1>1. m.payment \in Int /\ 0 \in Int
  BY DEF ServerMission
<1> QED BY <1>1, Zenon DEF Pay

\* One step of the sum, given the sums up to the mission before.
EarnTurn(list, n, h, k) == IF k = 0 THEN 0 ELSE h[k - 1] + Pay(list[k], n)

LEMMA EarnTurnReadsLast ==
  ASSUME NEW list, NEW n, NEW g, NEW h, NEW k, k # 0 => g[k - 1] = h[k - 1]
  PROVE  EarnTurn(list, n, g, k) = EarnTurn(list, n, h, k)
BY DEF EarnTurn

\* The sums along a list exist: were there a shortest list without them, one
\* more turn after those of the list before would give them.
LEMMA EarnedDefined ==
  ASSUME NEW list, Len(list) \in Nat, NEW n
  PROVE  \E upTo : /\ Earned(list, n) = upTo[Len(list)]
                   /\ \A k \in 0..Len(list) : upTo[k] = EarnTurn(list, n, upTo, k)
<1> DEFINE UpTo(l) == \E h : h = [k \in 0..l |-> EarnTurn(list, n, h, k)]
           B == {l \in Nat : ~UpTo(l)}
<1>1. ASSUME B # {} PROVE FALSE
  <2>1. PICK l \in B : l = 0 \/ l - 1 \notin B
    <3>1. B \subseteq Nat
      OBVIOUS
    <3> HIDE DEF B
    <3> QED BY <1>1, <3>1, LeastNumber
  <2>2. l \in Nat /\ ~UpTo(l)
    OBVIOUS
  <2>3. \E g : \A k \in 0..(l - 1) : g[k] = EarnTurn(list, n, g, k)
    <3>1. CASE l = 0
      BY <3>1
    <3>2. CASE l # 0
      <4>1. l - 1 \in Nat /\ UpTo(l - 1)
        BY <2>1, <2>2, <3>2
      <4>2. PICK g : g = [k \in 0..(l - 1) |-> EarnTurn(list, n, g, k)]
        BY <4>1
      <4>3. \A k \in 0..(l - 1) : g[k] = EarnTurn(list, n, g, k)
        BY <4>2
      <4> QED BY <4>3
    <3> QED BY <3>1, <3>2
  <2>4. PICK g : \A k \in 0..(l - 1) : g[k] = EarnTurn(list, n, g, k)
    BY <2>3
  <2> DEFINE h == [k \in 0..l |-> EarnTurn(list, n, g, k)]
  <2>5. \A k \in 0..l : h[k] = EarnTurn(list, n, g, k)
    OBVIOUS
  <2>6. h = [k \in 0..l |-> h[k]]
    OBVIOUS
  <2> HIDE DEF h
  <2>7. ASSUME NEW k \in 0..l PROVE h[k] = EarnTurn(list, n, h, k)
    <3>1. k # 0 => k - 1 \in 0..l /\ k - 1 \in 0..(l - 1)
      BY <2>2
    <3>2. k # 0 => g[k - 1] = h[k - 1]
      BY <2>4, <2>5, <3>1
    <3>3. EarnTurn(list, n, g, k) = EarnTurn(list, n, h, k)
      BY <3>2, EarnTurnReadsLast
    <3> QED BY <2>5, <3>3
  <2>8. h = [k \in 0..l |-> EarnTurn(list, n, h, k)]
    BY <2>6, <2>7
  <2> QED BY <2>2, <2>8
<1>2. UpTo(Len(list))
  BY <1>1
<1> DEFINE upTo == CHOOSE h : h = [k \in 0..Len(list) |-> EarnTurn(list, n, h, k)]
<1>3. Earned(list, n) = upTo[Len(list)]
  BY DEF Earned, EarnTurn
<1>4. upTo = [k \in 0..Len(list) |-> EarnTurn(list, n, upTo, k)]
  BY <1>2
<1> HIDE DEF upTo
<1>5. \A k \in 0..Len(list) : upTo[k] = EarnTurn(list, n, upTo, k)
  BY <1>4
<1> QED BY <1>3, <1>5

\* Of two lists g is f with one mission (the one at p, none when p is 0)
\* become worth d more and with missions worth nothing behind it: then g has
\* earned d more than f.
LEMMA EarnedShifts ==
  ASSUME NEW f \in Seq(ServerMission), NEW g \in Seq(ServerMission), NEW n \in Npc,
         Len(f) <= Len(g), NEW p \in 0..Len(f), NEW d \in Int, p = 0 => d = 0,
         \A k \in 1..Len(f) :
           Pay(g[k], n) = Pay(f[k], n) + (IF k = p THEN d ELSE 0),
         \A k \in 1..Len(g) : k > Len(f) => Pay(g[k], n) = 0
  PROVE  Earned(f, n) \in Int /\ Earned(g, n) = Earned(f, n) + d
<1>1. Len(f) \in Nat /\ Len(g) \in Nat
  OBVIOUS
<1>2. \A k \in 1..Len(f) : Pay(f[k], n) \in Int
  BY PayIsInt
<1>3. PICK F : /\ Earned(f, n) = F[Len(f)]
               /\ \A k \in 0..Len(f) : F[k] = EarnTurn(f, n, F, k)
  BY <1>1, EarnedDefined
<1>4. PICK G : /\ Earned(g, n) = G[Len(g)]
               /\ \A k \in 0..Len(g) : G[k] = EarnTurn(g, n, G, k)
  BY <1>1, EarnedDefined
<1> DEFINE Upto(k) == IF k <= Len(f) THEN k ELSE Len(f)
           More(k) == IF k >= p THEN d ELSE 0
           Fits(k) == F[Upto(k)] \in Int /\ G[k] = F[Upto(k)] + More(k)
           B == {k \in 0..Len(g) : ~Fits(k)}
<1>5. ASSUME B # {} PROVE FALSE
  <2>1. PICK k \in B : k = 0 \/ k - 1 \notin B
    <3>1. B \subseteq Nat
      BY <1>1
    <3> HIDE DEF B
    <3> QED BY <1>5, <3>1, LeastNumber
  <2>2. k \in 0..Len(g) /\ ~Fits(k)
    OBVIOUS
  <2>3. CASE k = 0
    <3>1. F[0] = 0 /\ G[0] = 0
      BY <1>1, <1>3, <1>4 DEF EarnTurn
    <3> QED BY <1>1, <2>2, <2>3, <3>1
  <2>4. CASE k # 0
    <3>1. k - 1 \in 0..Len(g) /\ Fits(k - 1)
      BY <1>1, <2>1, <2>2, <2>4
    <3>2. G[k] = G[k - 1] + Pay(g[k], n)
      BY <1>4, <2>2, <2>4 DEF EarnTurn
    <3>3. CASE k <= Len(f)
      <4>1. /\ F[k] = F[k - 1] + Pay(f[k], n) /\ Pay(f[k], n) \in Int
            /\ Pay(g[k], n) = Pay(f[k], n) + (IF k = p THEN d ELSE 0)
        <5>1. k \in 0..Len(f) /\ k \in 1..Len(f)
          BY <1>1, <2>2, <2>4, <3>3
        <5>2. F[k] = EarnTurn(f, n, F, k)
          BY <1>3, <5>1
        <5>3. F[k] = F[k - 1] + Pay(f[k], n)
          BY <2>4, <5>2 DEF EarnTurn
        <5> QED BY <1>2, <5>1, <5>3
      <4>2. Upto(k) = k /\ Upto(k - 1) = k - 1
        BY <1>1, <2>2, <2>4, <3>3
      <4>3. F[k - 1] \in Int /\ G[k - 1] = F[k - 1] + More(k - 1)
        BY <3>1, <4>2
      <4>4. More(k) = More(k - 1) + (IF k = p THEN d ELSE 0)
        BY <1>1, <2>2, <2>4
      <4>5. Fits(k)
        BY <3>2, <4>1, <4>2, <4>3, <4>4
      <4> QED BY <2>2, <4>5
    <3>4. CASE k > Len(f)
      <4>1. Upto(k) = Len(f) /\ Upto(k - 1) = Len(f) /\ More(k) = d /\ More(k - 1) = d
        BY <1>1, <2>2, <3>4
      <4>2. Pay(g[k], n) = 0
        BY <1>1, <2>2, <3>4
      <4>3. Fits(k)
        BY <3>1, <3>2, <4>1, <4>2
      <4> QED BY <2>2, <4>3
    <3> QED BY <1>1, <2>2, <3>3, <3>4
  <2> QED BY <2>3, <2>4
<1>6. Fits(Len(g))
  BY <1>1, <1>5
<1>7. Upto(Len(g)) = Len(f) /\ More(Len(g)) = d
  BY <1>1
<1> HIDE DEF Upto, More
<1> QED BY <1>3, <1>4, <1>6, <1>7

\* Lists of missions in which all are worth the same to an agent, or are new
\* and worth nothing, have earned it the same.
LEMMA SameWorthSameEarned ==
  ASSUME NEW f \in Seq(ServerMission), NEW g \in Seq(ServerMission), NEW n \in Npc,
         Len(f) <= Len(g),
         \A k \in 1..Len(f) : Pay(g[k], n) = Pay(f[k], n),
         \A k \in 1..Len(g) : k > Len(f) => Pay(g[k], n) = 0
  PROVE  Earned(g, n) = Earned(f, n)
<1>1. Len(f) \in Nat
  OBVIOUS
<1>2. \A k \in 1..Len(f) : Pay(f[k], n) \in Int
  BY PayIsInt
<1>3. \A k \in 1..Len(f) : Pay(g[k], n) = Pay(f[k], n) + (IF k = 0 THEN 0 ELSE 0)
  BY <1>2
<1>4. Earned(f, n) \in Int /\ Earned(g, n) = Earned(f, n) + 0
  BY <1>1, <1>3, EarnedShifts
<1> QED BY <1>4

\* What has been earned is a number.
LEMMA EarnedIsInt ==
  ASSUME NEW list \in Seq(ServerMission), NEW n \in Npc
  PROVE  Earned(list, n) \in Int
<1>1. Len(list) \in Nat
  OBVIOUS
<1>2. \A k \in 1..Len(list) : Pay(list[k], n) \in Int
  BY PayIsInt
<1>3. \A k \in 1..Len(list) : Pay(list[k], n) = Pay(list[k], n) + (IF k = 0 THEN 0 ELSE 0)
  BY <1>2
<1>4. \A k \in 1..Len(list) : k > Len(list) => Pay(list[k], n) = 0
  BY <1>1
<1>5. 0 \in 0..Len(list) /\ Len(list) <= Len(list)
  BY <1>1
<1> QED BY <1>3, <1>4, <1>5, EarnedShifts

-----------------------------------------------------------------------------
(* The invariant.                                                          *)

\* Whatever part of the table is read, no agent is on a mission, and none has
\* claimed one here.
LEMMA InitEstablishes == Init => IInv
<1> SUFFICES ASSUME Init PROVE IInv
  OBVIOUS
<1>1. PICK table \in Tables : missions \in GetAllMissions(table)
  BY DEF Init
<1>2. /\ table \in Seq(Row)
      /\ Len(table) \in Nat
      /\ DOMAIN table = 1..Len(table)
      /\ MaxMissions \in Nat
  BY ConstantsAssumption
<1>3. /\ nextMissionId = 1
      /\ \A n \in Npc : npcs[n].currentMissionId = 0
      /\ npcs \in [Npc -> ServerAgent]
  <2>1. \A n \in Npc : 1 + ((n - 1) % 5) \in Nat /\ StartCredits(n) \in Int
    BY ConstantsAssumption DEF Npc, StartCredits
  <2> QED BY <2>1 DEF Init, ServerAgent
<1>4. PICK len \in 0..Len(table) : /\ missions = [k \in 1..len |-> table[k]]
                                   /\ \A k \in 1..len : table[k].claimedBy # NullClaim
  <2>1. CASE missions = <<>>
    <3>1. missions = [k \in 1..0 |-> table[k]] /\ 0 \in 0..Len(table)
      BY <1>2, <2>1
    <3> QED BY <3>1
  <2>2. CASE missions # <<>>
    BY <1>1, <1>2, <2>2 DEF GetAllMissions
  <2> QED BY <2>1, <2>2
<1>5. \A k \in 1..len : table[k] \in ServerMission
  <2> TAKE k \in 1..len
  <2>1. table[k] \in Row /\ table[k].claimedBy \in Nat
    <3>1. table[k] \in Row
      BY <1>2, <1>4
    <3> QED BY <1>4, <3>1 DEF Row
  <2> QED BY <2>1 DEF Row, ServerMission
<1>6. missions \in Seq(ServerMission)
  BY <1>4, <1>5
<1>7. loaded = missions
  BY DEF Init
<1>8. TypeOK
  BY <1>3, <1>6, <1>7 DEF TypeOK
<1>9. \A k \in DOMAIN missions, n \in Npc :
        ClaimedHere(k) => missions[k].claimedBy # AgentId(n)
  BY <1>7, AgentIdsDiffer DEF ClaimedHere
<1> QED BY <1>3, <1>8, <1>9 DEF IInv, HoldsItsOwn, ClaimsMatch

\* New missions belong to nobody, and stop at the cap.
LEMMA SpawnKeepsInvariant ==
  ASSUME IInv, SpawnMissions
  PROVE  /\ IInv'
         /\ Len(missions') > Len(missions) => Len(missions') <= MaxMissions
         /\ \A k \in DOMAIN missions : k \in DOMAIN missions' /\ missions'[k] = missions[k]
         /\ \A k \in DOMAIN missions' \ DOMAIN missions : ~missions'[k].completed
         /\ npcs' = npcs
<1> DEFINE room == Max({0, MaxMissions - Len(missions)})
<1>1. PICK toSpawn \in SpawnCounts :
        \E random \in [1..Min({toSpawn, room}) -> Difficulties \X Payments] :
          /\ missions' = missions \o
               [j \in 1..Min({toSpawn, room}) |->
                  CreateRandomMission(nextMissionId + j - 1, random[j][1], random[j][2])]
          /\ nextMissionId' = nextMissionId + Min({toSpawn, room})
  BY DEF SpawnMissions
<1> DEFINE count == Min({toSpawn, room})
<1>2. PICK random \in [1..count -> Difficulties \X Payments] :
        /\ missions' = missions \o
             [j \in 1..count |->
                CreateRandomMission(nextMissionId + j - 1, random[j][1], random[j][2])]
        /\ nextMissionId' = nextMissionId + count
  BY <1>1
<1>3. /\ Len(missions) \in Nat /\ DOMAIN missions = 1..Len(missions)
      /\ MaxMissions \in Nat /\ toSpawn \in Nat
      /\ nextMissionId \in Nat /\ nextMissionId >= 1
      /\ missions \in Seq(ServerMission)
  BY ListFacts, ConstantsAssumption DEF IInv, TypeOK
<1>4. room \in Nat /\ (room = 0 \/ room = MaxMissions - Len(missions))
  <2> DEFINE spare == MaxMissions - Len(missions)
  <2>1. 0 \in Int /\ spare \in Int
    BY <1>3
  <2> HIDE DEF spare
  <2>2. Max({0, spare}) \in {0, spare} /\ Max({0, spare}) >= 0
    BY <2>1, MaxMinOfTwo, Zenon
  <2>3. Max({0, spare}) \in Nat /\ (Max({0, spare}) = 0 \/ Max({0, spare}) = spare)
    BY <2>1, <2>2
  <2> QED BY <2>3 DEF spare
<1> HIDE DEF room
<1>5. count \in Nat /\ count <= room
  <2>1. toSpawn \in Int /\ room \in Int
    BY <1>3, <1>4
  <2>2. count \in {toSpawn, room} /\ count <= room
    BY <2>1, MaxMinOfTwo, Zenon
  <2> HIDE DEF count
  <2> QED BY <1>3, <1>4, <2>2
<1> HIDE DEF count
<1> DEFINE new == [j \in 1..count |->
             CreateRandomMission(nextMissionId + j - 1, random[j][1], random[j][2])]
<1>6. /\ \A j \in 1..count : /\ new[j] \in ServerMission
                             /\ new[j].id = nextMissionId + j - 1
                             /\ new[j].claimedBy = 0
                             /\ ~new[j].completed
      /\ new \in Seq(ServerMission) /\ Len(new) = count
  <2>1. ASSUME NEW j \in 1..count
        PROVE  /\ new[j] \in ServerMission
               /\ new[j].id = nextMissionId + j - 1
               /\ new[j].claimedBy = 0
               /\ ~new[j].completed
    <3>1. random[j][1] \in Nat /\ random[j][2] \in Nat
      BY ConstantsAssumption
    <3>2. random[j][2] * random[j][1] \in Int /\ random[j][1] \in Int
      BY <3>1
    <3>3. nextMissionId + j - 1 \in Nat
      BY <1>3, <1>5
    <3> DEFINE pay == random[j][2] * random[j][1]
               missionId == nextMissionId + j - 1
               difficulty == random[j][1]
    <3>4. new[j] = [id |-> missionId, difficulty |-> difficulty, payment |-> pay,
                    claimedBy |-> 0, completed |-> FALSE]
      BY DEF CreateRandomMission
    <3>5. missionId \in Nat /\ difficulty \in Int /\ pay \in Int
      BY <3>2, <3>3
    <3>6. missionId = nextMissionId + j - 1
      OBVIOUS
    <3> HIDE DEF new, pay, missionId, difficulty
    <3> QED BY <3>4, <3>5, <3>6 DEF ServerMission
  <2> HIDE DEF new
  <2>2. new = [j \in 1..count |-> new[j]]
    BY DEF new
  <2> QED BY <1>5, <2>1, <2>2
<1>7. missions' = missions \o new
  BY <1>2
<1> HIDE DEF new
<1>8. /\ missions' \in Seq(ServerMission)
      /\ Len(missions') = Len(missions) + count
      /\ DOMAIN missions' = 1..(Len(missions) + count)
      /\ \A k \in 1..(Len(missions) + count) :
           missions'[k] = IF k <= Len(missions) THEN missions[k]
                          ELSE new[k - Len(missions)]
  <2>1. /\ missions \o new \in Seq(ServerMission)
        /\ Len(missions \o new) = Len(missions) + Len(new)
        /\ \A k \in 1..(Len(missions) + Len(new)) :
             (missions \o new)[k] = IF k <= Len(missions) THEN missions[k]
                                    ELSE new[k - Len(missions)]
    BY <1>3, <1>6, ConcatProperties, Zenon
  <2>2. /\ missions' \in Seq(ServerMission)
        /\ Len(missions') = Len(missions) + count
    BY <1>6, <1>7, <2>1, Zenon
  <2>3. DOMAIN missions' = 1..(Len(missions) + count)
    BY <2>2
  <2>4. \A k \in 1..(Len(missions) + count) :
          missions'[k] = IF k <= Len(missions) THEN missions[k]
                         ELSE new[k - Len(missions)]
    BY <1>6, <1>7, <2>1, Zenon
  <2> QED BY <2>2, <2>3, <2>4
<1>9. \A k \in DOMAIN missions : k \in DOMAIN missions' /\ missions'[k] = missions[k]
  BY <1>3, <1>5, <1>6, <1>7, <1>8
<1>10. \A k \in DOMAIN missions' : k \in DOMAIN missions \/
         /\ k - Len(missions) \in 1..count
         /\ missions'[k] = new[k - Len(missions)]
  BY <1>3, <1>5, <1>6, <1>7, <1>8
<1>11. \A k \in DOMAIN missions' : k \in DOMAIN missions \/
         /\ k - Len(missions) \in 1..count
         /\ missions'[k].id = nextMissionId + (k - Len(missions)) - 1
         /\ missions'[k].claimedBy = 0
         /\ ~missions'[k].completed
  BY <1>6, <1>10
<1>12. npcs' = npcs /\ nextMissionId' = nextMissionId + count /\ loaded' = loaded
  BY <1>2 DEF SpawnMissions
<1>13. TypeOK'
  BY <1>3, <1>5, <1>8, <1>12 DEF IInv, TypeOK
<1>14. \A k \in DOMAIN missions : /\ k \in DOMAIN missions'
                                  /\ missions'[k].id = missions[k].id
  BY <1>9
<1>15. HoldsItsOwn'
  BY <1>9, <1>12 DEF IInv, HoldsItsOwn
<1>16. ASSUME NEW k \in DOMAIN missions', NEW n \in Npc,
              npcs[n].currentMissionId # 0,
              missions'[k].id = npcs[n].currentMissionId, Unique(missions[k].id)'
       PROVE  missions'[k].claimedBy = AgentId(n) /\ ~missions'[k].completed
  <2>1. PICK j \in DOMAIN missions : missions[j].id = npcs[n].currentMissionId
    BY <1>16 DEF IInv, HoldsItsOwn
  <2>2. j \in DOMAIN missions' /\ missions'[j].id = missions'[k].id
    BY <1>9, <1>16, <2>1
  <2>3. j = k
    <3>1. PICK i \in DOMAIN missions' :
            {l \in DOMAIN missions' : missions'[l].id = missions'[k].id} = {i}
      BY <1>16 DEF Unique
    <3> QED BY <2>2, <3>1
  <2>4. Unique(missions[k].id)
    BY <1>14, <1>16, <2>3, UniqueBefore
  <2> QED BY <1>9, <1>16, <2>1, <2>3, <2>4 DEF IInv, ClaimsMatch
<1>17. ASSUME NEW k \in DOMAIN missions', NEW n \in Npc,
              missions'[k].claimedBy = AgentId(n), ~missions'[k].completed,
              ClaimedHere(k)', Unique(missions[k].id)'
       PROVE  npcs[n].currentMissionId = missions'[k].id
  <2>1. k \in DOMAIN missions /\ missions'[k] = missions[k]
    BY <1>9, <1>11, <1>17, AgentIdsDiffer
  <2>2. Unique(missions[k].id)
    BY <1>14, <1>17, <2>1, UniqueBefore
  <2>3. ClaimedHere(k)
    BY <1>12, <1>17 DEF ClaimedHere
  <2> QED BY <1>17, <2>1, <2>2, <2>3 DEF IInv, ClaimsMatch
<1>18. ClaimsMatch'
  BY <1>12, <1>16, <1>17 DEF ClaimsMatch
<1>19. Len(missions') > Len(missions) => Len(missions') <= MaxMissions
  BY <1>3, <1>4, <1>5, <1>8
<1> QED BY <1>9, <1>11, <1>12, <1>13, <1>15, <1>18, <1>19 DEF IInv

\* What changing one element of the list leaves.
LEMMA OneMissionChanged ==
  ASSUME TypeOK, NEW k \in DOMAIN missions, NEW m \in ServerMission,
         missions' = [missions EXCEPT ![k] = m]
  PROVE  /\ missions' \in Seq(ServerMission)
         /\ Len(missions') = Len(missions)
         /\ DOMAIN missions' = DOMAIN missions
         /\ missions'[k] = m
         /\ \A j \in DOMAIN missions : j # k => missions'[j] = missions[j]
<1>1. /\ missions \in Seq(ServerMission)
      /\ Len(missions) \in Nat
      /\ DOMAIN missions = 1..Len(missions)
  BY ListFacts DEF TypeOK
<1>2. missions = [j \in 1..Len(missions) |-> missions[j]]
  BY <1>1
<1>3. missions' = [j \in 1..Len(missions) |-> IF j = k THEN m ELSE missions[j]]
  BY <1>1, <1>2
<1>4. \A j \in 1..Len(missions) : (IF j = k THEN m ELSE missions[j]) \in ServerMission
  BY <1>1
<1>5. missions' \in Seq(ServerMission)
  BY <1>1, <1>3, <1>4
<1>6. DOMAIN missions' = DOMAIN missions /\ Len(missions') = Len(missions)
  BY <1>1, <1>3, <1>5
<1> QED BY <1>1, <1>3, <1>5, <1>6

\* A claim links one idle agent and one open mission.
LEMMA ClaimKeepsInvariant ==
  ASSUME IInv, NEW n \in Npc, Claim(n)
  PROVE  /\ IInv'
         /\ DOMAIN missions' = DOMAIN missions /\ Len(missions') = Len(missions)
         /\ \A k \in DOMAIN missions :
              /\ missions'[k].id = missions[k].id
              /\ missions'[k].completed = missions[k].completed
              /\ missions[k].claimedBy # 0 => missions'[k].claimedBy = missions[k].claimedBy
<1>1. PICK k \in Eligible(n) :
        /\ npcs' = [npcs EXCEPT ![n].currentMissionId = missions[k].id]
        /\ missions' = [missions EXCEPT ![k].claimedBy = AgentId(n)]
  BY DEF Claim
<1>2. /\ k \in DOMAIN missions /\ missions[k].claimedBy = 0 /\ ~missions[k].completed
      /\ npcs[n].currentMissionId = 0
  BY DEF Claim, Eligible, Active
<1>3. TypeOK /\ nextMissionId' = nextMissionId /\ loaded' = loaded
  BY DEF IInv, Claim
<1> DEFINE m == [missions[k] EXCEPT !.claimedBy = AgentId(n)]
<1>4. /\ m \in ServerMission
      /\ m.id = missions[k].id
      /\ m.claimedBy = AgentId(n)
      /\ m.completed = missions[k].completed
  BY <1>2, <1>3, ListFacts, AgentIdsDiffer DEF ServerMission
<1>5. missions' = [missions EXCEPT ![k] = m]
  BY <1>1
<1> HIDE DEF m
<1>6. /\ missions' \in Seq(ServerMission)
      /\ Len(missions') = Len(missions)
      /\ DOMAIN missions' = DOMAIN missions
      /\ missions'[k] = m
      /\ \A j \in DOMAIN missions : j # k => missions'[j] = missions[j]
  BY <1>2, <1>3, <1>4, <1>5, OneMissionChanged
<1>7. /\ npcs' \in [Npc -> ServerAgent]
      /\ npcs'[n].currentMissionId = missions[k].id
      /\ \A a \in Npc : a # n => npcs'[a] = npcs[a]
  <2>1. npcs \in [Npc -> ServerAgent] /\ missions[k].id \in Nat
    BY <1>2, <1>3, ListFacts DEF TypeOK
  <2>2. npcs' = [npcs EXCEPT ![n] = [npcs[n] EXCEPT !.currentMissionId = missions[k].id]]
    BY <1>1
  <2>3. [npcs[n] EXCEPT !.currentMissionId = missions[k].id] \in ServerAgent
    BY <2>1 DEF ServerAgent
  <2>4. [npcs[n] EXCEPT !.currentMissionId = missions[k].id].currentMissionId
          = missions[k].id
    BY <2>1 DEF ServerAgent
  <2> QED BY <2>1, <2>2, <2>3, <2>4
<1>8. TypeOK'
  BY <1>3, <1>6, <1>7 DEF TypeOK
<1>9. \A j \in DOMAIN missions :
        /\ missions'[j].id = missions[j].id
        /\ missions'[j].completed = missions[j].completed
        /\ j # k => missions'[j].claimedBy = missions[j].claimedBy
  BY <1>4, <1>6
<1>10. HoldsItsOwn'
  <2>1. ASSUME NEW a \in Npc, npcs'[a].currentMissionId # 0
        PROVE  \E j \in DOMAIN missions' :
                 /\ missions'[j].id = npcs'[a].currentMissionId
                 /\ missions'[j].claimedBy = AgentId(a)
    <3>1. CASE a = n
      BY <1>2, <1>4, <1>6, <1>7, <3>1
    <3>2. CASE a # n
      <4>1. PICK j \in DOMAIN missions : /\ missions[j].id = npcs[a].currentMissionId
                                         /\ missions[j].claimedBy = AgentId(a)
        BY <1>7, <2>1, <3>2 DEF IInv, HoldsItsOwn
      <4>2. j # k
        BY <1>2, <4>1, AgentIdsDiffer
      <4> QED BY <1>6, <1>7, <3>2, <4>1, <4>2
    <3> QED BY <3>1, <3>2
  <2> QED BY <2>1 DEF HoldsItsOwn
<1>11. \A j \in DOMAIN missions : Unique(missions[j].id)' => Unique(missions[j].id)
  BY <1>6, <1>9, UniqueBefore
<1>12. ASSUME NEW j \in DOMAIN missions, NEW a \in Npc, npcs'[a].currentMissionId # 0,
              missions[j].id = npcs'[a].currentMissionId, Unique(missions[j].id)
       PROVE  missions'[j].claimedBy = AgentId(a) /\ ~missions'[j].completed
  <2>1. CASE a = n
    <3>1. j = k
      BY <1>2, <1>7, <1>12, <2>1, UniqueNamesOne
    <3> QED BY <1>2, <1>4, <1>6, <2>1, <3>1
  <2>2. CASE a # n
    <3>1. missions[j].claimedBy = AgentId(a) /\ ~missions[j].completed
      BY <1>7, <1>12, <2>2 DEF IInv, ClaimsMatch
    <3>2. j # k
      BY <1>2, <3>1, AgentIdsDiffer
    <3> QED BY <1>6, <3>1, <3>2
  <2> QED BY <2>1, <2>2
<1>13. ASSUME NEW j \in DOMAIN missions, NEW a \in Npc,
              missions'[j].claimedBy = AgentId(a), ~missions'[j].completed,
              ClaimedHere(j), Unique(missions[j].id)
       PROVE  npcs'[a].currentMissionId = missions[j].id
  <2>1. CASE j = k
    <3>1. a = n
      BY <1>4, <1>6, <1>13, <2>1, AgentIdsDiffer
    <3> QED BY <1>7, <2>1, <3>1
  <2>2. CASE j # k
    <3>1. npcs[a].currentMissionId = missions[j].id
      BY <1>6, <1>13, <2>2 DEF IInv, ClaimsMatch
    <3>2. missions[j].id # 0
      BY <1>13 DEF Unique
    <3>3. a # n
      BY <1>2, <3>1, <3>2
    <3> QED BY <1>7, <3>1, <3>3
  <2> QED BY <2>1, <2>2
<1>14. \A j \in DOMAIN missions : ClaimedHere(j)' => ClaimedHere(j)
  BY <1>3 DEF ClaimedHere
<1>15. ClaimsMatch'
  BY <1>6, <1>9, <1>11, <1>12, <1>13, <1>14 DEF ClaimsMatch
<1> QED BY <1>2, <1>6, <1>8, <1>9, <1>10, <1>15 DEF IInv

\* The mission an agent finds has the id it remembers, and is its own and open
\* if no other has that id.
LEMMA CurrentIsFound ==
  ASSUME IInv, NEW n \in Npc, npcs[n].currentMissionId # 0
  PROVE  LET k == FindMission(npcs[n].currentMissionId)
         IN /\ k \in DOMAIN missions
            /\ missions[k].id = npcs[n].currentMissionId
            /\ Unique(missions[k].id) =>
                 missions[k].claimedBy = AgentId(n) /\ ~missions[k].completed
<1> DEFINE k == FindMission(npcs[n].currentMissionId)
<1>1. \E j \in DOMAIN missions : missions[j].id = npcs[n].currentMissionId
  BY DEF IInv, HoldsItsOwn
<1>2. k \in DOMAIN missions /\ missions[k].id = npcs[n].currentMissionId
  BY <1>1, FindMissionFinds DEF IInv
<1> HIDE DEF k
<1>3. Unique(missions[k].id) =>
        missions[k].claimedBy = AgentId(n) /\ ~missions[k].completed
  BY <1>2 DEF IInv, ClaimsMatch
<1> QED BY <1>2, <1>3 DEF k

\* An agent that succeeds completes the mission it finds, its own if the id is,
\* and is free again.
LEMMA SucceedKeepsInvariant ==
  ASSUME IInv, NEW n \in Npc, Succeed(n)
  PROVE  /\ IInv'
         /\ DOMAIN missions' = DOMAIN missions /\ Len(missions') = Len(missions)
         /\ npcs'[n].currentMissionId = 0
         /\ npcs[n].currentMissionId # 0
         /\ \A k \in DOMAIN missions :
              /\ missions'[k].id = missions[k].id
              /\ missions'[k].claimedBy = missions[k].claimedBy
              /\ missions[k].completed => missions'[k].completed
              /\ Unique(missions[k].id) /\ ~missions[k].completed
                   /\ missions'[k].completed =>
                   /\ missions[k].claimedBy = AgentId(n)
                   /\ npcs[n].currentMissionId = missions[k].id
<1> DEFINE k == FindMission(npcs[n].currentMissionId)
<1>1. /\ npcs[n].currentMissionId # 0
      /\ k \in DOMAIN missions
      /\ missions[k].id = npcs[n].currentMissionId
      /\ Unique(missions[k].id) =>
           missions[k].claimedBy = AgentId(n) /\ ~missions[k].completed
  BY CurrentIsFound DEF Succeed
<1>2. PICK raise \in {0, 1} :
        /\ missions' = [missions EXCEPT ![k].completed = TRUE]
        /\ npcs' = [npcs EXCEPT ![n] =
                      [rating           |-> @.rating + raise,
                       credits          |-> @.credits + missions[k].payment,
                       currentMissionId |-> 0]]
  BY DEF Succeed
<1>3. TypeOK /\ nextMissionId' = nextMissionId /\ loaded' = loaded
  BY DEF IInv, Succeed
<1> HIDE DEF k
<1> DEFINE m == [missions[k] EXCEPT !.completed = TRUE]
<1>4. /\ m \in ServerMission
      /\ m.id = missions[k].id
      /\ m.claimedBy = missions[k].claimedBy
      /\ m.completed
  BY <1>1, <1>3, ListFacts DEF ServerMission
<1>5. missions' = [missions EXCEPT ![k] = m]
  BY <1>2
<1> HIDE DEF m
<1>6. /\ missions' \in Seq(ServerMission)
      /\ Len(missions') = Len(missions)
      /\ DOMAIN missions' = DOMAIN missions
      /\ missions'[k] = m
      /\ \A j \in DOMAIN missions : j # k => missions'[j] = missions[j]
  BY <1>1, <1>3, <1>4, <1>5, OneMissionChanged
<1>7. /\ npcs' \in [Npc -> ServerAgent]
      /\ npcs'[n].currentMissionId = 0
      /\ \A a \in Npc : a # n => npcs'[a] = npcs[a]
  <2>1. npcs \in [Npc -> ServerAgent] /\ missions[k] \in ServerMission
    BY <1>1, <1>3, ListFacts DEF TypeOK
  <2>2. npcs[n].rating + raise \in Nat /\ npcs[n].credits + missions[k].payment \in Int
    BY <2>1 DEF ServerAgent, ServerMission
  <2> QED BY <1>2, <2>1, <2>2 DEF ServerAgent
<1>8. TypeOK'
  BY <1>3, <1>6, <1>7 DEF TypeOK
<1>9. \A j \in DOMAIN missions :
        /\ missions'[j].id = missions[j].id
        /\ missions'[j].claimedBy = missions[j].claimedBy
        /\ j # k => missions'[j].completed = missions[j].completed
        /\ j = k => missions'[j].completed
  BY <1>4, <1>6
<1>10. HoldsItsOwn'
  BY <1>6, <1>7, <1>9 DEF IInv, HoldsItsOwn
<1>11. \A j \in DOMAIN missions : Unique(missions[j].id)' => Unique(missions[j].id)
  BY <1>6, <1>9, UniqueBefore
<1>12. ASSUME NEW j \in DOMAIN missions, NEW a \in Npc, npcs'[a].currentMissionId # 0,
              missions[j].id = npcs'[a].currentMissionId, Unique(missions[j].id)
       PROVE  missions'[j].claimedBy = AgentId(a) /\ ~missions'[j].completed
  <2>1. a # n /\ npcs'[a] = npcs[a]
    BY <1>7, <1>12
  <2>2. missions[j].claimedBy = AgentId(a) /\ ~missions[j].completed
    BY <1>12, <2>1 DEF IInv, ClaimsMatch
  <2>3. j # k
    BY <1>1, <1>12, <2>1, <2>2, AgentIdsDiffer
  <2> QED BY <1>9, <2>2, <2>3
<1>13. ASSUME NEW j \in DOMAIN missions, NEW a \in Npc,
              missions'[j].claimedBy = AgentId(a), ~missions'[j].completed,
              ClaimedHere(j), Unique(missions[j].id)
       PROVE  npcs'[a].currentMissionId = missions[j].id
  <2>1. j # k
    BY <1>9, <1>13
  <2>2. npcs[a].currentMissionId = missions[j].id
    BY <1>9, <1>13, <2>1 DEF IInv, ClaimsMatch
  <2>3. a # n
    BY <1>1, <1>13, <2>1, <2>2, UniqueNamesOne
  <2> QED BY <1>7, <2>2, <2>3
<1>14. \A j \in DOMAIN missions : ClaimedHere(j)' => ClaimedHere(j)
  BY <1>3 DEF ClaimedHere
<1>15. ClaimsMatch'
  BY <1>6, <1>9, <1>11, <1>12, <1>13, <1>14 DEF ClaimsMatch
<1>16. \A j \in DOMAIN missions :
         Unique(missions[j].id) /\ ~missions[j].completed /\ missions'[j].completed =>
           /\ missions[j].claimedBy = AgentId(n)
           /\ npcs[n].currentMissionId = missions[j].id
  BY <1>1, <1>9
<1>17. \A j \in DOMAIN missions : missions[j].completed => missions'[j].completed
  BY <1>9
<1> QED BY <1>1, <1>6, <1>7, <1>8, <1>9, <1>10, <1>15, <1>16, <1>17 DEF IInv

\* A failed attempt changes nothing but the rating of the agent.
LEMMA FailKeepsInvariant ==
  ASSUME IInv, NEW n \in Npc, Fail(n)
  PROVE  IInv' /\ missions' = missions
<1>1. PICK lost \in {0, 1} :
        npcs' = [npcs EXCEPT ![n].rating = Max({0, @ - lost})]
  BY DEF Fail
<1>2. missions' = missions /\ nextMissionId' = nextMissionId /\ loaded' = loaded
  BY DEF Fail
<1>3. npcs \in [Npc -> ServerAgent]
  BY DEF IInv, TypeOK
<1> DEFINE left == npcs[n].rating - lost
           kept == Max({0, left})
<1>4. kept \in Nat
  <2>1. left \in Int /\ 0 \in Int
    BY <1>3 DEF ServerAgent
  <2> HIDE DEF left
  <2>2. kept \in {0, left} /\ kept >= 0
    BY <2>1, MaxMinOfTwo, Zenon
  <2> HIDE DEF kept
  <2> QED BY <2>1, <2>2
<1>5. npcs' = [npcs EXCEPT ![n] = [npcs[n] EXCEPT !.rating = kept]]
  BY <1>1
<1> HIDE DEF kept
<1>6. /\ npcs' \in [Npc -> ServerAgent]
      /\ \A a \in Npc : npcs'[a].currentMissionId = npcs[a].currentMissionId
  BY <1>3, <1>4, <1>5 DEF ServerAgent
<1>7. TypeOK'
  BY <1>2, <1>6 DEF IInv, TypeOK
<1>8. HoldsItsOwn'
  BY <1>2, <1>6 DEF IInv, HoldsItsOwn
<1>9. \A k \in DOMAIN missions :
        /\ Unique(missions[k].id)' => Unique(missions[k].id)
        /\ ClaimedHere(k)' => ClaimedHere(k)
  BY <1>2 DEF Unique, ClaimedHere
<1>10. ClaimsMatch'
  BY <1>2, <1>6, <1>9 DEF IInv, ClaimsMatch
<1> QED BY <1>2, <1>7, <1>8, <1>10 DEF IInv

\* None of the missions an agent holds shares its id: the premise of PaidOnce.
Sure(n) ==
  \A k \in DOMAIN missions :
    missions[k].claimedBy = AgentId(n) => Unique(missions[k].id)

\* An agent that is sure of its missions was so before.
LEMMA SureBefore ==
  ASSUME NEW n \in Npc, Sure(n)',
         \A k \in DOMAIN missions :
           /\ k \in DOMAIN missions'
           /\ missions'[k].id = missions[k].id
           /\ missions[k].claimedBy # 0 => missions'[k].claimedBy = missions[k].claimedBy
  PROVE  Sure(n)
<1> SUFFICES ASSUME NEW k \in DOMAIN missions, missions[k].claimedBy = AgentId(n)
             PROVE  Unique(missions[k].id)
  BY DEF Sure
<1>1. k \in DOMAIN missions' /\ missions'[k].claimedBy = AgentId(n)
  BY AgentIdsDiffer
<1>2. Unique(missions[k].id)'
  BY <1>1 DEF Sure
<1> QED BY <1>2, UniqueBefore

\* Nobody has earned more than what was loaded.
LEMMA InitPaysOnce == Init => PaidOnce
<1> SUFFICES ASSUME Init, NEW n \in Npc
             PROVE  npcs[n].credits = StartCredits(n) + Earned(missions, n) - Earned(loaded, n)
  BY DEF PaidOnce
<1>1. missions \in Seq(ServerMission) /\ loaded = missions
  BY InitEstablishes DEF IInv, TypeOK, Init
<1>2. Earned(missions, n) \in Int
  BY <1>1, EarnedIsInt
<1>3. npcs[n].credits = StartCredits(n) /\ StartCredits(n) \in Int
  BY ConstantsAssumption DEF Init, Npc, StartCredits
<1> QED BY <1>1, <1>2, <1>3

\* Every step keeps the invariant.
LEMMA NextKeepsInvariant == IInv /\ [Next]_vars => IInv'
<1> SUFFICES ASSUME IInv, [Next]_vars PROVE IInv'
  OBVIOUS
<1>1. CASE SpawnMissions
  BY <1>1, SpawnKeepsInvariant
<1>2. ASSUME NEW n \in Npc, Claim(n) PROVE IInv'
  BY <1>2, ClaimKeepsInvariant
<1>3. ASSUME NEW n \in Npc, Succeed(n) PROVE IInv'
  BY <1>3, SucceedKeepsInvariant
<1>4. ASSUME NEW n \in Npc, Fail(n) PROVE IInv'
  BY <1>4, FailKeepsInvariant
<1>5. CASE UNCHANGED vars
  BY <1>5 
     DEF vars, IInv, TypeOK, HoldsItsOwn, ClaimsMatch, Unique, ClaimedHere
<1> QED BY <1>1, <1>2, <1>3, <1>4, <1>5 DEF Next

\* The inductive invariant holds in every reachable state.
LEMMA Invariance == Spec => []IInv
BY InitEstablishes, NextKeepsInvariant, PTL DEF Spec

\* New missions are worth nothing yet.
LEMMA SpawnPaysOnce == IInv /\ PaidOnce /\ SpawnMissions => PaidOnce'
<1> SUFFICES ASSUME IInv, PaidOnce, SpawnMissions, NEW n \in Npc, Sure(n)'
             PROVE  npcs'[n].credits
                      = StartCredits(n) + Earned(missions', n) - Earned(loaded', n)
  BY DEF PaidOnce, Sure
<1>1. /\ npcs' = npcs
      /\ \A k \in DOMAIN missions : k \in DOMAIN missions' /\ missions'[k] = missions[k]
      /\ \A k \in DOMAIN missions' \ DOMAIN missions : ~missions'[k].completed
      /\ missions \in Seq(ServerMission) /\ missions' \in Seq(ServerMission)
  BY SpawnKeepsInvariant DEF IInv, TypeOK
<1>2. \A k \in 1..Len(missions') : k > Len(missions) => Pay(missions'[k], n) = 0
  BY <1>1 DEF Pay
<1>3. \A k \in 1..Len(missions) : Pay(missions'[k], n) = Pay(missions[k], n)
  BY <1>1
<1>4. Len(missions) <= Len(missions')
  <2>1. Len(missions) \in Nat /\ Len(missions') \in Nat
    BY <1>1
  <2>2. Len(missions) # 0 => Len(missions) \in DOMAIN missions'
    BY <1>1, <2>1
  <2> QED BY <1>1, <2>1, <2>2
<1>5. Earned(missions', n) = Earned(missions, n)
  BY <1>1, <1>2, <1>3, <1>4, SameWorthSameEarned
<1>6. Sure(n)
  BY <1>1, SureBefore
<1>7. npcs[n].credits = StartCredits(n) + Earned(missions, n) - Earned(loaded, n)
  BY <1>6 DEF PaidOnce, Sure
<1>8. loaded' = loaded
  BY DEF SpawnMissions
<1> QED BY <1>1, <1>5, <1>7, <1>8

\* A mission that is claimed is not completed, before or after.
LEMMA ClaimPaysOnce ==
  ASSUME IInv, PaidOnce, NEW a \in Npc, Claim(a)
  PROVE  PaidOnce'
<1> SUFFICES ASSUME NEW n \in Npc, Sure(n)'
             PROVE  npcs'[n].credits
                      = StartCredits(n) + Earned(missions', n) - Earned(loaded', n)
  BY DEF PaidOnce, Sure
<1>1. /\ missions \in Seq(ServerMission) /\ missions' \in Seq(ServerMission)
      /\ Len(missions') = Len(missions) /\ npcs \in [Npc -> ServerAgent]
  BY ClaimKeepsInvariant DEF IInv, TypeOK
<1>2. PICK k \in Eligible(a) :
        /\ npcs' = [npcs EXCEPT ![a].currentMissionId = missions[k].id]
        /\ missions' = [missions EXCEPT ![k].claimedBy = AgentId(a)]
  BY DEF Claim
<1>3. k \in DOMAIN missions /\ ~missions[k].completed
  BY DEF Eligible, Active
<1>4. npcs'[n].credits = npcs[n].credits
  BY <1>1, <1>2 DEF ServerAgent
<1>5. \A j \in 1..Len(missions) : Pay(missions'[j], n) = Pay(missions[j], n)
  <2> TAKE j \in 1..Len(missions)
  <2>1. CASE j = k
    <3>1. missions[k] \in ServerMission
      BY <1>1, <1>3
    <3>2. missions'[k] = [missions[k] EXCEPT !.claimedBy = AgentId(a)]
      BY <1>1, <1>2, <1>3
    <3>3. missions'[k].completed = missions[k].completed
      BY <3>1, <3>2 DEF ServerMission
    <3> QED BY <1>3, <2>1, <3>3 DEF Pay
  <2>2. CASE j # k
    <3>1. missions'[j] = missions[j]
      BY <1>1, <1>2, <2>2
    <3> QED BY <3>1
  <2> QED BY <2>1, <2>2
<1>6. Earned(missions', n) = Earned(missions, n)
  BY <1>1, <1>5, SameWorthSameEarned
<1>7. Sure(n)
  BY ClaimKeepsInvariant, SureBefore
<1>8. npcs[n].credits = StartCredits(n) + Earned(missions, n) - Earned(loaded, n)
  BY <1>7 DEF PaidOnce, Sure
<1>9. loaded' = loaded
  BY DEF Claim
<1> QED BY <1>4, <1>6, <1>8, <1>9

\* Of all missions one becomes worth its pay to the agent, which is what the
\* agent receives; to the others it stays worth nothing.
LEMMA SucceedPaysOnce ==
  ASSUME IInv, PaidOnce, NEW a \in Npc, Succeed(a)
  PROVE  PaidOnce'
<1> SUFFICES ASSUME NEW n \in Npc, Sure(n)'
             PROVE  npcs'[n].credits
                      = StartCredits(n) + Earned(missions', n) - Earned(loaded', n)
  BY DEF PaidOnce, Sure
<1> DEFINE k == FindMission(npcs[a].currentMissionId)
<1>0. Sure(n)
  BY SucceedKeepsInvariant, SureBefore
<1>1. /\ k \in DOMAIN missions
      /\ missions[k].id = npcs[a].currentMissionId /\ npcs[a].currentMissionId # 0
      /\ Unique(missions[k].id) =>
           missions[k].claimedBy = AgentId(a) /\ ~missions[k].completed
  BY CurrentIsFound DEF Succeed
<1>2. PICK raise \in {0, 1} :
        /\ missions' = [missions EXCEPT ![k].completed = TRUE]
        /\ npcs' = [npcs EXCEPT ![a] =
                      [rating           |-> @.rating + raise,
                       credits          |-> @.credits + missions[k].payment,
                       currentMissionId |-> 0]]
  BY DEF Succeed
<1> HIDE DEF k
<1>3. /\ missions \in Seq(ServerMission) /\ missions' \in Seq(ServerMission)
      /\ Len(missions') = Len(missions) /\ npcs \in [Npc -> ServerAgent]
      /\ Len(missions) \in Nat /\ DOMAIN missions = 1..Len(missions)
  BY SucceedKeepsInvariant DEF IInv, TypeOK
<1> DEFINE d == IF n = a THEN missions[k].payment ELSE 0
<1>4. missions[k] \in ServerMission /\ missions[k].payment \in Int
  <2>1. missions[k] \in ServerMission
    BY <1>1, <1>3
  <2> QED BY <2>1 DEF ServerMission
<1>5. /\ npcs'[n].credits = npcs[n].credits + d
      /\ npcs[n].credits \in Int /\ d \in Int /\ StartCredits(n) \in Int
  <2>1. npcs[n].credits \in Int /\ StartCredits(n) \in Int
    BY <1>3, ConstantsAssumption DEF ServerAgent, StartCredits, Npc
  <2>2. CASE n = a
    BY <1>2, <1>3, <1>4, <2>1, <2>2
  <2>3. CASE n # a
    BY <1>2, <1>3, <2>1, <2>3
  <2> QED BY <2>1, <2>2, <2>3
<1>6. missions'[k] = [missions[k] EXCEPT !.completed = TRUE]
  BY <1>1, <1>2, <1>3
<1>7. /\ missions'[k].claimedBy = missions[k].claimedBy
      /\ missions'[k].payment = missions[k].payment
      /\ missions'[k].completed
  BY <1>4, <1>6 DEF ServerMission
<1>8. Pay(missions'[k], n) = Pay(missions[k], n) + d
  <2>1. CASE n = a
    <3>1. PICK j \in DOMAIN missions : /\ missions[j].id = npcs[a].currentMissionId
                                       /\ missions[j].claimedBy = AgentId(a)
      BY <1>1 DEF IInv, HoldsItsOwn
    <3>2. Unique(missions[j].id)
      BY <1>0, <2>1, <3>1 DEF Sure
    <3>3. missions[k].claimedBy = AgentId(a) /\ ~missions[k].completed
      BY <1>1, <3>1, <3>2
    <3>4. Pay(missions[k], n) = 0 /\ Pay(missions'[k], n) = missions[k].payment
      BY <1>7, <2>1, <3>3 DEF Pay
    <3> QED BY <1>4, <2>1, <3>4
  <2>2. CASE n # a
    <3>1. missions[k].claimedBy # AgentId(n)
      BY <1>0, <1>1, <2>2, AgentIdsDiffer DEF Sure
    <3>2. Pay(missions[k], n) = 0 /\ Pay(missions'[k], n) = 0
      BY <1>7, <3>1 DEF Pay
    <3> QED BY <2>2, <3>2
  <2> QED BY <2>1, <2>2
<1> HIDE DEF d
<1>9. \A j \in 1..Len(missions) :
        Pay(missions'[j], n) = Pay(missions[j], n) + (IF j = k THEN d ELSE 0)
  <2> TAKE j \in 1..Len(missions)
  <2>1. CASE j = k
    BY <1>8, <2>1
  <2>2. CASE j # k
    <3>1. missions'[j] = missions[j]
      BY <1>2, <1>3, <2>2
    <3>2. Pay(missions[j], n) \in Int
      BY <1>3, PayIsInt
    <3> QED BY <2>2, <3>1, <3>2
  <2> QED BY <2>1, <2>2
<1>10. Earned(missions, n) \in Int /\ Earned(missions', n) = Earned(missions, n) + d
  <2>1. /\ k \in 0..Len(missions) /\ k # 0
        /\ Len(missions) <= Len(missions')
        /\ \A j \in 1..Len(missions') : j > Len(missions) => Pay(missions'[j], n) = 0
    BY <1>1, <1>3
  <2> QED BY <1>3, <1>5, <1>9, <2>1, EarnedShifts
<1>11. npcs[n].credits = StartCredits(n) + Earned(missions, n) - Earned(loaded, n)
  BY <1>0 DEF PaidOnce, Sure
<1>12. loaded' = loaded /\ Earned(loaded, n) \in Int
  BY EarnedIsInt DEF Succeed, IInv, TypeOK
<1> QED BY <1>5, <1>10, <1>11, <1>12

\* A failed attempt pays nothing.
LEMMA FailPaysOnce ==
  ASSUME IInv, PaidOnce, NEW a \in Npc, Fail(a)
  PROVE  PaidOnce'
<1>1. missions' = missions /\ loaded' = loaded /\ npcs \in [Npc -> ServerAgent]
  BY DEF IInv, TypeOK, Fail
<1>2. PICK rating : npcs' = [npcs EXCEPT ![a].rating = rating]
  BY DEF Fail
<1>3. \A n \in Npc : npcs'[n].credits = npcs[n].credits
  BY <1>1, <1>2 DEF ServerAgent
<1> QED BY <1>1, <1>3 DEF PaidOnce, Unique

-----------------------------------------------------------------------------
(* The results.                                                            *)

\* Whatever is loaded and spawned, every part of the world keeps its type: in
\* particular no failure takes a rating below zero.
THEOREM TypeCorrect == Spec => []TypeOK
<1>1. IInv => TypeOK
  BY DEF IInv
<1> QED BY Invariance, <1>1, PTL

\* An agent and the mission it is on name each other for as long as the
\* mission's id is its own.
THEOREM ClaimsStayAgreed == Spec => []ClaimsAgree
<1>1. IInv => ClaimsAgree
  <2> SUFFICES ASSUME IInv PROVE ClaimsAgree
    OBVIOUS
  <2>1. ASSUME NEW n \in Npc, npcs[n].currentMissionId # 0
        PROVE  LET k == FindMission(npcs[n].currentMissionId)
               IN /\ k \in DOMAIN missions
                  /\ Unique(npcs[n].currentMissionId) =>
                       missions[k].claimedBy = AgentId(n) /\ ~missions[k].completed
    BY <2>1, CurrentIsFound
  <2>2. \A k \in DOMAIN missions, n \in Npc :
          /\ missions[k].claimedBy = AgentId(n)
          /\ ~missions[k].completed
          /\ ClaimedHere(k)
          /\ Unique(missions[k].id)
          => npcs[n].currentMissionId = missions[k].id
    BY DEF IInv, ClaimsMatch
  <2> QED BY <2>1, <2>2 DEF ClaimsAgree
<1> QED BY Invariance, <1>1, PTL

\* Only the agent that claimed a mission completes it, if its id is its own.
THEOREM OnlyClaimantCompletes == Spec => CompletedByClaimant
<1>1. IInv /\ [Next]_vars =>
        [\A k \in DOMAIN missions :
           /\ Unique(missions[k].id)
           /\ ~missions[k].completed
           /\ missions'[k].completed
           => \E n \in Npc : /\ missions[k].claimedBy = AgentId(n)
                             /\ npcs[n].currentMissionId = missions[k].id
                             /\ npcs'[n].currentMissionId = 0]_vars
  <2> SUFFICES ASSUME IInv, Next, NEW k \in DOMAIN missions, Unique(missions[k].id),
                      ~missions[k].completed, missions'[k].completed
               PROVE  \E n \in Npc : /\ missions[k].claimedBy = AgentId(n)
                                     /\ npcs[n].currentMissionId = missions[k].id
                                     /\ npcs'[n].currentMissionId = 0
    OBVIOUS
  <2>1. CASE SpawnMissions
    BY <2>1, SpawnKeepsInvariant
  <2>2. ASSUME NEW n \in Npc, Claim(n) PROVE FALSE
    BY <2>2, ClaimKeepsInvariant
  <2>3. ASSUME NEW n \in Npc, Succeed(n)
        PROVE  /\ missions[k].claimedBy = AgentId(n)
               /\ npcs[n].currentMissionId = missions[k].id
               /\ npcs'[n].currentMissionId = 0
    BY <2>3, SucceedKeepsInvariant
  <2>4. ASSUME NEW n \in Npc, Fail(n) PROVE FALSE
    BY <2>4, FailKeepsInvariant
  <2> QED BY <2>1, <2>2, <2>3, <2>4 DEF Next
<1> QED BY Invariance, <1>1, PTL DEF Spec, CompletedByClaimant

\* A claim is never taken over and a completed mission never reopened.
THEOREM ClaimsStayFinal == Spec => ClaimsAreFinal
<1>1. IInv /\ [Next]_vars =>
        [\A k \in DOMAIN missions :
           /\ k \in DOMAIN missions'
           /\ missions'[k].id = missions[k].id
           /\ missions[k].claimedBy # 0 =>
                missions'[k].claimedBy = missions[k].claimedBy
           /\ missions[k].completed => missions'[k].completed]_vars
  <2> SUFFICES ASSUME IInv, Next, NEW k \in DOMAIN missions
               PROVE  /\ k \in DOMAIN missions'
                      /\ missions'[k].id = missions[k].id
                      /\ missions[k].claimedBy # 0 =>
                           missions'[k].claimedBy = missions[k].claimedBy
                      /\ missions[k].completed => missions'[k].completed
    OBVIOUS
  <2>1. CASE SpawnMissions
    BY <2>1, SpawnKeepsInvariant
  <2>2. CASE \E n \in Npc : Claim(n)
    BY <2>2, ClaimKeepsInvariant
  <2>3. CASE \E n \in Npc : Succeed(n)
    BY <2>3, SucceedKeepsInvariant
  <2>4. CASE \E n \in Npc : Fail(n)
    BY <2>4, FailKeepsInvariant
  <2> QED BY <2>1, <2>2, <2>3, <2>4 DEF Next
<1> QED BY Invariance, <1>1, PTL DEF Spec, ClaimsAreFinal

\* A batch of new missions stops at the cap.
THEOREM CapIsKept == Spec => CapHolds
<1>1. IInv /\ [Next]_vars =>
        [Len(missions') > Len(missions) => Len(missions') <= MaxMissions]_vars
  <2> SUFFICES ASSUME IInv, Next, Len(missions') > Len(missions)
               PROVE  Len(missions') <= MaxMissions
    OBVIOUS
  <2>0. Len(missions) \in Nat
    BY ListFacts DEF IInv
  <2>1. CASE SpawnMissions
    BY <2>1, SpawnKeepsInvariant
  <2>2. CASE \E n \in Npc : Claim(n)
    BY <2>0, <2>2, ClaimKeepsInvariant
  <2>3. CASE \E n \in Npc : Succeed(n)
    BY <2>0, <2>3, SucceedKeepsInvariant
  <2>4. CASE \E n \in Npc : Fail(n)
    BY <2>0, <2>4, FailKeepsInvariant
  <2> QED BY <2>1, <2>2, <2>3, <2>4 DEF Next
<1> QED BY Invariance, <1>1, PTL DEF Spec, CapHolds

\* What an agent has earned is what its completed missions pay, each once, if
\* each has an id of its own.
THEOREM PaidExactlyOnce == Spec => []PaidOnce
<1>1. IInv /\ PaidOnce /\ [Next]_vars => PaidOnce'
  <2> SUFFICES ASSUME IInv, PaidOnce, [Next]_vars PROVE PaidOnce'
    OBVIOUS
  <2>1. CASE SpawnMissions
    BY <2>1, SpawnPaysOnce
  <2>2. ASSUME NEW n \in Npc, Claim(n) PROVE PaidOnce'
    BY <2>2, ClaimPaysOnce
  <2>3. ASSUME NEW n \in Npc, Succeed(n) PROVE PaidOnce'
    BY <2>3, SucceedPaysOnce
  <2>4. ASSUME NEW n \in Npc, Fail(n) PROVE PaidOnce'
    BY <2>4, FailPaysOnce
  <2>5. CASE UNCHANGED vars
    BY <2>5 DEF vars, PaidOnce, Unique
  <2> QED BY <2>1, <2>2, <2>3, <2>4, <2>5 DEF Next
<1> QED BY InitPaysOnce, Invariance, <1>1, PTL DEF Spec
=============================================================================
