----------------------------- MODULE ServerWorld -----------------------------
(***************************************************************************)
(* The world the dedicated server runs without players                     *)
(* (src/server/server_world.cpp): the missions it loads from Supabase at   *)
(* start and spawns from time to time, and the NPC agents that claim them, *)
(* attempt them and are paid for them.                                     *)
(*                                                                         *)
(* ServerWorld::Update runs on the one thread of the server, sixty times a *)
(* second, and its parts wait for timers of their own: 60 s between two    *)
(* spawns, 10 to 29 s, drawn anew every time, between two thoughts of an   *)
(* NPC.  Each part runs to its end before the next one starts, and here    *)
(* each is an action; which timer runs out next is left open.  Not kept:   *)
(* the dirty flag (SaveDirtyState clears it and saves nothing) and the     *)
(* bank accounts (nothing ever adds one, so the hourly tick has no work).  *)
(* ClaimMission and CompleteMission, written for players, have no caller.  *)
(***************************************************************************)
EXTENDS Integers, Sequences, FiniteSets, FiniteSetsExt

CONSTANTS
  NpcCount,     (* the argument of SpawnNPCs, 5 in GameServer              *)
  Difficulties, (* 1 + rand() % 10 in CreateRandomMission                  *)
  Payments,     (* 1000 + rand() % 9000, the pay per point of difficulty   *)
  SpawnCounts,  (* rand() % 5 + 3 in SpawnMissions                         *)
  MinMissions,  (* MIN_MISSIONS, 20                                        *)
  MaxMissions,  (* MAX_MISSIONS, 50                                        *)
  NullClaim,    (* SQL null in the column claimed_by                       *)
  Tables        (* what the missions table may hold at start: sequences    *)

Row == [id: Nat, difficulty: Int, payment: Int,
        claimedBy: Nat \cup {NullClaim}, completed: BOOLEAN]

ASSUME ConstantsAssumption ==
  /\ NpcCount \in Nat
  /\ Difficulties \subseteq Nat
  /\ Payments \subseteq Nat
  /\ SpawnCounts \subseteq Nat
  /\ MinMissions \in Nat
  /\ MaxMissions \in Nat
  /\ NullClaim \notin Nat
  /\ Tables \subseteq Seq(Row)

VARIABLES
  missions,      (* m_missions                                             *)
  npcs,          (* m_agents, all of them NPCs                             *)
  nextMissionId, (* m_nextMissionId                                        *)
  loaded         (* the missions as they were loaded: not in the code, and *)
                 (* read by the properties alone                           *)

vars == <<missions, npcs, nextMissionId, loaded>>

-----------------------------------------------------------------------------

Npc == 1..NpcCount

\* m_nextAgentId counts from 1000.
AgentId(n) == 999 + n

StartCredits(n) == 1000 + (n - 1) * 500

ServerMission ==
  [id: Nat, difficulty: Int, payment: Int, claimedBy: Nat, completed: BOOLEAN]

ServerAgent == [rating: Nat, credits: Int, currentMissionId: Nat]

\* The rows before the first whose claimed_by is null, at which the conversion
\* to an integer throws and ends the loop; none when the request fails.
GetAllMissions(table) ==
  LET IsRead(len) ==
        /\ \A k \in 1..len : table[k].claimedBy # NullClaim
        /\ len < Len(table) => table[len + 1].claimedBy = NullClaim
  IN {<<>>} \cup {[k \in 1..len |-> table[k]] : len \in {l \in 0..Len(table) : IsRead(l)}}

Init ==
  /\ \E table \in Tables : missions \in GetAllMissions(table)
  /\ npcs = [n \in Npc |-> [rating           |-> 1 + ((n - 1) % 5),
                            credits          |-> StartCredits(n),
                            currentMissionId |-> 0]]
  /\ nextMissionId = 1
  /\ loaded = missions

\* FindMission: the first mission of that id.
FindMission(missionId) ==
  LET found == {k \in DOMAIN missions : missions[k].id = missionId}
  IN CHOOSE k \in found : \A j \in found : k <= j

-----------------------------------------------------------------------------
(* SpawnMissions                                                           *)

Active ==
  {k \in DOMAIN missions : missions[k].claimedBy = 0 /\ ~missions[k].completed}

CreateRandomMission(missionId, difficulty, pay) ==
  [id |-> missionId, difficulty |-> difficulty, payment |-> pay * difficulty,
   claimedBy |-> 0, completed |-> FALSE]

\* The list never shrinks, and completed missions count against its cap.
SpawnMissions ==
  /\ Cardinality(Active) < MinMissions
  /\ \E toSpawn \in SpawnCounts :
       LET room  == Max({0, MaxMissions - Len(missions)})
           count == Min({toSpawn, room})
       IN \E random \in [1..count -> Difficulties \X Payments] :
            /\ missions' = missions \o
                 [j \in 1..count |-> CreateRandomMission(nextMissionId + j - 1,
                                                         random[j][1], random[j][2])]
            /\ nextMissionId' = nextMissionId + count
  /\ UNCHANGED <<npcs, loaded>>

-----------------------------------------------------------------------------
(* UpdateNPCAgent, when the agent's think timer has run out.               *)

Eligible(n) == {k \in Active : missions[k].difficulty <= npcs[n].rating}

\* Mutant: a mission is open as long as it is not completed.
ClaimTaken(n) ==
  /\ npcs[n].currentMissionId = 0
  /\ \E k \in DOMAIN missions :
       /\ ~missions[k].completed
       /\ missions[k].difficulty <= npcs[n].rating
       /\ npcs' = [npcs EXCEPT ![n].currentMissionId = missions[k].id]
       /\ missions' = [missions EXCEPT ![k].claimedBy = AgentId(n)]
  /\ UNCHANGED <<nextMissionId, loaded>>

\* Idle: the first mission it may take.
Claim(n) ==
  /\ npcs[n].currentMissionId = 0
  /\ \E k \in Eligible(n) :
       /\ \A j \in Eligible(n) : k <= j
       /\ npcs' = [npcs EXCEPT ![n].currentMissionId = missions[k].id]
       /\ missions' = [missions EXCEPT ![k].claimedBy = AgentId(n)]
  /\ UNCHANGED <<nextMissionId, loaded>>

\* Mutant: the agent is paid for an attempt whether or not it succeeds.
FailPaid(n) ==
  /\ npcs[n].currentMissionId # 0
  /\ LET k == FindMission(npcs[n].currentMissionId)
     IN npcs' = [npcs EXCEPT ![n].credits = @ + missions[k].payment]
  /\ UNCHANGED <<missions, nextMissionId, loaded>>

\* NPCAttemptMission.  The chance of success is clamped to 10..90 percent, so
\* both outcomes are always possible.  Missions never leave the list, so the id
\* an agent remembers is found: at the mission it claimed, or at one before it
\* that bears the same id.
Succeed(n) ==
  /\ npcs[n].currentMissionId # 0
  /\ LET k == FindMission(npcs[n].currentMissionId)
     IN \E raise \in {0, 1} :
          /\ missions' = [missions EXCEPT ![k].completed = TRUE]
          /\ npcs' = [npcs EXCEPT ![n] =
                        [rating           |-> @.rating + raise,
                         credits          |-> @.credits + missions[k].payment,
                         currentMissionId |-> 0]]
  /\ UNCHANGED <<nextMissionId, loaded>>

\* Mutant: no lower end to the rating.
FailBelowZero(n) ==
  /\ npcs[n].currentMissionId # 0
  /\ \E lost \in {0, 1} : npcs' = [npcs EXCEPT ![n].rating = @ - lost]
  /\ UNCHANGED <<missions, nextMissionId, loaded>>

\* The attempt fails: the agent stays on the mission and, when caught, loses
\* a point of its rating.
Fail(n) ==
  /\ npcs[n].currentMissionId # 0
  /\ \E lost \in {0, 1} :
       npcs' = [npcs EXCEPT ![n].rating = Max({0, @ - lost})]
  /\ UNCHANGED <<missions, nextMissionId, loaded>>

Next ==
  \/ SpawnMissions
  \/ \E n \in Npc : Claim(n) \/ Succeed(n) \/ Fail(n)

Spec == Init /\ [][Next]_vars

-----------------------------------------------------------------------------
(* Properties                                                              *)

TypeOK ==
  /\ missions \in Seq(ServerMission)
  /\ npcs \in [Npc -> ServerAgent]
  /\ nextMissionId \in Nat \ {0}
  /\ loaded \in Seq(ServerMission)

\* The id names one mission.  The server counts its ids from 1 as the table
\* does, so a mission it spawns may bear the id of one it loaded; and 0 means
\* no mission.
Unique(missionId) ==
  /\ missionId # 0
  /\ \E k \in DOMAIN missions :
       {j \in DOMAIN missions : missions[j].id = missionId} = {k}

\* The mission in place k was claimed here, not loaded with its holder.
ClaimedHere(k) == k \in DOMAIN loaded => loaded[k].claimedBy = 0

\* The two halves of a claim, the id the agent remembers and the agent the
\* mission remembers, name each other as long as the id names one mission: an
\* agent on a mission finds by its id a mission that it holds and that is open,
\* and an open mission an agent has claimed is the one that agent is on.  Some
\* mission of the id is found in any case.
ClaimsAgree ==
  /\ \A n \in Npc :
       npcs[n].currentMissionId # 0 =>
         LET k == FindMission(npcs[n].currentMissionId)
         IN /\ k \in DOMAIN missions
            /\ Unique(npcs[n].currentMissionId) =>
                 missions[k].claimedBy = AgentId(n) /\ ~missions[k].completed
  /\ \A k \in DOMAIN missions, n \in Npc :
       /\ missions[k].claimedBy = AgentId(n)
       /\ ~missions[k].completed
       /\ ClaimedHere(k)
       /\ Unique(missions[k].id)
       => npcs[n].currentMissionId = missions[k].id

\* What a mission is worth to an agent: its pay, once the agent completed it.
Pay(mission, n) ==
  IF mission.claimedBy = AgentId(n) /\ mission.completed THEN mission.payment ELSE 0

\* The pay of all missions of a list, added up along the list.
Earned(list, n) ==
  LET upTo[k \in 0..Len(list)] ==
        IF k = 0 THEN 0 ELSE upTo[k - 1] + Pay(list[k], n)
  IN upTo[Len(list)]

\* What an agent has earned is the pay of the missions it completed, each
\* counted once: no attempt is paid twice and none for nothing, unless one of
\* the missions the agent holds shares its id with another.
PaidOnce ==
  \A n \in Npc :
    (\A k \in DOMAIN missions :
       missions[k].claimedBy = AgentId(n) => Unique(missions[k].id))
    => npcs[n].credits = StartCredits(n) + Earned(missions, n) - Earned(loaded, n)

\* CompleteMission's rule `tried to complete mission not theirs', for agents: a
\* mission whose id is its own becomes completed only through the agent that
\* has claimed it.
CompletedByClaimant ==
  [][\A k \in DOMAIN missions :
       /\ Unique(missions[k].id)
       /\ ~missions[k].completed
       /\ missions'[k].completed
       => \E n \in Npc : /\ missions[k].claimedBy = AgentId(n)
                         /\ npcs[n].currentMissionId = missions[k].id
                         /\ npcs'[n].currentMissionId = 0]_vars

\* The same rule of every mission.  Does not hold.
NotTheirsRefused ==
  [][\A k \in DOMAIN missions :
       ~missions[k].completed /\ missions'[k].completed =>
         \E n \in Npc : /\ missions[k].claimedBy = AgentId(n)
                        /\ npcs'[n] # npcs[n]]_vars

\* A mission stays what it is in its place, and once claimed is never claimed
\* by another agent nor reopened.
ClaimsAreFinal ==
  [][\A k \in DOMAIN missions :
       /\ k \in DOMAIN missions'
       /\ missions'[k].id = missions[k].id
       /\ missions[k].claimedBy # 0 => missions'[k].claimedBy = missions[k].claimedBy
       /\ missions[k].completed => missions'[k].completed]_vars

\* Spawning stops at the cap, also in the middle of a batch.
CapHolds ==
  [][Len(missions') > Len(missions) => Len(missions') <= MaxMissions]_vars
=============================================================================
