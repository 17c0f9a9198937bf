-------------------------- MODULE GameServerProofs --------------------------
(***************************************************************************)
(* What GameServer keeps for every number of slots, connections, accounts  *)
(* and ticks, and that its list with the erasing walks implements the      *)
(* table of PlayerRegistry.                                                *)
(***************************************************************************)
EXTENDS GameServer, TLAPS

\* The inductive invariant: the three named invariants together, and that the
\* list never holds more elements than the walk that is under way cached.
IInv == TypeOK /\ PlayersInOrder /\ StaleSlotsHarmless

-----------------------------------------------------------------------------
(* Operators.                                                              *)

\* The int32_t reading of a word is an integer.
LEMMA SignedIsInt ==
  ASSUME NEW n \in Int PROVE Signed(n) \in Int
BY ConstantsAssumption DEF Signed

\* The initial content of a slot is a player connection.
LEMMA VacantIsConnection == Vacant \in PlayerConnection
BY ConstantsAssumption DEF Vacant, PlayerConnection, Idle, AuthId

\* Accepting a packet of any kind changes the age of one element only.
LEMMA TouchedKeeps ==
  ASSUME TypeOK, NEW i \in Slot
  PROVE  /\ Touched(i) \in [Slot -> PlayerConnection]
         /\ \A j \in Slot : /\ Touched(i)[j].id = slots[j].id
                            /\ Touched(i)[j].sock = slots[j].sock
                            /\ j # i => Touched(i)[j] = slots[j]
BY ConstantsAssumption DEF TypeOK, Touched, PlayerConnection, Idle

\* DisconnectPlayer, called on storage s that agrees with slots on numbers and
\* sockets, erases at most one player: the one with the number of element i.
LEMMA DisconnectErasesOne ==
  ASSUME IInv,
         NEW s \in [Slot -> PlayerConnection],
         \A j \in Slot : s[j].id = slots[j].id /\ s[j].sock = slots[j].sock,
         NEW i \in Slot,
         DisconnectPlayer(s, i)
  PROVE  /\ slots' \in [Slot -> PlayerConnection]
         /\ \/ /\ \A k \in Live : slots[k].id # slots[i].id
               /\ i \notin Live
               /\ size' = size
               /\ \A j \in Slot : j # i => slots'[j] = s[j]
               /\ slots'[i].sock = "null"
               /\ slots'[i].id = s[i].id
               /\ slots'[i].idle = s[i].idle
            \/ \E k \in Live :
                 /\ slots[k].id = slots[i].id
                 /\ i \in Live => k = i
                 /\ size' = size - 1
                 /\ \A j \in 1..(k - 1) : slots'[j] = s[j]
                 /\ \A j \in k..(size - 1) : slots'[j] = s[j + 1]
                 /\ slots'[size].sock = "null"
                 /\ slots'[size].id = s[size].id
                 /\ slots'[size].idle = s[size].idle
                 /\ \A j \in (size + 1)..MaxPlayers :
                      /\ slots'[j].id = s[j].id
                      /\ slots'[j].idle = s[j].idle
                      /\ slots'[j].sock \in {"null", s[j].sock}
<1> DEFINE closed == [s EXCEPT ![i] = [s[i] EXCEPT !.sock = "null",
                                                   !.authenticated = FALSE]]
<1>1. /\ closed \in [Slot -> PlayerConnection]
      /\ \A j \in Slot : j # i => closed[j] = s[j]
      /\ closed[i].sock = "null"
      /\ closed[i].id = s[i].id
      /\ closed[i].idle = s[i].idle
  BY DEF PlayerConnection
<1>2. size \in Nat /\ size <= MaxPlayers /\ MaxPlayers \in Nat
  BY ConstantsAssumption DEF IInv, TypeOK
<1>3. \A j \in Live : j \in Slot
  BY <1>2 DEF Live, Slot
<1>4. \A j, k \in Live : slots[j].id = slots[k].id => j = k
  <2>1. \A j, k \in Live : j # k => j < k \/ k < j
    BY <1>2 DEF Live
  <2>2. \A j \in Live : slots[j].id \in Nat
    BY <1>3 DEF IInv, TypeOK, PlayerConnection
  <2> QED BY <2>1, <2>2 DEF IInv, PlayersInOrder
<1>5. CASE {k \in Live : s[k].id = s[i].id} = {}
  <2>1. \A k \in Live : slots[k].id # slots[i].id
    BY <1>3, <1>5
  <2>2. /\ slots' = closed
        /\ size' = size
    BY <1>5 DEF DisconnectPlayer
  <2> HIDE DEF closed
  <2> QED BY <1>1, <2>1, <2>2
<1>6. ASSUME NEW k \in Live, s[k].id = s[i].id,
             slots' = Erased(closed, k), size' = size - 1
      PROVE  /\ slots' \in [Slot -> PlayerConnection]
             /\ slots[k].id = slots[i].id
             /\ i \in Live => k = i
             /\ size' = size - 1
             /\ \A j \in 1..(k - 1) : slots'[j] = s[j]
             /\ \A j \in k..(size - 1) : slots'[j] = s[j + 1]
             /\ slots'[size].sock = "null"
             /\ slots'[size].id = s[size].id
             /\ slots'[size].idle = s[size].idle
             /\ \A j \in (size + 1)..MaxPlayers :
                  /\ slots'[j].id = s[j].id
                  /\ slots'[j].idle = s[j].idle
                  /\ slots'[j].sock \in {"null", s[j].sock}
  <2> HIDE DEF closed
  <2>1. /\ k \in Int /\ 1 <= k /\ k <= size /\ k \in Slot /\ size \in Slot
    BY <1>2 DEF Live, Slot
  <2>2. slots[k].id = slots[i].id
    BY <1>6, <2>1
  <2>3. i \in Live => k = i
    BY <2>2, <1>4
  <2>4. i = k \/ i > size
    BY <2>3, <1>2 DEF Live, Slot
  <2>5. \A j \in Slot :
           slots'[j] = IF j \in k..(size - 1) THEN closed[j + 1]
                       ELSE IF j = size THEN [closed[j] EXCEPT !.sock = "null"]
                       ELSE closed[j]
    BY <1>6 DEF Erased
  <2>6. slots' \in [Slot -> PlayerConnection]
    <3>1. \A j \in Slot : j \in k..(size - 1) => j + 1 \in Slot
      BY <1>2 DEF Slot
    <3>2. \A j \in Slot :
             [closed[j] EXCEPT !.sock = "null"] \in PlayerConnection
      BY <1>1 DEF PlayerConnection
    <3> QED BY <1>1, <1>6, <3>1, <3>2 DEF Erased
  <2>7. ASSUME NEW j \in 1..(k - 1) PROVE slots'[j] = s[j]
    <3>1. j \in Slot /\ j < k /\ j # size /\ j \notin k..(size - 1) /\ j # i
      BY <1>2, <2>1, <2>4 DEF Slot
    <3>2. slots'[j] = closed[j]
      BY <2>5, <3>1
    <3> QED BY <1>1, <3>1, <3>2
  <2>8. ASSUME NEW j \in k..(size - 1) PROVE slots'[j] = s[j + 1]
    <3>1. j \in Slot /\ j + 1 \in Slot /\ j + 1 # i
      BY <1>2, <2>1, <2>4 DEF Slot
    <3>2. slots'[j] = closed[j + 1]
      BY <2>5, <3>1
    <3> QED BY <1>1, <3>1, <3>2
  <2>9. /\ slots'[size].sock = "null"
        /\ slots'[size].id = s[size].id
        /\ slots'[size].idle = s[size].idle
    <3>1. slots'[size] = [closed[size] EXCEPT !.sock = "null"]
      BY <1>2, <2>1, <2>5
    <3>2. closed[size] \in PlayerConnection
      BY <1>1, <2>1
    <3>3. closed[size].id = s[size].id /\ closed[size].idle = s[size].idle
      BY <1>1, <2>1
    <3> QED BY <3>1, <3>2, <3>3 DEF PlayerConnection
  <2>10. ASSUME NEW j \in (size + 1)..MaxPlayers
         PROVE  /\ slots'[j].id = s[j].id
                /\ slots'[j].idle = s[j].idle
                /\ slots'[j].sock \in {"null", s[j].sock}
    <3>1. j \in Slot /\ j \notin k..(size - 1) /\ j # size
      BY <1>2 DEF Slot
    <3>2. slots'[j] = closed[j]
      BY <2>5, <3>1
    <3> QED BY <1>1, <3>1, <3>2
  <2> QED BY <1>6, <2>2, <2>3, <2>6, <2>7, <2>8, <2>9, <2>10
<1>7. CASE {k \in Live : s[k].id = s[i].id} # {}
  <2>1. \E k \in {k \in Live : s[k].id = s[i].id} :
           slots' = Erased(closed, k) /\ size' = size - 1
    BY <1>7 DEF DisconnectPlayer
  <2>2. PICK k \in Live : /\ s[k].id = s[i].id
                          /\ slots' = Erased(closed, k)
                          /\ size' = size - 1
    BY <2>1
  <2> HIDE DEF closed
  <2> QED BY <1>6, <2>2
<1> QED BY <1>5, <1>7

\* The elements of the list have different numbers.
LEMMA NumbersDiffer ==
  ASSUME IInv
  PROVE  \A j, k \in Live : slots[j].id = slots[k].id => j = k
<1>1. size \in Nat /\ size <= MaxPlayers /\ MaxPlayers \in Nat
  BY ConstantsAssumption DEF IInv, TypeOK
<1>2. \A j, k \in Live : j # k => j < k \/ k < j
  BY <1>1 DEF Live
<1>3. \A j \in Live : slots[j].id \in Nat
  BY <1>1 DEF IInv, TypeOK, PlayerConnection, Live, Slot
<1> QED BY <1>2, <1>3 DEF IInv, PlayersInOrder

\* DisconnectPlayer, called from either walk, keeps the order of the list and
\* leaves behind it nothing a later turn of the walk could take for a player
\* of another age.
LEMMA DisconnectKeepsInvariant ==
  ASSUME IInv,
         NEW s \in [Slot -> PlayerConnection],
         \A j \in Slot : s[j].id = slots[j].id /\ s[j].sock = slots[j].sock,
         phase = "timeouts" => \A j \in Slot : s[j].idle = slots[j].idle,
         phase \in {"incoming", "timeouts"},
         NEW i \in Slot,
         DisconnectPlayer(s, i),
         phase' = phase, end' = end, nextPlayerId' = nextPlayerId
  PROVE  /\ slots' \in [Slot -> PlayerConnection]
         /\ size' \in 0..MaxPlayers
         /\ PlayersInOrder'
         /\ StaleSlotsHarmless'
<1>1. /\ size \in Nat /\ size <= MaxPlayers /\ MaxPlayers \in Nat
      /\ end \in Nat /\ end <= MaxPlayers /\ size <= end
  BY ConstantsAssumption DEF IInv, TypeOK, StaleSlotsHarmless
<1>2. slots' \in [Slot -> PlayerConnection]
  BY DisconnectErasesOne
<1>3. \A j \in (size + 1)..end : j \in Slot /\ slots[j].sock = "null"
  BY <1>1 DEF IInv, StaleSlotsHarmless, Slot
<1>4. \A j \in Live : j \in Slot
  BY <1>1 DEF Live, Slot
<1>5. CASE /\ \A k \in Live : slots[k].id # slots[i].id
           /\ i \notin Live
           /\ size' = size
           /\ \A j \in Slot : j # i => slots'[j] = s[j]
           /\ slots'[i].sock = "null"
           /\ slots'[i].id = s[i].id
           /\ slots'[i].idle = s[i].idle
  <2>1. \A j \in Live : slots'[j] = s[j]
    BY <1>4, <1>5
  <2>2. Live' = Live
    BY <1>5 DEF Live
  <2>3. PlayersInOrder'
    BY <1>4, <2>1, <2>2 DEF IInv, PlayersInOrder
  <2>4. \A g \in (size + 1)..end :
           /\ slots'[g].sock = "null"
           /\ slots'[g].id = slots[g].id
           /\ phase = "timeouts" => slots'[g].idle = slots[g].idle
    BY <1>3, <1>5
  <2>5. \A g \in (size + 1)..end : phase = "timeouts" =>
           \A j \in Live : slots'[j].id = slots'[g].id
                             => slots'[j].idle = slots'[g].idle
    BY <1>3, <1>4, <2>1, <2>4 DEF IInv, StaleSlotsHarmless
  <2>6. StaleSlotsHarmless'
    BY <1>1, <1>5, <2>2, <2>4, <2>5 DEF StaleSlotsHarmless
  <2> QED BY <1>1, <1>2, <1>5, <2>3, <2>6
<1>6. ASSUME NEW k \in Live,
             size' = size - 1,
             \A j \in 1..(k - 1) : slots'[j] = s[j],
             \A j \in k..(size - 1) : slots'[j] = s[j + 1],
             slots'[size].sock = "null",
             slots'[size].id = s[size].id,
             slots'[size].idle = s[size].idle,
             \A j \in (size + 1)..MaxPlayers :
               /\ slots'[j].id = s[j].id
               /\ slots'[j].idle = s[j].idle
               /\ slots'[j].sock \in {"null", s[j].sock}
      PROVE  PlayersInOrder' /\ StaleSlotsHarmless' /\ size' \in 0..MaxPlayers
  <2> DEFINE m(j) == IF j < k THEN j ELSE j + 1
  <2>1. k \in Int /\ 1 <= k /\ k <= size
    BY <1>1 DEF Live
  <2>2. Live' = 1..(size - 1)
    BY <1>6 DEF Live
  <2>3. ASSUME NEW j \in Live'
        PROVE m(j) \in Live /\ m(j) # k /\ slots'[j] = s[m(j)] /\ m(j) \in Slot
    <3>0. j \in 1..(size - 1)
      BY <2>2
    <3>1. j \in 1..(k - 1) \/ j \in k..(size - 1)
      BY <1>1, <2>1, <3>0
    <3>2. m(j) \in Live /\ m(j) # k
      BY <1>1, <2>1, <3>0 DEF Live
    <3>3. slots'[j] = s[m(j)]
      BY <1>6, <2>1, <3>1
    <3> QED BY <1>4, <3>2, <3>3
  <2>4. \A j, l \in Live' : j < l => m(j) < m(l)
    BY <1>1, <2>1, <2>2
  <2> HIDE DEF m
  <2>5. PlayersInOrder'
    <3>1. \A j, l \in Live' : j < l => slots'[j].id < slots'[l].id
      BY <2>3, <2>4 DEF IInv, PlayersInOrder
    <3>2. \A j \in Live' : /\ slots'[j].id \in 1..(nextPlayerId - 1)
                            /\ slots'[j].sock # "null"
      BY <2>3 DEF IInv, PlayersInOrder
    <3> QED BY <3>1, <3>2 DEF PlayersInOrder
  <2>6. size \in Slot /\ size \in Live
    BY <1>1, <2>1 DEF Slot, Live
  <2>7. \A g \in size..end : slots'[g].sock = "null"
    <3>1. \A g \in (size + 1)..end : g \in (size + 1)..MaxPlayers
      BY <1>1
    <3>2. \A g \in (size + 1)..end : slots'[g].sock = "null"
      BY <1>3, <1>6, <3>1
    <3>3. \A g \in size..end : g = size \/ g \in (size + 1)..end
      BY <1>1
    <3> QED BY <1>6, <3>2, <3>3
  <2>8. ASSUME phase = "timeouts", NEW g \in size..end, NEW j \in Live',
               slots'[j].id = slots'[g].id
        PROVE  slots'[j].idle = slots'[g].idle
    <3>1. \A h \in Slot : s[h].id = slots[h].id /\ s[h].idle = slots[h].idle
      BY <2>8
    <3>2. slots'[j].id = slots[m(j)].id /\ slots'[j].idle = slots[m(j)].idle
      BY <2>3, <3>1
    <3>3. CASE g = size
      <4>0. slots[m(j)].id = slots[size].id /\ m(j) \in Live
        BY <1>6, <2>3, <2>6, <2>8, <3>1, <3>2, <3>3
      <4>1. m(j) = size
        BY <2>6, <4>0, NumbersDiffer
      <4> QED BY <1>6, <2>6, <3>1, <3>2, <3>3, <4>1
    <3>4. CASE g \in (size + 1)..end
      <4>1. slots'[g].id = slots[g].id /\ slots'[g].idle = slots[g].idle
        BY <1>1, <1>3, <1>6, <3>1, <3>4
      <4>2. slots[m(j)].id = slots[g].id => slots[m(j)].idle = slots[g].idle
        BY <2>3, <2>8, <3>4 DEF IInv, StaleSlotsHarmless
      <4> QED BY <2>8, <3>2, <4>1, <4>2
    <3> QED BY <1>1, <3>3, <3>4
  <2>9. StaleSlotsHarmless'
    <3>1. (size' + 1)..end' = size..end /\ size' <= end'
      BY <1>1, <1>6
    <3> QED BY <2>7, <2>8, <3>1 DEF StaleSlotsHarmless
  <2> QED BY <1>1, <1>6, <2>1, <2>5, <2>9
<1> QED BY <1>2, <1>5, <1>6, DisconnectErasesOne

\* A step of the incoming walk that keeps every number and every socket keeps
\* the order of the list.
LEMMA SameSocketsKeepInvariant ==
  ASSUME IInv, phase = "incoming", phase' = phase, end' = end, size' = size,
         nextPlayerId' = nextPlayerId,
         \A j \in Slot : slots'[j].id = slots[j].id /\ slots'[j].sock = slots[j].sock
  PROVE  PlayersInOrder' /\ StaleSlotsHarmless'
<1>1. /\ size \in Nat /\ size <= MaxPlayers /\ MaxPlayers \in Nat
      /\ end \in Nat /\ end <= MaxPlayers /\ size <= end
  BY ConstantsAssumption DEF IInv, TypeOK, StaleSlotsHarmless
<1>2. Live' = Live
  BY DEF Live
<1>3. /\ \A j \in Live : j \in Slot
      /\ \A j \in (size + 1)..end : j \in Slot
  BY <1>1 DEF Live, Slot
<1>4. PlayersInOrder'
  BY <1>2, <1>3 DEF IInv, PlayersInOrder
<1>5. StaleSlotsHarmless'
  BY <1>3 DEF IInv, StaleSlotsHarmless
<1> QED BY <1>4, <1>5

\* The first step of every handler: the packet's sender is in the list.
LEMMA SenderIsLive ==
  ASSUME IInv, phase = "incoming", pos <= end, slots[pos].sock # "null"
  PROVE  pos \in Slot /\ pos \in Live
<1>1. /\ size \in Nat /\ end \in Nat /\ end <= MaxPlayers /\ MaxPlayers \in Nat
      /\ pos \in Nat /\ 1 <= pos
  BY ConstantsAssumption DEF IInv, TypeOK
<1>2. pos \in Live \/ pos \in (size + 1)..end
  BY <1>1 DEF Live
<1> QED BY <1>1, <1>2 DEF IInv, StaleSlotsHarmless, Slot

\* What a handler does to the storage it is given keeps the invariant, where
\* that storage is m_players with at most the sender's age refreshed.
LEMMA RefuseKeepsInvariant ==
  ASSUME IInv, phase = "incoming",
         NEW s \in [Slot -> PlayerConnection],
         \A j \in Slot : s[j].id = slots[j].id /\ s[j].sock = slots[j].sock,
         NEW i \in Slot,
         Refuse(s, i),
         phase' = phase, end' = end, nextPlayerId' = nextPlayerId
  PROVE  /\ slots' \in [Slot -> PlayerConnection]
         /\ size' \in 0..MaxPlayers
         /\ store' \in [Accounts -> Int \cup {NoProfile}]
         /\ authToken' \in Token
         /\ PlayersInOrder'
         /\ StaleSlotsHarmless'
<1>1. DisconnectPlayer(s, i)
  BY DEF Refuse
<1>2. store' = store /\ authToken' = authToken
  BY DEF Refuse
<1> QED BY <1>1, <1>2, DisconnectKeepsInvariant DEF IInv, TypeOK

LEMMA PacketKeepsInvariant ==
  ASSUME IInv, phase = "incoming", NEW i \in Slot, HandlePacket(i),
         phase' = phase, end' = end, nextPlayerId' = nextPlayerId
  PROVE  /\ slots' \in [Slot -> PlayerConnection]
         /\ size' \in 0..MaxPlayers
         /\ store' \in [Accounts -> Int \cup {NoProfile}]
         /\ authToken' \in Token
         /\ PlayersInOrder'
         /\ StaleSlotsHarmless'
<1> DEFINE s == Touched(i)
<1>1. /\ s \in [Slot -> PlayerConnection]
      /\ \A j \in Slot : s[j].id = slots[j].id /\ s[j].sock = slots[j].sock
  BY TouchedKeeps DEF IInv
<1>2. /\ size \in 0..MaxPlayers
      /\ store \in [Accounts -> Int \cup {NoProfile}]
      /\ authToken \in Token
  BY DEF IInv, TypeOK
<1> HIDE DEF s
<1>3. ASSUME Refuse(s, i)
      PROVE  /\ slots' \in [Slot -> PlayerConnection]
             /\ size' \in 0..MaxPlayers
             /\ store' \in [Accounts -> Int \cup {NoProfile}]
             /\ authToken' \in Token
             /\ PlayersInOrder'
             /\ StaleSlotsHarmless'
  BY <1>1, <1>3, RefuseKeepsInvariant
<1>4. ASSUME NEW account \in AuthId, NEW balance \in Int,
             slots' = Admitted(s, i, account, balance)
      PROVE  /\ slots' \in [Slot -> PlayerConnection]
             /\ \A j \in Slot : /\ slots'[j].id = slots[j].id
                                /\ slots'[j].sock = slots[j].sock
  BY <1>1, <1>4 DEF Admitted, PlayerConnection
<1>5. ASSUME AdmitGuest(s, i)
      PROVE  /\ slots' \in [Slot -> PlayerConnection]
             /\ size' \in 0..MaxPlayers
             /\ store' \in [Accounts -> Int \cup {NoProfile}]
             /\ authToken' \in Token
             /\ PlayersInOrder'
             /\ StaleSlotsHarmless'
  <2>1. NoAccount \in AuthId /\ StartBalance \in Int
    BY ConstantsAssumption DEF AuthId
  <2>2. slots' = Admitted(s, i, NoAccount, StartBalance)
    BY <1>5 DEF AdmitGuest
  <2>3. /\ slots' \in [Slot -> PlayerConnection]
        /\ \A j \in Slot : /\ slots'[j].id = slots[j].id
                           /\ slots'[j].sock = slots[j].sock
    BY <1>4, <2>1, <2>2
  <2>4. size' = size /\ store' = store /\ authToken' = authToken
    BY <1>5 DEF AdmitGuest
  <2> QED BY <1>2, <2>3, <2>4, SameSocketsKeepInvariant
<1>6. ASSUME NEW account \in Accounts, AdmitAccount(s, i, account)
      PROVE  /\ slots' \in [Slot -> PlayerConnection]
             /\ size' \in 0..MaxPlayers
             /\ store' \in [Accounts -> Int \cup {NoProfile}]
             /\ authToken' \in Token
             /\ PlayersInOrder'
             /\ StaleSlotsHarmless'
  <2>1. authToken' = account /\ size' = size
    BY <1>6 DEF AdmitAccount
  <2>2. authToken' \in Token /\ account \in AuthId /\ StartBalance \in Int
    BY <1>6, <2>1, ConstantsAssumption DEF Token, AuthId
  <2>3. PICK row \in GetPlayerProfile(account, authToken') :
           IF row # NoProfile
           THEN /\ slots' = Admitted(s, i, account, row)
                /\ UNCHANGED store
           ELSE /\ slots' = Admitted(s, i, account, StartBalance)
                /\ CreatePlayerProfile(account)
    BY <1>6 DEF AdmitAccount
  <2>4. row \in Int \cup {NoProfile}
    BY <1>2, <1>6, <2>3 DEF GetPlayerProfile
  <2>5. /\ slots' \in [Slot -> PlayerConnection]
        /\ \A j \in Slot : /\ slots'[j].id = slots[j].id
                           /\ slots'[j].sock = slots[j].sock
    <3>1. CASE row # NoProfile
      BY <1>4, <2>2, <2>3, <2>4, <3>1
    <3>2. CASE row = NoProfile
      BY <1>4, <2>2, <2>3, <3>2
    <3> QED BY <3>1, <3>2
  <2>6. store' \in [Accounts -> Int \cup {NoProfile}]
    <3>1. CASE row # NoProfile
      BY <1>2, <2>3, <3>1
    <3>2. CASE row = NoProfile
      BY <1>2, <2>2, <2>3, <3>2 DEF CreatePlayerProfile
    <3> QED BY <3>1, <3>2
  <2> QED BY <1>2, <2>1, <2>2, <2>5, <2>6, SameSocketsKeepInvariant
<1>7. CASE HandleHandshake(s, i)
  <2>1. CASE Refuse(s, i)
    BY <1>3, <2>1
  <2>2. ASSUME NEW token \in Token, NEW account \in VerifyToken(token),
               IF account # NoAccount THEN AdmitAccount(s, i, account)
               ELSE IF SupabaseConfigured /\ token # NoToken THEN Refuse(s, i)
               ELSE AdmitGuest(s, i)
        PROVE  Refuse(s, i) \/ AdmitGuest(s, i)
                 \/ \E a \in Accounts : AdmitAccount(s, i, a)
    <3>1. account \in Accounts \/ account = NoAccount
      BY <2>2 DEF VerifyToken
    <3> QED BY <2>2, <3>1
  <2>3. Refuse(s, i) \/ AdmitGuest(s, i)
          \/ \E a \in Accounts : AdmitAccount(s, i, a)
    BY <1>7, <2>2 DEF HandleHandshake
  <2> QED BY <1>3, <1>5, <1>6, <2>3
<1>8. ASSUME NEW amount \in Amounts, PlaceBounty(s, i, amount)
      PROVE  /\ slots' \in [Slot -> PlayerConnection]
             /\ size' \in 0..MaxPlayers
             /\ store' \in [Accounts -> Int \cup {NoProfile}]
             /\ authToken' \in Token
             /\ PlayersInOrder'
             /\ StaleSlotsHarmless'
  <2>1. size' = size /\ store' = store /\ authToken' = authToken
    BY <1>8 DEF PlaceBounty
  <2>2. Signed(s[i].credits - amount) \in Int
    <3>1. s[i].credits - amount \in Int
      BY <1>1, ConstantsAssumption DEF PlayerConnection
    <3> QED BY <3>1, SignedIsInt
  <2>3. /\ slots' \in [Slot -> PlayerConnection]
        /\ \A j \in Slot : /\ slots'[j].id = slots[j].id
                           /\ slots'[j].sock = slots[j].sock
    <3>1. PICK funds \in Int, wide \in BOOLEAN :
            \/ slots' = s
            \/ slots' = [s EXCEPT ![i] = [s[i] EXCEPT !.credits = funds, !.wide = wide]]
      <4>1. (s[i].wide \/ 2 * amount >= WordSize) \in BOOLEAN
        BY <1>1 DEF PlayerConnection
      <4>2. CASE Signed(amount) <= s[i].credits
        BY <1>8, <2>2, <4>1, <4>2, Zenon DEF PlaceBounty
      <4>3. CASE ~(Signed(amount) <= s[i].credits)
        <5>1. slots' = s
          BY <1>8, <4>3 DEF PlaceBounty
        <5> QED BY <5>1, <2>2, <4>1, Zenon
      <4> QED BY <4>2, <4>3
    <3>2. CASE slots' = s
      BY <1>1, <3>2
    <3>3. CASE slots' = [s EXCEPT ![i] = [s[i] EXCEPT !.credits = funds, !.wide = wide]]
      BY <1>1, <3>3 DEF PlayerConnection
    <3> QED BY <3>1, <3>2, <3>3
  <2> QED BY <1>2, <2>1, <2>3, SameSocketsKeepInvariant
<1>9. CASE OtherPacket(s)
  <2>1. slots' = s /\ size' = size /\ store' = store /\ authToken' = authToken
    BY <1>9 DEF OtherPacket
  <2> QED BY <1>1, <1>2, <2>1, SameSocketsKeepInvariant
<1> QED BY <1>7, <1>8, <1>9 DEF HandlePacket, HandlePlayerAction, s

-----------------------------------------------------------------------------
(* The invariant.                                                          *)

\* The server starts with an empty list.
LEMMA InitEstablishes == Init => IInv
<1> SUFFICES ASSUME Init PROVE IInv
  OBVIOUS
<1>1. TypeOK
  <2>1. store \in [Accounts -> Int \cup {NoProfile}]
    BY ConstantsAssumption DEF Init
  <2>2. slots \in [Slot -> PlayerConnection]
    BY VacantIsConnection DEF Init
  <2> QED BY <2>1, <2>2, ConstantsAssumption DEF Init, TypeOK, Token
<1>2. PlayersInOrder
  BY DEF Init, PlayersInOrder, Live
<1>3. StaleSlotsHarmless
  BY DEF Init, StaleSlotsHarmless
<1> QED BY <1>1, <1>2, <1>3 DEF IInv

\* Writing over the storage past the end of the list does not touch the list.
LEMMA TrimmedKeeps ==
  ASSUME IInv
  PROVE  /\ Trimmed \in [Slot -> PlayerConnection]
         /\ \A j \in Live : j \in Slot /\ Trimmed[j] = slots[j]
         /\ \A j \in Slot : j \notin Live => Trimmed[j] = Vacant
<1>1. size \in Nat /\ size <= MaxPlayers /\ MaxPlayers \in Nat
  BY ConstantsAssumption DEF IInv, TypeOK
<1>2. \A j \in Live : j \in Slot
  BY <1>1 DEF Live, Slot
<1> QED BY <1>2, VacantIsConnection DEF IInv, TypeOK, Trimmed

\* Every step of the server and of its peers keeps the invariant.
LEMMA NextKeepsInvariant == IInv /\ [Next]_vars => IInv'
<1> SUFFICES ASSUME IInv, [Next]_vars PROVE IInv'
  OBVIOUS
<1>0. /\ size \in Nat /\ size <= MaxPlayers /\ MaxPlayers \in Nat
      /\ end \in Nat /\ end <= MaxPlayers
      /\ pos \in Nat /\ 1 <= pos /\ pos <= MaxPlayers + 1
      /\ nextPlayerId \in Nat /\ 1 <= nextPlayerId
  BY ConstantsAssumption DEF IInv, TypeOK
<1>00. \A j \in Live : j \in Slot
  BY <1>0 DEF Live, Slot
<1>1. CASE StartTick
  <2>1. /\ slots' \in [Slot -> PlayerConnection]
        /\ \A j \in Slot : /\ slots'[j].id = slots[j].id
                           /\ slots'[j].sock = slots[j].sock
    BY <1>1, ConstantsAssumption
       DEF IInv, TypeOK, StartTick, PlayerConnection, Idle
  <2>2. TypeOK'
    BY <1>1, <2>1 DEF IInv, TypeOK, StartTick
  <2>3. Live' = Live /\ nextPlayerId' = nextPlayerId /\ end' = end /\ phase' = "accept"
    BY <1>1 DEF StartTick, Live
  <2>4. PlayersInOrder'
    BY <1>00, <2>1, <2>3 DEF IInv, PlayersInOrder
  <2>5. \A g \in (size + 1)..end : g \in Slot
    BY <1>0 DEF Slot
  <2>6. size' = size
    BY <1>1 DEF StartTick
  <2>7. StaleSlotsHarmless'
    BY <2>1, <2>3, <2>5, <2>6 DEF IInv, StaleSlotsHarmless
  <2> QED BY <2>2, <2>4, <2>7 DEF IInv
<1>2. CASE AcceptConnections
  <2>1. /\ phase' = "incoming" /\ pos' = 1 /\ end' = size'
        /\ store' = store /\ authToken' = authToken
    BY <1>2 DEF AcceptConnections
  <2>2. CASE UNCHANGED <<slots, size, nextPlayerId>>
    <3>1. TypeOK'
      BY <1>0, <2>1, <2>2 DEF IInv, TypeOK
    <3>2. PlayersInOrder'
      BY <2>2 DEF IInv, PlayersInOrder, Live
    <3>3. StaleSlotsHarmless'
      BY <1>0, <2>1, <2>2 DEF StaleSlotsHarmless
    <3> QED BY <3>1, <3>2, <3>3 DEF IInv
  <2>3. CASE /\ size < MaxPlayers
             /\ nextPlayerId <= MaxConnections
             /\ slots' = [slots EXCEPT ![size + 1] =
                            [Vacant EXCEPT !.id = nextPlayerId, !.sock = "up"]]
             /\ size' = size + 1
             /\ nextPlayerId' = nextPlayerId + 1
    <3>1. /\ [Vacant EXCEPT !.id = nextPlayerId, !.sock = "up"] \in PlayerConnection
          /\ [Vacant EXCEPT !.id = nextPlayerId, !.sock = "up"].id = nextPlayerId
          /\ [Vacant EXCEPT !.id = nextPlayerId, !.sock = "up"].sock = "up"
      BY <1>0, VacantIsConnection DEF PlayerConnection, Vacant
    <3>2. size + 1 \in Slot /\ Live' = Live \cup {size + 1} /\ size + 1 \notin Live
      BY <1>0, <2>3 DEF Slot, Live
    <3>3. /\ slots' \in [Slot -> PlayerConnection]
          /\ slots'[size + 1].id = nextPlayerId
          /\ slots'[size + 1].sock = "up"
          /\ \A j \in Live : slots'[j] = slots[j]
      BY <1>00, <2>3, <3>1, <3>2 DEF IInv, TypeOK
    <3>4. TypeOK'
      BY <1>0, <2>1, <2>3, <3>3 DEF IInv, TypeOK
    <3>5. PlayersInOrder'
      <4>1. \A j \in Live : j < size + 1 /\ slots[j].id \in 1..(nextPlayerId - 1)
        BY <1>0 DEF Live, IInv, PlayersInOrder
      <4>2. ASSUME NEW i \in Live', NEW j \in Live', i < j
            PROVE  slots'[i].id < slots'[j].id
        <5>1. i \in Live
          BY <1>0, <3>2, <4>1, <4>2 DEF Live
        <5>2. CASE j \in Live
          BY <3>3, <4>2, <5>1, <5>2 DEF IInv, PlayersInOrder
        <5>3. CASE j = size + 1
          BY <1>0, <3>3, <4>1, <5>1, <5>3
        <5> QED BY <3>2, <5>2, <5>3
      <4>3. ASSUME NEW i \in Live'
            PROVE  slots'[i].id \in 1..(nextPlayerId' - 1) /\ slots'[i].sock # "null"
        <5>1. CASE i \in Live
          <6>1. slots[i].id \in 1..(nextPlayerId - 1) /\ slots[i].sock # "null"
            BY <5>1 DEF IInv, PlayersInOrder
          <6>2. slots[i].id \in 1..(nextPlayerId' - 1)
            BY <1>0, <2>3, <6>1
          <6> QED BY <3>3, <5>1, <6>1, <6>2
        <5>2. CASE i = size + 1
          BY <1>0, <2>3, <3>3, <5>2
        <5> QED BY <3>2, <5>1, <5>2
      <4> QED BY <4>2, <4>3 DEF PlayersInOrder
    <3>6. StaleSlotsHarmless'
      BY <1>0, <2>1, <2>3 DEF StaleSlotsHarmless
    <3> QED BY <3>4, <3>5, <3>6 DEF IInv
  <2> QED BY <1>2, <2>2, <2>3 DEF AcceptConnections
<1>3. CASE ProcessIncoming
  <2>1. /\ phase = "incoming" /\ pos <= end /\ pos' = pos + 1
        /\ phase' = phase /\ end' = end /\ nextPlayerId' = nextPlayerId
    BY <1>3 DEF ProcessIncoming
  <2>2. pos \in Slot
    BY <1>0, <2>1 DEF Slot
  <2>3. /\ slots' \in [Slot -> PlayerConnection]
        /\ size' \in 0..MaxPlayers
        /\ store' \in [Accounts -> Int \cup {NoProfile}]
        /\ authToken' \in Token
        /\ PlayersInOrder'
        /\ StaleSlotsHarmless'
    <3>1. CASE UNCHANGED <<slots, size, store, authToken>>
      BY <2>1, <3>1, SameSocketsKeepInvariant DEF IInv, TypeOK
    <3>2. CASE Refuse(slots, pos)
      <4>1. slots \in [Slot -> PlayerConnection]
        BY DEF IInv, TypeOK
      <4> QED BY <2>1, <2>2, <3>2, <4>1, RefuseKeepsInvariant
    <3>3. CASE HandlePacket(pos)
      BY <2>1, <2>2, <3>3, PacketKeepsInvariant
    <3> QED BY <1>3, <3>1, <3>2, <3>3 DEF ProcessIncoming
  <2>4. TypeOK'
    BY <1>0, <2>1, <2>3 DEF IInv, TypeOK
  <2> QED BY <2>3, <2>4 DEF IInv
<1>4. CASE EndIncoming
  <2>1. /\ slots' = Trimmed /\ size' = size /\ nextPlayerId' = nextPlayerId
        /\ phase' = "timeouts" /\ pos' = 1 /\ end' = size
        /\ store' = store /\ authToken' = authToken
    BY <1>4 DEF EndIncoming
  <2>2. TypeOK'
    BY <1>0, <2>1, TrimmedKeeps DEF IInv, TypeOK
  <2>3. Live' = Live
    BY <2>1 DEF Live
  <2>4. PlayersInOrder'
    BY <2>1, <2>3, TrimmedKeeps DEF IInv, PlayersInOrder
  <2>5. StaleSlotsHarmless'
    BY <1>0, <2>1 DEF StaleSlotsHarmless
  <2> QED BY <2>2, <2>4, <2>5 DEF IInv
<1>5. CASE CheckTimeouts
  <2>1. /\ phase = "timeouts" /\ pos <= end /\ pos' = pos + 1
        /\ phase' = phase /\ end' = end /\ nextPlayerId' = nextPlayerId
        /\ store' = store /\ authToken' = authToken
    BY <1>5 DEF CheckTimeouts
  <2>2. pos \in Slot
    BY <1>0, <2>1 DEF Slot
  <2>3. slots \in [Slot -> PlayerConnection]
    BY DEF IInv, TypeOK
  <2>4. /\ slots' \in [Slot -> PlayerConnection]
        /\ size' \in 0..MaxPlayers
        /\ PlayersInOrder'
        /\ StaleSlotsHarmless'
    <3>1. CASE DisconnectPlayer(slots, pos)
      BY <2>1, <2>2, <2>3, <3>1, DisconnectKeepsInvariant
    <3>2. CASE UNCHANGED <<slots, size>>
      <4>1. PlayersInOrder'
        BY <2>1, <3>2 DEF IInv, PlayersInOrder, Live
      <4>2. StaleSlotsHarmless'
        BY <2>1, <3>2 DEF IInv, StaleSlotsHarmless, Live
      <4> QED BY <3>2, <4>1, <4>2 DEF IInv, TypeOK
    <3> QED BY <1>5, <3>1, <3>2 DEF CheckTimeouts
  <2>5. TypeOK'
    BY <1>0, <2>1, <2>4 DEF IInv, TypeOK
  <2> QED BY <2>4, <2>5 DEF IInv
<1>6. CASE EndTick
  <2>1. /\ slots' = Trimmed /\ size' = size /\ nextPlayerId' = nextPlayerId
        /\ phase' = "sleep" /\ pos' = 1 /\ end' = 0
        /\ store' = store /\ authToken' = authToken
    BY <1>6 DEF EndTick
  <2>2. TypeOK'
    BY <1>0, <2>1, TrimmedKeeps DEF IInv, TypeOK
  <2>3. Live' = Live
    BY <2>1 DEF Live
  <2>4. PlayersInOrder'
    BY <2>1, <2>3, TrimmedKeeps DEF IInv, PlayersInOrder
  <2>5. StaleSlotsHarmless'
    BY <1>0, <2>1 DEF StaleSlotsHarmless
  <2> QED BY <2>2, <2>4, <2>5 DEF IInv
<1>7. ASSUME NEW i \in Live, PeerStops(i) PROVE IInv'
  <2>1. PICK sock \in {"mute", "down"} :
           slots' = [slots EXCEPT ![i] = [slots[i] EXCEPT !.sock = sock]]
    BY <1>7 DEF PeerStops
  <2>2. /\ slots' \in [Slot -> PlayerConnection]
        /\ \A j \in Slot : slots'[j].id = slots[j].id /\ slots'[j].idle = slots[j].idle
        /\ \A j \in Slot : j # i => slots'[j].sock = slots[j].sock
        /\ slots'[i].sock # "null"
    BY <1>00, <1>7, <2>1 DEF IInv, TypeOK, PlayerConnection
  <2>3. /\ size' = size /\ nextPlayerId' = nextPlayerId /\ phase' = phase
        /\ pos' = pos /\ end' = end
        /\ store' = store /\ authToken' = authToken
    BY <1>7 DEF PeerStops
  <2>4. TypeOK'
    BY <2>2, <2>3 DEF IInv, TypeOK
  <2>5. Live' = Live
    BY <2>3 DEF Live
  <2>6. PlayersInOrder'
    BY <1>00, <2>2, <2>3, <2>5 DEF IInv, PlayersInOrder
  <2>7. \A g \in (size + 1)..end : g \in Slot /\ g # i
    BY <1>0 DEF Slot, Live
  <2>8. StaleSlotsHarmless'
    BY <1>00, <2>2, <2>3, <2>5, <2>7 DEF IInv, StaleSlotsHarmless
  <2> QED BY <2>4, <2>6, <2>8 DEF IInv
<1>8. CASE UNCHANGED vars
  <2>1. TypeOK'
    BY <1>8 DEF IInv, TypeOK, vars
  <2>2. PlayersInOrder'
    BY <1>8 DEF IInv, PlayersInOrder, Live, vars
  <2>3. StaleSlotsHarmless'
    BY <1>8 DEF IInv, StaleSlotsHarmless, Live, vars
  <2> QED BY <2>1, <2>2, <2>3 DEF IInv
<1> QED
  BY <1>1, <1>2, <1>3, <1>4, <1>5, <1>6, <1>7, <1>8 DEF Next, ServerStep

\* The inductive invariant holds in every reachable state.
THEOREM Invariance == Spec => []IInv
BY InitEstablishes, NextKeepsInvariant, PTL DEF Spec

\* Every variable keeps its type, and the list its capacity.
THEOREM TypeCorrect == Spec => []TypeOK
<1>1. IInv => TypeOK
  BY DEF IInv
<1> QED BY Invariance, <1>1, PTL

\* The list stays ordered by player number, so a number names one element:
\* what DisconnectPlayer's remove_if relies on.
THEOREM ListStaysOrdered == Spec => []PlayersInOrder
<1>1. IInv => PlayersInOrder
  BY DEF IInv
<1> QED BY Invariance, <1>1, PTL

\* What a walk meets past the end of the list never stands for a player of
\* another age and never has a socket.
THEOREM StaleSlotsStayHarmless == Spec => []StaleSlotsHarmless
<1>1. IInv => StaleSlotsHarmless
  BY DEF IInv
<1> QED BY Invariance, <1>1, PTL

-----------------------------------------------------------------------------
(* Who leaves the list.                                                    *)

\* DisconnectPlayer takes from the list at most the number it was called for,
\* and every other player keeps what s holds for it.
LEMMA DisconnectKeepsOthers ==
  ASSUME IInv,
         NEW s \in [Slot -> PlayerConnection],
         \A j \in Slot : s[j].id = slots[j].id /\ s[j].sock = slots[j].sock,
         NEW i \in Slot,
         DisconnectPlayer(s, i)
  PROVE  /\ \A j \in Live : slots[j].id # slots[i].id =>
              \E l \in Live' : slots'[l] = s[j]
         /\ \A l \in Live' : \E j \in Live :
              slots[j].id # slots[i].id /\ slots'[l] = s[j]
<1>0. /\ size \in Nat /\ size <= MaxPlayers /\ MaxPlayers \in Nat
  BY ConstantsAssumption DEF IInv, TypeOK
<1>00. \A j \in Live : j \in Slot
  BY <1>0 DEF Live, Slot
<1>1. CASE /\ \A k \in Live : slots[k].id # slots[i].id
           /\ i \notin Live
           /\ size' = size
           /\ \A j \in Slot : j # i => slots'[j] = s[j]
  <2>1. Live' = Live
    BY <1>1 DEF Live
  <2> QED BY <1>00, <1>1, <2>1
<1>2. ASSUME NEW k \in Live,
             slots[k].id = slots[i].id,
             size' = size - 1,
             \A j \in 1..(k - 1) : slots'[j] = s[j],
             \A j \in k..(size - 1) : slots'[j] = s[j + 1]
      PROVE  /\ \A j \in Live : slots[j].id # slots[i].id =>
                   \E l \in Live' : slots'[l] = s[j]
             /\ \A l \in Live' : \E j \in Live :
                   slots[j].id # slots[i].id /\ slots'[l] = s[j]
  <2>1. k \in Int /\ 1 <= k /\ k <= size /\ Live' = 1..(size - 1)
    BY <1>0, <1>2 DEF Live
  <2>2. ASSUME NEW j \in Live, slots[j].id # slots[i].id
        PROVE  \E l \in Live' : slots'[l] = s[j]
    <3>1. j # k /\ j \in Int /\ 1 <= j /\ j <= size
      BY <1>0, <1>2, <2>2 DEF Live
    <3>2. CASE j < k
      <4>1. j \in 1..(k - 1) /\ j \in 1..(size - 1)
        BY <1>0, <2>1, <3>1, <3>2
      <4> QED BY <1>2, <2>1, <4>1
    <3>3. CASE j > k
      <4>1. /\ j - 1 \in k..(size - 1) /\ j - 1 \in 1..(size - 1)
            /\ (j - 1) + 1 = j
        BY <1>0, <2>1, <3>1, <3>3
      <4> QED BY <1>2, <2>1, <4>1
    <3> QED BY <2>1, <3>1, <3>2, <3>3
  <2>3. ASSUME NEW l \in Live'
        PROVE  \E j \in Live : slots[j].id # slots[i].id /\ slots'[l] = s[j]
    <3>1. l \in 1..(size - 1)
      BY <2>1
    <3>2. CASE l < k
      <4>1. l \in 1..(k - 1) /\ l \in Live /\ l # k
        BY <1>0, <2>1, <3>1, <3>2 DEF Live
      <4>2. slots[l].id # slots[i].id
        BY <1>2, <4>1, NumbersDiffer
      <4> QED BY <1>2, <4>1, <4>2
    <3>3. CASE l >= k
      <4>1. l \in k..(size - 1) /\ l + 1 \in Live /\ l + 1 # k
        BY <1>0, <2>1, <3>1, <3>3 DEF Live
      <4>2. slots[l + 1].id # slots[i].id
        BY <1>2, <4>1, NumbersDiffer
      <4> QED BY <1>2, <4>1, <4>2
    <3> QED BY <2>1, <3>1, <3>2, <3>3
  <2> QED BY <2>2, <2>3
<1> QED BY <1>1, <1>2, DisconnectErasesOne

\* Where numbers and length are kept, nobody leaves.
LEMMA SameNumbersNobodyLeaves ==
  ASSUME IInv, size' = size, \A j \in Slot : slots'[j].id = slots[j].id
  PROVE  LiveIds' = LiveIds
<1>1. size \in Nat /\ size <= MaxPlayers /\ MaxPlayers \in Nat
  BY ConstantsAssumption DEF IInv, TypeOK
<1>2. \A j \in Live : j \in Slot
  BY <1>1 DEF Live, Slot
<1>3. Live' = Live
  BY DEF Live
<1> QED BY <1>2, <1>3 DEF LiveIds

-----------------------------------------------------------------------------
(* Credits.                                                                *)

\* The values of an int32_t.
IsInt32(n) == n \in Int /\ -WordSize <= 2 * n /\ 2 * n < WordSize

\* The two elements show the properties of credits the same.
SameFunds(p, q) ==
  /\ p.credits = q.credits
  /\ p.authId = q.authId
  /\ p.authenticated = q.authenticated
  /\ p.wide = q.wide

Funded(p) ==
  /\ IsInt32(p.credits)
  /\ p.authenticated /\ ~p.wide => Backed(p)
  /\ p.credits < 0 =>
       \/ p.wide
       \/ Row(p) # NoProfile /\ p.credits = Row(p)

\* The inductive invariant of the credits.
Solvent ==
  /\ \A i \in Live : Funded(slots[i])
  /\ \A account \in Accounts : store[account] # NoProfile => IsInt32(store[account])

\* No row of the table of players is changed once it is there.
RowsStay ==
  \A account \in Accounts : store[account] # NoProfile => store'[account] = store[account]

\* A word below half of its range means itself, and every word means a value of
\* an int32_t.
LEMMA SmallWord ==
  ASSUME NEW n \in Nat, 2 * n < WordSize PROVE Signed(n) = n
<1>1. WordSize \in Nat /\ WordSize > 0
  BY ConstantsAssumption
<1>2. n % WordSize = n
  BY <1>1
<1> QED BY <1>1, <1>2 DEF Signed

LEMMA SignedIsInt32 ==
  ASSUME NEW n \in Int PROVE IsInt32(Signed(n))
<1>1. WordSize \in Nat /\ WordSize > 0
  BY ConstantsAssumption
<1>2. n % WordSize \in Nat /\ n % WordSize < WordSize
  BY <1>1
<1> QED BY <1>1, <1>2 DEF Signed, IsInt32

\* So are the start balance and the rows at start.
LEMMA StartIsInt32 ==
  /\ StartBalance \in Nat
  /\ IsInt32(StartBalance)
  /\ \A balance \in StoredBalances : IsInt32(balance)
<1>1. /\ StartBalance \in Nat /\ Signed(StartBalance) = StartBalance
      /\ \A balance \in StoredBalances : balance \in Int /\ Signed(balance) = balance
  BY ConstantsAssumption
<1>2. IsInt32(Signed(StartBalance))
  BY <1>1, SignedIsInt32
<1>3. \A balance \in StoredBalances : IsInt32(Signed(balance))
  BY <1>1, SignedIsInt32
<1> QED BY <1>1, <1>2, <1>3

LEMMA SolventInit == Init => Solvent
<1> SUFFICES ASSUME Init PROVE Solvent
  OBVIOUS
<1>1. \A i \in Live : FALSE
  BY DEF Init, Live
<1>2. \A account \in Accounts : store[account] # NoProfile => store[account] \in StoredBalances
  BY DEF Init
<1> QED BY <1>1, <1>2, StartIsInt32 DEF Solvent

\* A row that is there stays, so what is funded by it stays funded.
LEMMA KeptFunds ==
  ASSUME IInv, Solvent, RowsStay, NEW l, NEW j \in Live,
         SameFunds(slots[j], slots'[l])
  PROVE  Funded(slots[l])'
<1>1. Funded(slots[j])
  BY DEF Solvent
<1>2. \A account \in Accounts :
         store[account] # NoProfile => store'[account] = store[account]
  BY DEF RowsStay
<1>3. Row(slots[j]) # NoProfile => Row(slots[l])' = Row(slots[j])
  BY <1>2 DEF Row, SameFunds
<1>4. Backed(slots[j]) => Backed(slots[l])'
  BY <1>3 DEF Backed, SameFunds
<1> QED BY <1>1, <1>3, <1>4 DEF Funded, SameFunds, IsInt32

\* DisconnectPlayer gives nobody another's credits.
LEMMA DisconnectKeepsFunds ==
  ASSUME IInv, Solvent,
         NEW s \in [Slot -> PlayerConnection],
         \A j \in Slot : /\ s[j].id = slots[j].id /\ s[j].sock = slots[j].sock
                         /\ SameFunds(slots[j], s[j]),
         NEW i \in Slot,
         DisconnectPlayer(s, i), store' = store
  PROVE  Solvent'
<1>1. \A j \in Live : j \in Slot
  BY ConstantsAssumption DEF IInv, TypeOK, Live, Slot
<1>2. RowsStay
  BY DEF RowsStay
<1>3. ASSUME NEW l \in Live' PROVE Funded(slots[l])'
  <2>1. PICK j \in Live : slots'[l] = s[j]
    BY DisconnectKeepsOthers
  <2>2. SameFunds(slots[j], slots'[l])
    BY <1>1, <2>1
  <2> QED BY <1>2, <2>2, KeptFunds
<1> QED BY <1>3 DEF Solvent, IsInt32

\* A handler that touches element i alone keeps the others funded.
LEMMA OneChangesFunds ==
  ASSUME IInv, Solvent, RowsStay, NEW i \in Slot, size' = size,
         \A j \in Slot : j # i => slots'[j] = slots[j],
         i \in Live => Funded(slots[i])'
  PROVE  \A l \in Live' : Funded(slots[l])'
<1>1. \A j \in Live : j \in Slot
  BY ConstantsAssumption DEF IInv, TypeOK, Live, Slot
<1>2. Live' = Live
  BY DEF Live
<1>3. ASSUME NEW l \in Live, l # i PROVE Funded(slots[l])'
  <2>1. SameFunds(slots[l], slots'[l])
    BY <1>1, <1>3 DEF SameFunds
  <2> QED BY <2>1, KeptFunds
<1> QED BY <1>2, <1>3

\* A handshake loads a balance that is backed, whichever requests fail.
LEMMA AdmitKeepsFunds ==
  ASSUME IInv, Solvent, NEW i \in Slot,
         NEW account \in Accounts, AdmitAccount(Touched(i), i, account)
  PROVE  Solvent'
<1> DEFINE s == Touched(i)
<1>1. /\ s \in [Slot -> PlayerConnection]
      /\ \A j \in Slot : j # i => s[j] = slots[j]
  BY TouchedKeeps DEF IInv
<1> HIDE DEF s
<1>2. /\ store \in [Accounts -> Int \cup {NoProfile}] /\ size' = size
      /\ NoProfile \notin Int
  BY ConstantsAssumption DEF IInv, TypeOK, AdmitAccount
<1>3. PICK row \in GetPlayerProfile(account, authToken') :
         IF row # NoProfile
         THEN slots' = Admitted(s, i, account, row) /\ UNCHANGED store
         ELSE /\ slots' = Admitted(s, i, account, StartBalance)
              /\ CreatePlayerProfile(account)
  BY DEF AdmitAccount, s
<1>4. row = store[account] \/ row = NoProfile
  BY <1>3 DEF GetPlayerProfile
<1>5. RowsStay
  BY <1>2, <1>3 DEF CreatePlayerProfile, RowsStay
<1>6. \A a \in Accounts : store'[a] # NoProfile => IsInt32(store'[a])
  <2>1. \A a \in Accounts : store'[a] = store[a] \/ store'[a] = StartBalance
    BY <1>2, <1>3 DEF CreatePlayerProfile
  <2> QED BY <1>2, <2>1, StartIsInt32 DEF Solvent
<1>7. ASSUME NEW balance, slots' = Admitted(s, i, account, balance)
      PROVE  /\ \A j \in Slot : j # i => slots'[j] = slots[j]
             /\ slots'[i].credits = balance
             /\ slots'[i].authId = account
  BY <1>1, <1>7 DEF Admitted, PlayerConnection
<1>8. CASE row # NoProfile
  <2>1. row = store'[account] /\ row \in Int /\ IsInt32(row)
    BY <1>2, <1>3, <1>4, <1>8 DEF Solvent
  <2>2. slots'[i].credits = row /\ Row(slots[i])' = row
    BY <1>3, <1>7, <1>8, <2>1 DEF Row
  <2>3. Funded(slots[i])'
    BY <1>8, <2>1, <2>2 DEF Funded, Backed, IsInt32
  <2> QED BY <1>2, <1>3, <1>5, <1>6, <1>7, <1>8, <2>3, OneChangesFunds DEF Solvent, IsInt32
<1>9. CASE row = NoProfile
  <2>1. slots'[i].credits = StartBalance
    BY <1>3, <1>7, <1>9
  <2>2. Funded(slots[i])'
    BY <2>1, StartIsInt32 DEF Funded, Backed, IsInt32
  <2> QED BY <1>2, <1>3, <1>5, <1>6, <1>7, <1>9, <2>2, OneChangesFunds DEF Solvent, IsInt32
<1> QED BY <1>8, <1>9

\* A bounty below half a word is paid from what the player has; another one is
\* marked.
LEMMA BountyKeepsFunds ==
  ASSUME IInv, Solvent, NEW i \in Slot, Touched(i)[i].authenticated,
         NEW amount \in Amounts, PlaceBounty(Touched(i), i, amount)
  PROVE  Solvent'
<1> DEFINE s == Touched(i)
<1>1. /\ s \in [Slot -> PlayerConnection]
      /\ \A j \in Slot : j # i => s[j] = slots[j]
      /\ SameFunds(slots[i], s[i])
  <2>1. s[i] = [slots[i] EXCEPT !.idle = 0] /\ slots[i] \in PlayerConnection
    BY DEF IInv, TypeOK, Touched
  <2>2. SameFunds(slots[i], s[i])
    BY <2>1 DEF PlayerConnection, SameFunds
  <2> QED BY <2>2, TouchedKeeps DEF IInv
<1>2. s[i].authenticated
  BY DEF s
<1>3. /\ size' = size /\ store' = store
      /\ slots' = IF Signed(amount) <= s[i].credits
                  THEN [s EXCEPT ![i] = [s[i] EXCEPT
                                    !.credits = Signed(s[i].credits - amount),
                                    !.wide = @ \/ 2 * amount >= WordSize]]
                  ELSE s
  BY DEF PlaceBounty, s
<1> HIDE DEF s
<1>4. /\ RowsStay
      /\ \A a \in Accounts : store'[a] # NoProfile => IsInt32(store'[a])
  BY <1>3 DEF RowsStay, Solvent
<1>5. amount \in 0..(WordSize - 1) /\ amount \in Nat /\ WordSize \in Nat
  BY ConstantsAssumption
<1>6. \A j \in Slot : j # i => slots'[j] = slots[j]
  BY <1>1, <1>3
<1>7. s[i].credits \in Int /\ s[i] \in PlayerConnection
  BY <1>1 DEF PlayerConnection
<1>8. ASSUME i \in Live PROVE Funded(slots[i])'
  <2>1. Funded(slots[i])
    BY <1>8 DEF Solvent
  <2>2. CASE ~(Signed(amount) <= s[i].credits)
    <3>1. slots'[i] = s[i]
      BY <1>3, <2>2
    <3>2. SameFunds(slots[i], slots'[i])
      BY <1>1, <3>1
    <3> QED BY <1>4, <1>8, <3>2, KeptFunds
  <2>3. CASE Signed(amount) <= s[i].credits /\ 2 * amount >= WordSize
    <3>1. slots'[i] = [s[i] EXCEPT !.credits = Signed(s[i].credits - amount),
                                   !.wide = TRUE]
      BY <1>1, <1>3, <2>3
    <3>2. slots'[i].credits = Signed(s[i].credits - amount) /\ slots'[i].wide
      BY <1>7, <3>1 DEF PlayerConnection
    <3>3. IsInt32(slots'[i].credits)
      BY <1>5, <1>7, <3>2, SignedIsInt32
    <3> QED BY <3>2, <3>3 DEF Funded, IsInt32
  <2>4. CASE Signed(amount) <= s[i].credits /\ 2 * amount < WordSize
    <3>1. Signed(amount) = amount
      BY <1>5, <2>4, SmallWord
    <3>2. IsInt32(s[i].credits)
      BY <1>1, <2>1 DEF Funded, SameFunds
    <3>3. /\ s[i].credits - amount \in Nat /\ 2 * (s[i].credits - amount) < WordSize
          /\ s[i].credits - amount <= s[i].credits
      BY <1>5, <1>7, <2>4, <3>1, <3>2 DEF IsInt32
    <3>4. Signed(s[i].credits - amount) = s[i].credits - amount
      BY <3>3, SmallWord
    <3>5. /\ slots'[i].credits = s[i].credits - amount
          /\ slots'[i].authId = s[i].authId
          /\ slots'[i].wide = (s[i].wide \/ 2 * amount >= WordSize)
      BY <1>1, <1>3, <1>7, <2>4, <3>4 DEF PlayerConnection
    <3>6. slots'[i].wide = s[i].wide
      <4>1. s[i].wide \in BOOLEAN
        BY <1>7 DEF PlayerConnection
      <4>2. ~(2 * amount >= WordSize)
        BY <1>5, <2>4
      <4> QED BY <3>5, <4>1, <4>2
    <3>7. ASSUME ~s[i].wide PROVE Backed(slots[i])'
      <4>1. Backed(slots[i]) /\ slots[i].credits = s[i].credits /\ slots[i].authId = s[i].authId
        BY <1>1, <1>2, <2>1, <3>7 DEF Funded, SameFunds
      <4>2. Row(slots[i])' = Row(slots[i])
        BY <1>3, <3>5, <4>1 DEF Row
      <4>3. Row(slots[i]) # NoProfile => Row(slots[i]) \in Int
        BY DEF Row, IInv, TypeOK
      <4> QED BY <1>7, <3>3, <3>5, <4>1, <4>2, <4>3, StartIsInt32 DEF Backed
    <3> QED BY <1>5, <3>3, <3>5, <3>6, <3>7 DEF Funded, IsInt32
  <2> QED BY <1>5, <2>2, <2>3, <2>4
<1> QED BY <1>3, <1>4, <1>6, <1>8, OneChangesFunds DEF Solvent, IsInt32

\* What no packet changes when only the age is refreshed.
LEMMA TouchedKeepsFunds ==
  ASSUME IInv, NEW i \in Slot
  PROVE  \A j \in Slot : SameFunds(slots[j], Touched(i)[j])
BY DEF IInv, TypeOK, Touched, PlayerConnection, SameFunds

LEMMA SameFundsSolvent ==
  ASSUME IInv, Solvent, store' = store, size' = size,
         \A j \in Live : SameFunds(slots[j], slots'[j])
  PROVE  Solvent'
<1>1. RowsStay /\ Live' = Live
  BY DEF RowsStay, Live
<1>2. \A l \in Live' : Funded(slots[l])'
  BY <1>1, KeptFunds
<1> QED BY <1>2 DEF Solvent, IsInt32

LEMMA PacketKeepsFunds ==
  ASSUME IInv, Solvent, NEW i \in Slot, HandlePacket(i)
  PROVE  Solvent'
<1> DEFINE s == Touched(i)
<1>0. \A j \in Live : j \in Slot
  BY ConstantsAssumption DEF IInv, TypeOK, Live, Slot
<1>1. /\ s \in [Slot -> PlayerConnection]
      /\ \A j \in Slot : /\ s[j].id = slots[j].id /\ s[j].sock = slots[j].sock
                         /\ SameFunds(slots[j], s[j])
                         /\ j # i => s[j] = slots[j]
  BY TouchedKeeps, TouchedKeepsFunds DEF IInv
<1>2. CASE Refuse(s, i)
  <2>1. DisconnectPlayer(s, i) /\ store' = store
    BY <1>2 DEF Refuse
  <2> HIDE DEF s
  <2> QED BY <1>1, <2>1, DisconnectKeepsFunds
<1>3. CASE OtherPacket(s)
  <2>1. slots' = s /\ store' = store /\ size' = size
    BY <1>3 DEF OtherPacket
  <2> HIDE DEF s
  <2> QED BY <1>0, <1>1, <2>1, SameFundsSolvent
<1>4. CASE AdmitGuest(s, i)
  <2>1. slots' = Admitted(s, i, NoAccount, StartBalance) /\ store' = store /\ size' = size
    BY <1>4 DEF AdmitGuest
  <2> HIDE DEF s
  <2>2. /\ \A j \in Slot : j # i => slots'[j] = slots[j]
        /\ slots'[i].credits = StartBalance
    BY <1>1, <2>1 DEF Admitted, PlayerConnection
  <2>4. Funded(slots[i])'
    BY <2>2, StartIsInt32 DEF Funded, Backed, IsInt32
  <2>5. RowsStay
    BY <2>1 DEF RowsStay
  <2> QED BY <2>1, <2>2, <2>4, <2>5, OneChangesFunds DEF Solvent, IsInt32
<1>5. ASSUME NEW account \in Accounts, AdmitAccount(s, i, account) PROVE Solvent'
  BY <1>5, AdmitKeepsFunds
<1>6. ASSUME NEW amount \in Amounts, s[i].authenticated, PlaceBounty(s, i, amount)
      PROVE  Solvent'
  BY <1>6, BountyKeepsFunds
<1> HIDE DEF s
<1>7. CASE HandleHandshake(s, i)
  <2>1. ASSUME NEW token \in Token, NEW account \in VerifyToken(token),
               IF account # NoAccount THEN AdmitAccount(s, i, account)
               ELSE IF SupabaseConfigured /\ token # NoToken THEN Refuse(s, i)
               ELSE AdmitGuest(s, i)
        PROVE  Solvent'
    <3>1. account \in Accounts \/ account = NoAccount
      BY <2>1 DEF VerifyToken
    <3> QED BY <1>2, <1>4, <1>5, <2>1, <3>1
  <2> QED BY <1>2, <1>7, <2>1 DEF HandleHandshake
<1> QED BY <1>3, <1>6, <1>7 DEF HandlePacket, HandlePlayerAction, s

LEMMA NextKeepsSolvent == IInv /\ Solvent /\ [Next]_vars => Solvent'
<1> SUFFICES ASSUME IInv, Solvent, [Next]_vars PROVE Solvent'
  OBVIOUS
<1>0. /\ slots \in [Slot -> PlayerConnection]
      /\ size \in Nat /\ size <= MaxPlayers /\ MaxPlayers \in Nat
  BY ConstantsAssumption DEF IInv, TypeOK
<1>1. \A j \in Live : j \in Slot
  BY <1>0 DEF Live, Slot
<1>2. CASE StartTick
  <2>1. \A j \in Live : SameFunds(slots[j], slots'[j])
    BY <1>0, <1>1, <1>2 DEF StartTick, PlayerConnection, SameFunds
  <2> QED BY <1>2, <2>1, SameFundsSolvent DEF StartTick
<1>3. CASE AcceptConnections
  <2>1. store' = store
    BY <1>3 DEF AcceptConnections
  <2>2. CASE UNCHANGED <<slots, size, nextPlayerId>>
    BY <2>1, <2>2, SameFundsSolvent DEF SameFunds
  <2>3. CASE /\ size < MaxPlayers
             /\ slots' = [slots EXCEPT ![size + 1] =
                            [Vacant EXCEPT !.id = nextPlayerId, !.sock = "up"]]
             /\ size' = size + 1
    <3>0. PICK place : place = size + 1
      OBVIOUS
    <3>1. place \in Slot /\ Live' = Live \cup {place} /\ place \notin Live
      BY <1>0, <2>3, <3>0 DEF Slot, Live
    <3>2. \A j \in Live : slots'[j] = slots[j]
      BY <1>1, <2>3, <3>0, <3>1
    <3>3. slots'[place].credits = 0 /\ slots'[place].authenticated = FALSE
      BY <1>0, <2>3, <3>0, <3>1 DEF Vacant
    <3>4. Funded(slots[place])'
      <4>1. WordSize > 0
        BY ConstantsAssumption
      <4>2. slots'[place].wide = FALSE
        BY <1>0, <2>3, <3>0, <3>1 DEF Vacant
      <4>3. WordSize \in Nat
        BY ConstantsAssumption
      <4> QED BY <3>3, <4>1, <4>2, <4>3 DEF Funded, IsInt32
    <3>5. RowsStay
      BY <2>1 DEF RowsStay
    <3>6. ASSUME NEW l \in Live PROVE Funded(slots[l])'
      <4>1. SameFunds(slots[l], slots'[l])
        BY <3>2 DEF SameFunds
      <4> QED BY <3>5, <4>1, KeptFunds
    <3>7. \A l \in Live' : Funded(slots[l])'
      BY <3>1, <3>4, <3>6
    <3> QED BY <2>1, <3>7 DEF Solvent, IsInt32
  <2> QED BY <1>3, <2>2, <2>3 DEF AcceptConnections
<1>4. CASE ProcessIncoming
  <2>1. pos \in Slot
    BY <1>0, <1>4, ConstantsAssumption DEF ProcessIncoming, IInv, TypeOK, Slot
  <2>2. CASE UNCHANGED <<slots, size, store, authToken>>
    BY <2>2, SameFundsSolvent DEF SameFunds
  <2>3. CASE Refuse(slots, pos)
    <3>1. DisconnectPlayer(slots, pos) /\ store' = store
      BY <2>3 DEF Refuse
    <3> QED BY <1>0, <2>1, <3>1, DisconnectKeepsFunds DEF SameFunds
  <2>4. CASE HandlePacket(pos)
    BY <2>1, <2>4, PacketKeepsFunds
  <2> QED BY <1>4, <2>2, <2>3, <2>4 DEF ProcessIncoming
<1>5. CASE EndIncoming
  BY <1>5, TrimmedKeeps, SameFundsSolvent DEF EndIncoming, SameFunds
<1>6. CASE CheckTimeouts
  <2>1. pos \in Slot /\ store' = store
    BY <1>0, <1>6, ConstantsAssumption DEF CheckTimeouts, IInv, TypeOK, Slot
  <2>2. CASE DisconnectPlayer(slots, pos)
    BY <1>0, <2>1, <2>2, DisconnectKeepsFunds DEF SameFunds
  <2>3. CASE UNCHANGED <<slots, size>>
    BY <2>1, <2>3, SameFundsSolvent DEF SameFunds
  <2> QED BY <1>6, <2>2, <2>3 DEF CheckTimeouts
<1>7. CASE EndTick
  BY <1>7, TrimmedKeeps, SameFundsSolvent DEF EndTick, SameFunds
<1>8. ASSUME NEW i \in Live, PeerStops(i) PROVE Solvent'
  <2>1. \A j \in Live : SameFunds(slots[j], slots'[j])
    BY <1>0, <1>1, <1>8 DEF PeerStops, PlayerConnection, SameFunds
  <2> QED BY <1>8, <2>1, SameFundsSolvent DEF PeerStops
<1>9. CASE UNCHANGED vars
  BY <1>9, SameFundsSolvent DEF vars, SameFunds
<1> QED BY <1>2, <1>3, <1>4, <1>5, <1>6, <1>7, <1>8, <1>9 DEF Next, ServerStep

LEMMA SolventAlways == Spec => []Solvent
<1>1. IInv /\ Solvent /\ [Next]_vars => Solvent'
  BY NextKeepsSolvent
<1> QED BY <1>1, SolventInit, Invariance, PTL DEF Spec

\* However often a player shakes hands, whatever requests fail and whatever word
\* he sends as a bounty, his credits are at most the start balance or the row of
\* his account, unless he has placed a bounty of half a word or more since.
THEOREM CreditsStayBacked == Spec => []CreditsBacked
<1>1. Solvent => CreditsBacked
  BY DEF Solvent, Funded, CreditsBacked
<1> QED BY <1>1, SolventAlways, PTL

\* No other bounty takes a player's credits below zero.
THEOREM CreditsStayNotNegative == Spec => []CreditsNotNegative
<1>1. Solvent => CreditsNotNegative
  BY DEF Solvent, Funded, CreditsNotNegative
<1> QED BY <1>1, SolventAlways, PTL

-----------------------------------------------------------------------------
(* The table of sessions that the list implements, and who leaves it.      *)

\* A packet gets its sender erased, or changes nothing but its sender.
LEMMA PacketConcernsSender ==
  ASSUME IInv, NEW i \in Slot, HandlePacket(i)
  PROVE  \/ DisconnectPlayer(Touched(i), i)
         \/ /\ size' = size
            /\ slots'[i].id = slots[i].id
            /\ \A j \in Slot : j # i => slots'[j] = slots[j]
<1> DEFINE s == Touched(i)
<1>1. /\ s \in [Slot -> PlayerConnection]
      /\ s[i].id = slots[i].id
      /\ \A j \in Slot : j # i => s[j] = slots[j]
  BY TouchedKeeps DEF IInv
<1> HIDE DEF s
<1>2. ASSUME NEW account, NEW balance, slots' = Admitted(s, i, account, balance)
      PROVE  /\ slots'[i].id = slots[i].id
             /\ \A j \in Slot : j # i => slots'[j] = slots[j]
  BY <1>1, <1>2 DEF Admitted, PlayerConnection
<1>3. ASSUME AdmitGuest(s, i)
      PROVE  /\ size' = size
             /\ slots'[i].id = slots[i].id
             /\ \A j \in Slot : j # i => slots'[j] = slots[j]
  BY <1>2, <1>3 DEF AdmitGuest
<1>4. ASSUME NEW account, AdmitAccount(s, i, account)
      PROVE  /\ size' = size
             /\ slots'[i].id = slots[i].id
             /\ \A j \in Slot : j # i => slots'[j] = slots[j]
  <2>1. \E balance : slots' = Admitted(s, i, account, balance)
    BY <1>4 DEF AdmitAccount
  <2> QED BY <1>2, <1>4, <2>1 DEF AdmitAccount
<1>5. CASE HandleHandshake(s, i)
  <2>1. Refuse(s, i) \/ AdmitGuest(s, i) \/ \E account : AdmitAccount(s, i, account)
    BY <1>5 DEF HandleHandshake
  <2> QED BY <1>3, <1>4, <2>1 DEF Refuse, s
<1>6. ASSUME NEW amount \in Amounts, PlaceBounty(s, i, amount)
      PROVE  /\ size' = size
             /\ slots'[i].id = slots[i].id
             /\ \A j \in Slot : j # i => slots'[j] = slots[j]
  BY <1>1, <1>6 DEF PlaceBounty, PlayerConnection
<1>7. CASE OtherPacket(s)
  BY <1>1, <1>7 DEF OtherPacket
<1> QED BY <1>5, <1>6, <1>7 DEF HandlePacket, HandlePlayerAction, s

\* In its turn of ProcessIncoming a player may be erased or changed, and every
\* other player is left as it was.
LEMMA TurnConcernsOne ==
  ASSUME IInv, ProcessIncoming
  PROVE  \/ /\ pos \in Live /\ pos \in Slot
            /\ \/ DisconnectPlayer(slots, pos)
               \/ DisconnectPlayer(Touched(pos), pos)
               \/ /\ size' = size
                  /\ slots'[pos].id = slots[pos].id
                  /\ \A j \in Slot : j # pos => slots'[j] = slots[j]
         \/ UNCHANGED <<slots, size>>
<1>1. phase = "incoming" /\ pos <= end
  BY DEF ProcessIncoming
<1>2. CASE slots[pos].sock = "down" /\ Refuse(slots, pos)
  BY <1>1, <1>2, SenderIsLive DEF Refuse
<1>3. CASE slots[pos].sock = "up" /\ HandlePacket(pos)
  <2>1. pos \in Slot /\ pos \in Live
    BY <1>1, <1>3, SenderIsLive
  <2> QED BY <1>3, <2>1, PacketConcernsSender
<1>4. CASE UNCHANGED <<slots, size, store, authToken>>
  BY <1>4
<1> QED BY <1>2, <1>3, <1>4 DEF ProcessIncoming

\* What is left of the list when one of the walks erases a live element or one
\* past the length: everybody but the player of that number, as it was.
LEMMA EraseKeepsTheOthers ==
  ASSUME IInv, NEW i \in Slot, DisconnectPlayer(slots, i) \/ DisconnectPlayer(Touched(i), i)
  PROVE  /\ \A j \in Live : slots[j].id # slots[i].id =>
              \E l \in Live' : slots'[l] = slots[j]
         /\ \A l \in Live' : \E j \in Live :
              slots[j].id # slots[i].id /\ slots'[l] = slots[j]
<1>1. size \in Nat /\ size <= MaxPlayers /\ MaxPlayers \in Nat
  BY ConstantsAssumption DEF IInv, TypeOK
<1>2. \A j \in Live : j \in Slot
  BY <1>1 DEF Live, Slot
<1>3. slots \in [Slot -> PlayerConnection]
  BY DEF IInv, TypeOK
<1>4. CASE DisconnectPlayer(slots, i)
  BY <1>3, <1>4, DisconnectKeepsOthers
<1>5. CASE DisconnectPlayer(Touched(i), i)
  <2> DEFINE s == Touched(i)
  <2>1. /\ s \in [Slot -> PlayerConnection]
        /\ \A j \in Slot : /\ s[j].id = slots[j].id
                           /\ s[j].sock = slots[j].sock
                           /\ j # i => s[j] = slots[j]
    BY TouchedKeeps DEF IInv
  <2>2. DisconnectPlayer(s, i)
    BY <1>5
  <2> HIDE DEF s
  <2>3. /\ \A j \in Live : slots[j].id # slots[i].id =>
             \E l \in Live' : slots'[l] = s[j]
        /\ \A l \in Live' : \E j \in Live :
             slots[j].id # slots[i].id /\ slots'[l] = s[j]
    BY <2>1, <2>2, DisconnectKeepsOthers
  <2>4. \A j \in Live : slots[j].id # slots[i].id => s[j] = slots[j]
    BY <1>2, <2>1
  <2> QED BY <2>3, <2>4
<1> QED BY <1>4, <1>5

-----------------------------------------------------------------------------
(* Nobody is erased for what somebody else did.                            *)

\* One step erases a player only in its own turn or after its own silence.
LEMMA StepErasesOwnFault ==
  ASSUME IInv, [Next]_vars, NEW i \in Live, slots[i].id \notin LiveIds'
  PROVE  \/ phase = "incoming" /\ i = pos
         \/ phase = "timeouts" /\ slots[i].idle > TimeoutTicks
<1>0. /\ size \in Nat /\ size <= MaxPlayers /\ MaxPlayers \in Nat
      /\ end \in Nat /\ end <= MaxPlayers
      /\ pos \in Nat /\ 1 <= pos
      /\ slots \in [Slot -> PlayerConnection]
  BY ConstantsAssumption DEF IInv, TypeOK
<1>1. \A j \in Live : j \in Slot
  BY <1>0 DEF Live, Slot
<1>2. slots[i].id \in LiveIds
  BY DEF LiveIds
<1>3. \A l \in Live' : slots'[l].id # slots[i].id
  BY DEF LiveIds
<1>4. CASE StartTick
  <2>1. size' = size /\ \A j \in Slot : slots'[j].id = slots[j].id
    BY <1>0, <1>4 DEF StartTick, PlayerConnection
  <2> QED BY <1>2, <2>1, SameNumbersNobodyLeaves
<1>5. CASE AcceptConnections
  <2>1. CASE UNCHANGED <<slots, size, nextPlayerId>>
    BY <1>2, <2>1, SameNumbersNobodyLeaves
  <2>2. CASE /\ size < MaxPlayers
             /\ slots' = [slots EXCEPT ![size + 1] =
                            [Vacant EXCEPT !.id = nextPlayerId, !.sock = "up"]]
             /\ size' = size + 1
    <3>1. i \in Live' /\ slots'[i] = slots[i]
      BY <1>0, <1>1, <2>2 DEF Live
    <3> QED BY <1>3, <3>1
  <2> QED BY <1>5, <2>1, <2>2 DEF AcceptConnections
<1>6. CASE ProcessIncoming
  <2>1. phase = "incoming"
    BY <1>6 DEF ProcessIncoming
  <2>2. CASE pos \in Live /\ pos \in Slot
             /\ (DisconnectPlayer(slots, pos) \/ DisconnectPlayer(Touched(pos), pos))
    <3>1. slots[i].id = slots[pos].id
      BY <1>3, <2>2, EraseKeepsTheOthers
    <3> QED BY <2>1, <2>2, <3>1, NumbersDiffer
  <2>3. CASE /\ pos \in Live /\ pos \in Slot
             /\ size' = size
             /\ slots'[pos].id = slots[pos].id
             /\ \A j \in Slot : j # pos => slots'[j] = slots[j]
    BY <1>2, <2>3, SameNumbersNobodyLeaves
  <2>4. CASE UNCHANGED <<slots, size>>
    BY <1>2, <2>4, SameNumbersNobodyLeaves
  <2> QED BY <1>6, <2>2, <2>3, <2>4, TurnConcernsOne
<1>7. CASE EndIncoming \/ EndTick
  <2>1. size' = size /\ slots' = Trimmed
    BY <1>7 DEF EndIncoming, EndTick
  <2>2. i \in Live' /\ slots'[i] = slots[i]
    BY <2>1, TrimmedKeeps DEF Live
  <2> QED BY <1>3, <2>2
<1>8. CASE CheckTimeouts
  <2>1. phase = "timeouts" /\ pos <= end /\ pos \in Slot
    BY <1>0, <1>8 DEF CheckTimeouts, Slot
  <2>2. CASE UNCHANGED <<slots, size>>
    BY <1>2, <2>2, SameNumbersNobodyLeaves
  <2>3. CASE slots[pos].idle > TimeoutTicks /\ DisconnectPlayer(slots, pos)
    <3>1. slots[i].id = slots[pos].id
      BY <1>3, <2>1, <2>3, EraseKeepsTheOthers
    <3>2. slots[i].idle = slots[pos].idle
      <4>1. CASE pos \in Live
        BY <3>1, <4>1, NumbersDiffer
      <4>2. CASE pos \notin Live
        <5>1. pos \in (size + 1)..end
          BY <1>0, <2>1, <4>2 DEF Live
        <5> QED BY <2>1, <3>1, <5>1 DEF IInv, StaleSlotsHarmless
      <4> QED BY <4>1, <4>2
    <3> QED BY <2>1, <2>3, <3>2
  <2> QED BY <1>8, <2>2, <2>3 DEF CheckTimeouts
<1>9. ASSUME NEW k \in Live, PeerStops(k) PROVE FALSE
  <2>1. PICK sock \in {"mute", "down"} :
           slots' = [slots EXCEPT ![k] = [slots[k] EXCEPT !.sock = sock]]
    BY <1>9 DEF PeerStops
  <2>2. size' = size /\ \A j \in Slot : slots'[j].id = slots[j].id
    BY <1>0, <1>9, <2>1 DEF PeerStops, PlayerConnection
  <2> QED BY <1>2, <2>2, SameNumbersNobodyLeaves
<1>10. CASE UNCHANGED vars
  BY <1>2, <1>10, SameNumbersNobodyLeaves DEF vars
<1> QED
  BY <1>4, <1>5, <1>6, <1>7, <1>8, <1>9, <1>10 DEF Next, ServerStep

\* The walks that erase while they go never take the wrong player: a player
\* disappears only in its own turn of ProcessIncoming or in a CheckTimeouts
\* that finds it silent for longer than the timeout.
THEOREM NobodyDroppedForOthers == Spec => OnlyOwnFault
<1>1. IInv /\ [Next]_vars =>
        [\A i \in Live : slots[i].id \notin LiveIds' =>
           \/ phase = "incoming" /\ i = pos
           \/ phase = "timeouts" /\ slots[i].idle > TimeoutTicks]_vars
  BY StepErasesOwnFault
<1> QED BY Invariance, <1>1, PTL DEF Spec, OnlyOwnFault

-----------------------------------------------------------------------------
(* The refinement.                                                         *)

\* What the table holds of a connection.
LEMMA SessionOfConnection ==
  ASSUME NEW p \in PlayerConnection
  PROVE  /\ SessionOf(p).idle = p.idle
         /\ SessionOf(p) \in [idle: Idle, authenticated: BOOLEAN,
                              authId: AuthId, credits: Int]
         /\ p.idle + 1 \in Idle =>
              SessionOf([p EXCEPT !.idle = @ + 1])
                = [SessionOf(p) EXCEPT !.idle = @ + 1]
BY DEF SessionOf, PlayerConnection

\* The table holds under a number the session of the one element bearing it.
TableByPlace ==
  /\ DOMAIN Sessions = LiveIds
  /\ Sessions = [id \in LiveIds |-> Sessions[id]]
  /\ \A i \in Live : Sessions[slots[i].id] = SessionOf(slots[i])

\* No two elements bear the same number, so each number's session is found.
LEMMA SessionsByPlace == IInv => TableByPlace
<1>1. DOMAIN Sessions = LiveIds
  BY DEF Sessions
<1>2. Sessions = [id \in DOMAIN Sessions |-> Sessions[id]]
  BY DEF Sessions
<1>3. ASSUME IInv, NEW i \in Live
      PROVE  Sessions[slots[i].id] = SessionOf(slots[i])
  <2>1. slots[i].id \in LiveIds
    BY DEF LiveIds
  <2>2. (CHOOSE k \in Live : slots[k].id = slots[i].id) = i
    BY <1>3, NumbersDiffer
  <2> QED BY <2>1, <2>2 DEF Sessions
<1> QED BY <1>1, <1>2, <1>3 DEF TableByPlace

\* The same of the state a step leads to.
LEMMA SessionsByPlaceAfter == IInv' => TableByPlace'
BY SessionsByPlace, PTL

\* Where every element's session is kept in its place the table is unchanged.
LEMMA SameListStutters ==
  ASSUME IInv, IInv', size' = size, nextPlayerId' = nextPlayerId,
         \A j \in Live : /\ slots'[j].id = slots[j].id
                         /\ SessionOf(slots'[j]) = SessionOf(slots[j])
  PROVE  UNCHANGED Registry!registryVars
<1>1. Live' = Live
  BY DEF Live
<1>2. LiveIds' = LiveIds
  BY <1>1 DEF LiveIds
<1>3. /\ Sessions = [id \in LiveIds |-> Sessions[id]]
      /\ \A j \in Live : Sessions[slots[j].id] = SessionOf(slots[j])
  BY SessionsByPlace DEF TableByPlace
<1>4. /\ Sessions' = [id \in LiveIds' |-> Sessions'[id]]
      /\ \A j \in Live' : Sessions'[slots'[j].id] = SessionOf(slots'[j])
  BY SessionsByPlaceAfter DEF TableByPlace
<1>5. \A id \in LiveIds : Sessions'[id] = Sessions[id]
  <2> SUFFICES ASSUME NEW j \in Live
               PROVE  Sessions'[slots[j].id] = Sessions[slots[j].id]
    BY DEF LiveIds
  <2> QED BY <1>1, <1>3, <1>4
<1>6. Sessions' = Sessions
  BY <1>2, <1>3, <1>4, <1>5
<1> QED BY <1>6 DEF Registry!registryVars

\* Erasing through either walk is a Leave of the table, or no step of it.
LEMMA EraseIsLeave ==
  ASSUME IInv, IInv', nextPlayerId' = nextPlayerId,
         NEW i \in Slot,
         DisconnectPlayer(slots, i) \/ DisconnectPlayer(Touched(i), i)
  PROVE  [Registry!RegistryNext]_(Registry!registryVars)
<1>1. /\ \A j \in Live : slots[j].id # slots[i].id =>
           \E l \in Live' : slots'[l] = slots[j]
      /\ \A l \in Live' : \E j \in Live :
           slots[j].id # slots[i].id /\ slots'[l] = slots[j]
  BY EraseKeepsTheOthers
<1>2. LiveIds' = LiveIds \ {slots[i].id}
  BY <1>1 DEF LiveIds
<1>3. /\ DOMAIN Sessions = LiveIds
      /\ \A j \in Live : Sessions[slots[j].id] = SessionOf(slots[j])
  BY SessionsByPlace DEF TableByPlace
<1>4. /\ DOMAIN Sessions' = LiveIds'
      /\ \A j \in Live' : Sessions'[slots'[j].id] = SessionOf(slots'[j])
  BY SessionsByPlaceAfter DEF TableByPlace
<1>5. \A id \in LiveIds' : Sessions'[id] = Sessions[id]
  <2> SUFFICES ASSUME NEW l \in Live' PROVE Sessions'[slots'[l].id] = Sessions[slots'[l].id]
    BY DEF LiveIds
  <2>1. PICK j \in Live : slots'[l] = slots[j]
    BY <1>1
  <2> QED BY <1>3, <1>4, <2>1
<1>6. /\ Sessions' = [id \in DOMAIN Sessions' |-> Sessions'[id]]
      /\ Sessions = [id \in DOMAIN Sessions |-> Sessions[id]]
  BY DEF Sessions
<1>7. Sessions' = [id \in DOMAIN Sessions \ {slots[i].id} |-> Sessions[id]]
  BY <1>2, <1>3, <1>4, <1>5, <1>6
<1>8. CASE slots[i].id \in LiveIds
  <2>1. slots[i].id \in DOMAIN Sessions
    BY <1>3, <1>8
  <2>2. Registry!Leave(slots[i].id)
    BY <1>7 DEF Registry!Leave
  <2> QED BY <2>1, <2>2 DEF Registry!RegistryNext
<1>9. CASE slots[i].id \notin LiveIds
  <2>1. Sessions' = Sessions
    BY <1>3, <1>6, <1>7, <1>9
  <2> QED BY <2>1 DEF Registry!registryVars
<1> QED BY <1>8, <1>9

\* A step that keeps the list but for one element, whose number it keeps, is a
\* Change of that player's session.
LEMMA OneElementIsChange ==
  ASSUME IInv, IInv', size' = size, nextPlayerId' = nextPlayerId,
         NEW i \in Live,
         slots'[i].id = slots[i].id,
         \A j \in Slot : j # i => slots'[j] = slots[j]
  PROVE  [Registry!RegistryNext]_(Registry!registryVars)
<1>1. size \in Nat /\ size <= MaxPlayers /\ MaxPlayers \in Nat
  BY ConstantsAssumption DEF IInv, TypeOK
<1>2. \A j \in Live : j \in Slot
  BY <1>1 DEF Live, Slot
<1>3. Live' = Live /\ LiveIds' = LiveIds
  BY <1>2, SameNumbersNobodyLeaves DEF Live
<1>4. /\ DOMAIN Sessions = LiveIds
      /\ \A j \in Live : Sessions[slots[j].id] = SessionOf(slots[j])
  BY SessionsByPlace DEF TableByPlace
<1>5. /\ DOMAIN Sessions' = LiveIds'
      /\ \A j \in Live' : Sessions'[slots'[j].id] = SessionOf(slots'[j])
  BY SessionsByPlaceAfter DEF TableByPlace
<1> DEFINE id == slots[i].id
<1>6. id \in LiveIds
  BY DEF LiveIds
<1>7. Sessions'[id] \in [idle: Idle, authenticated: BOOLEAN,
                         authId: AuthId, credits: Int]
  <2>1. slots'[i] \in PlayerConnection
    BY <1>2 DEF IInv, TypeOK
  <2> QED BY <1>3, <1>5, <2>1, SessionOfConnection
<1>8. \A other \in LiveIds : other # id => Sessions'[other] = Sessions[other]
  <2> SUFFICES ASSUME NEW j \in Live, slots[j].id # id
               PROVE  Sessions'[slots[j].id] = Sessions[slots[j].id]
    BY DEF LiveIds
  <2>1. slots'[j] = slots[j]
    BY <1>2
  <2> QED BY <1>3, <1>4, <1>5, <2>1
<1>9. Sessions' = [Sessions EXCEPT ![id] = Sessions'[id]]
  <2>1. /\ Sessions' = [k \in DOMAIN Sessions' |-> Sessions'[k]]
        /\ Sessions = [k \in DOMAIN Sessions |-> Sessions[k]]
    BY DEF Sessions
  <2> QED BY <1>3, <1>4, <1>5, <1>6, <1>8, <2>1
<1>10. Registry!Change(id)
  <2>1. id \in DOMAIN Sessions'
    BY <1>3, <1>5, <1>6
  <2> QED BY <1>7, <1>9, <2>1 DEF Registry!Change
<1> QED BY <1>4, <1>6, <1>10 DEF Registry!RegistryNext

\* A new tick ages every session alike.
LEMMA TickIsAge ==
  ASSUME IInv, IInv', StartTick
  PROVE  Registry!Age
<1>1. size \in Nat /\ size <= MaxPlayers /\ MaxPlayers \in Nat /\ TimeoutTicks \in Nat
  BY ConstantsAssumption DEF IInv, TypeOK
<1>2. \A j \in Live : j \in Slot /\ slots[j] \in PlayerConnection
  BY <1>1 DEF Live, Slot, IInv, TypeOK
<1>3. Live' = Live /\ nextPlayerId' = nextPlayerId
  BY DEF Live, StartTick
<1>4. \A j \in Live :
         slots'[j] = IF slots[j].idle <= TimeoutTicks
                     THEN [slots[j] EXCEPT !.idle = @ + 1] ELSE slots[j]
  BY <1>2 DEF StartTick
<1>5. \A j \in Live : slots'[j].id = slots[j].id
  BY <1>2, <1>4 DEF PlayerConnection
<1>6. LiveIds' = LiveIds
  BY <1>3, <1>5 DEF LiveIds
<1>7. /\ DOMAIN Sessions = LiveIds
      /\ \A j \in Live : Sessions[slots[j].id] = SessionOf(slots[j])
  BY SessionsByPlace DEF TableByPlace
<1>8. /\ DOMAIN Sessions' = LiveIds'
      /\ \A j \in Live' : Sessions'[slots'[j].id] = SessionOf(slots'[j])
  BY SessionsByPlaceAfter DEF TableByPlace
<1>9. ASSUME NEW j \in Live
      PROVE  Sessions'[slots[j].id]
               = IF Sessions[slots[j].id].idle <= TimeoutTicks
                 THEN [Sessions[slots[j].id] EXCEPT !.idle = @ + 1]
                 ELSE Sessions[slots[j].id]
  <2>1. Sessions'[slots[j].id] = SessionOf(slots'[j])
    BY <1>3, <1>5, <1>8
  <2>2. Sessions[slots[j].id] = SessionOf(slots[j])
    BY <1>7
  <2>3. SessionOf(slots[j]).idle = slots[j].idle /\ slots[j].idle \in Idle
    BY <1>2, SessionOfConnection DEF PlayerConnection
  <2>4. CASE slots[j].idle <= TimeoutTicks
    <3>1. slots[j].idle + 1 \in Idle
      BY <1>1, <2>3, <2>4 DEF Idle
    <3>2. SessionOf(slots'[j]) = [SessionOf(slots[j]) EXCEPT !.idle = @ + 1]
      BY <1>2, <1>4, <2>4, <3>1, SessionOfConnection
    <3> QED BY <2>1, <2>2, <2>3, <2>4, <3>2
  <2>5. CASE ~(slots[j].idle <= TimeoutTicks)
    BY <1>4, <2>1, <2>2, <2>3, <2>5
  <2> QED BY <2>4, <2>5
<1>10. \A id \in LiveIds :
         Sessions'[id] = IF Sessions[id].idle <= TimeoutTicks
                         THEN [Sessions[id] EXCEPT !.idle = @ + 1]
                         ELSE Sessions[id]
  BY <1>9 DEF LiveIds
<1>11. Sessions' = [id \in DOMAIN Sessions' |-> Sessions'[id]]
  BY DEF Sessions
<1> QED BY <1>3, <1>6, <1>7, <1>8, <1>10, <1>11 DEF Registry!Age

\* An accepted connection is a player that joins.
LEMMA AcceptIsJoin ==
  ASSUME IInv, IInv', AcceptConnections, size' = size + 1
  PROVE  Registry!Join
<1>1. /\ size \in Nat /\ size <= MaxPlayers /\ MaxPlayers \in Nat
      /\ nextPlayerId \in Nat
  BY ConstantsAssumption DEF IInv, TypeOK
<1>2. \A j \in Live : j \in Slot
  BY <1>1 DEF Live, Slot
<1> DEFINE new == [Vacant EXCEPT !.id = nextPlayerId, !.sock = "up"]
<1>3. /\ size < MaxPlayers
      /\ slots' = [slots EXCEPT ![size + 1] = new]
      /\ nextPlayerId' = nextPlayerId + 1
  BY <1>1 DEF AcceptConnections
<1>4. new.id = nextPlayerId /\ SessionOf(new) = SessionOf(Vacant)
  BY DEF Vacant, SessionOf
<1> HIDE DEF new
<1>5. /\ Live' = Live \cup {size + 1}
      /\ slots'[size + 1] = new
      /\ \A j \in Live : slots'[j] = slots[j]
  <2>1. Live' = Live \cup {size + 1}
    BY <1>1 DEF Live
  <2>2. size + 1 \in Slot /\ size + 1 \notin Live
    BY <1>1, <1>3 DEF Slot, Live
  <2>3. slots \in [Slot -> PlayerConnection]
    BY DEF IInv, TypeOK
  <2> QED BY <1>2, <1>3, <2>1, <2>2, <2>3
<1>6. LiveIds' = LiveIds \cup {nextPlayerId}
  BY <1>4, <1>5 DEF LiveIds
<1>7. nextPlayerId \notin LiveIds
  BY <1>1 DEF LiveIds, IInv, PlayersInOrder
<1>8. /\ DOMAIN Sessions = LiveIds
      /\ \A j \in Live : Sessions[slots[j].id] = SessionOf(slots[j])
  BY SessionsByPlace DEF TableByPlace
<1>9. /\ DOMAIN Sessions' = LiveIds'
      /\ \A j \in Live' : Sessions'[slots'[j].id] = SessionOf(slots'[j])
  BY SessionsByPlaceAfter DEF TableByPlace
<1>10. Sessions'[nextPlayerId] = SessionOf(Vacant)
  BY <1>4, <1>5, <1>9
<1>11. \A id \in LiveIds : Sessions'[id] = Sessions[id]
  <2> SUFFICES ASSUME NEW j \in Live PROVE Sessions'[slots[j].id] = Sessions[slots[j].id]
    BY DEF LiveIds
  <2> QED BY <1>5, <1>8, <1>9
<1>12. Sessions' = [id \in DOMAIN Sessions' |-> Sessions'[id]]
  BY DEF Sessions
<1>13. Sessions' = [id \in DOMAIN Sessions \cup {nextPlayerId} |->
                      IF id = nextPlayerId THEN SessionOf(Vacant) ELSE Sessions[id]]
  BY <1>6, <1>7, <1>8, <1>9, <1>10, <1>11, <1>12
<1> QED BY <1>3, <1>7, <1>8, <1>13 DEF Registry!Join

\* Every step of the server or of a peer is one of the table, or none.
LEMMA StepRefines ==
  ASSUME IInv, IInv', [Next]_vars
  PROVE  [Registry!RegistryNext]_(Registry!registryVars)
<1>0. /\ size \in Nat /\ size <= MaxPlayers /\ MaxPlayers \in Nat
      /\ end \in Nat /\ end <= MaxPlayers
      /\ pos \in Nat /\ 1 <= pos
      /\ slots \in [Slot -> PlayerConnection]
  BY ConstantsAssumption DEF IInv, TypeOK
<1>1. \A j \in Live : j \in Slot
  BY <1>0 DEF Live, Slot
<1>2. CASE StartTick
  BY <1>2, TickIsAge DEF Registry!RegistryNext
<1>3. CASE AcceptConnections
  <2>1. CASE size' = size + 1
    BY <1>3, <2>1, AcceptIsJoin DEF Registry!RegistryNext
  <2>2. CASE UNCHANGED <<slots, size, nextPlayerId>>
    BY <2>2, SameListStutters
  <2> QED BY <1>3, <2>1, <2>2 DEF AcceptConnections
<1>4. CASE ProcessIncoming
  <2>1. nextPlayerId' = nextPlayerId
    BY <1>4 DEF ProcessIncoming
  <2>2. CASE pos \in Slot
             /\ (DisconnectPlayer(slots, pos) \/ DisconnectPlayer(Touched(pos), pos))
    BY <2>1, <2>2, EraseIsLeave
  <2>3. CASE /\ pos \in Live
             /\ size' = size
             /\ slots'[pos].id = slots[pos].id
             /\ \A j \in Slot : j # pos => slots'[j] = slots[j]
    BY <2>1, <2>3, OneElementIsChange
  <2>4. CASE UNCHANGED <<slots, size>>
    BY <2>1, <2>4, SameListStutters
  <2> QED BY <1>4, <2>2, <2>3, <2>4, TurnConcernsOne
<1>5. CASE EndIncoming \/ EndTick
  <2>1. size' = size /\ slots' = Trimmed /\ nextPlayerId' = nextPlayerId
    BY <1>5 DEF EndIncoming, EndTick
  <2>2. \A j \in Live : slots'[j] = slots[j]
    BY <2>1, TrimmedKeeps
  <2> QED BY <2>1, <2>2, SameListStutters
<1>6. CASE CheckTimeouts
  <2>1. phase = "timeouts" /\ pos <= end /\ pos \in Slot /\ nextPlayerId' = nextPlayerId
    BY <1>0, <1>6 DEF CheckTimeouts, Slot
  <2>2. CASE UNCHANGED <<slots, size>>
    BY <2>1, <2>2, SameListStutters
  <2>3. CASE DisconnectPlayer(slots, pos)
    BY <2>1, <2>3, EraseIsLeave
  <2> QED BY <1>6, <2>2, <2>3 DEF CheckTimeouts
<1>7. ASSUME NEW k \in Live, PeerStops(k)
      PROVE  [Registry!RegistryNext]_(Registry!registryVars)
  <2>1. PICK sock \in {"mute", "down"} :
           slots' = [slots EXCEPT ![k] = [slots[k] EXCEPT !.sock = sock]]
    BY <1>7 DEF PeerStops
  <2>2. \A j \in Live : /\ slots'[j].id = slots[j].id
                        /\ SessionOf(slots'[j]) = SessionOf(slots[j])
    BY <1>0, <1>1, <2>1 DEF PlayerConnection, SessionOf
  <2>3. size' = size /\ nextPlayerId' = nextPlayerId
    BY <1>7 DEF PeerStops
  <2> QED BY <2>2, <2>3, SameListStutters
<1>8. CASE UNCHANGED vars
  BY <1>8, SameListStutters DEF vars
<1> QED
  BY <1>2, <1>3, <1>4, <1>5, <1>6, <1>7, <1>8 DEF Next, ServerStep

\* An empty list is an empty table.
LEMMA InitRefines == Init => Registry!RegistryInit
<1> SUFFICES ASSUME Init PROVE Registry!RegistryInit
  OBVIOUS
<1>1. Live = {}
  BY DEF Init, Live
<1>2. LiveIds = {}
  BY <1>1 DEF LiveIds
<1>3. Sessions = [id \in {} |-> SessionOf(Vacant)]
  BY <1>2 DEF Sessions
<1> QED BY <1>3 DEF Init, Registry!RegistryInit

\* The server's list implements the table of players: whatever the walks skip
\* or read past the end, every step joins, drops or changes one player or ages
\* all of them, and never mixes two.
THEOREM Refinement == Spec => ImplementsRegistry
<1>1. IInv /\ IInv' /\ [Next]_vars
        => [Registry!RegistryNext]_(Registry!registryVars)
  BY StepRefines
<1> QED
  BY Invariance, InitRefines, <1>1, PTL
     DEF Spec, ImplementsRegistry, Registry!RegistrySpec
=============================================================================
