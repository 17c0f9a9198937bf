----------------------------- MODULE GameServer -----------------------------
(***************************************************************************)
(* The player side of the dedicated server (src/server/gameserver.cpp):    *)
(* the vector m_players, the network tick that accepts connections, reads  *)
(* one packet per player and drops the silent ones, the handshake with its *)
(* account lookup in Supabase, and the one action that changes a player's  *)
(* credits.                                                                *)
(*                                                                         *)
(* m_players is a std::vector with storage for maxPlayers elements that is *)
(* never reallocated.  NetworkTick and CheckTimeouts walk over it with a   *)
(* range-for, whose end is taken once, while DisconnectPlayer erases from  *)
(* it: the walk then skips the player that moved into the erased slot and  *)
(* goes on into storage past the new end.  The model keeps the storage     *)
(* (slots), the length (size) and the end the walk cached (end).  Storage  *)
(* past the length is undefined to read; what the build leaves there is    *)
(* the copy that std::remove_if moved from, with its socket gone, and that *)
(* is what Erased keeps until the walk is over.                            *)
(***************************************************************************)
EXTENDS Integers

CONSTANTS
  MaxPlayers,         (* m_config.maxPlayers                               *)
  TimeoutTicks,       (* m_config.connectionTimeoutMs, in network ticks    *)
  SupabaseConfigured, (* whether m_config.supabaseUrl is set               *)
  RequestsMayFail,    (* whether an HTTP request may fail                  *)
  Accounts,           (* Supabase user ids, each with its valid token      *)
  NoAccount,          (* the empty authId of a guest                       *)
  NoToken,            (* the empty token                                   *)
  BadToken,           (* a token Supabase refuses                          *)
  NoProfile,          (* no row in the players table                       *)
  StoredBalances,     (* the credits a row may hold at start               *)
  StartBalance,       (* 3000, the credits of a new profile                *)
  Amounts,            (* the values of param1 in a PLACE_BOUNTY packet     *)
  WordSize,           (* 2^w, w the width of int32_t and uint32_t          *)
  MaxConnections      (* bound on the connections of one behaviour         *)

\* What a word of 2^w values means as int32_t.
Signed(n) ==
  LET word == n % WordSize
  IN IF 2 * word < WordSize THEN word ELSE word - WordSize

\* The words of a packet are uint32_t, a balance is an int32_t.
ASSUME ConstantsAssumption ==
  /\ MaxPlayers \in Nat \ {0}
  /\ TimeoutTicks \in Nat
  /\ MaxConnections \in Nat
  /\ SupabaseConfigured \in BOOLEAN
  /\ RequestsMayFail \in BOOLEAN
  /\ WordSize \in Nat \ {0}
  /\ Amounts \subseteq 0..(WordSize - 1)
  /\ StoredBalances \subseteq Int
  /\ \A balance \in StoredBalances : Signed(balance) = balance
  /\ StartBalance \in Nat
  /\ Signed(StartBalance) = StartBalance
  /\ NoAccount \notin Accounts
  /\ NoToken \notin Accounts
  /\ BadToken \notin Accounts
  /\ NoToken # BadToken
  /\ NoProfile \notin Int

VARIABLES
  slots,         (* the storage of m_players                               *)
  size,          (* m_players.size()                                       *)
  nextPlayerId,  (* m_nextPlayerId                                         *)
  phase,         (* where the main loop is                                 *)
  pos,           (* the element the walk is at                             *)
  end,           (* the end the walk cached                                *)
  store,         (* external: the players table, credits by account        *)
  authToken      (* the token in the SupabaseClient singleton              *)

vars == <<slots, size, nextPlayerId, phase, pos, end, store, authToken>>

-----------------------------------------------------------------------------
(* PlayerConnection.  sock is the socket together with what its peer does: *)
(* "null" is a socket without handle, "up" a peer that may send, "mute" one *)
(* that went silent without closing, "down" one that closed its end.       *)
(* wide is not in the code, nothing reads it but the properties: a bounty  *)
(* of half a word or more was placed since the last handshake.             *)

Slot == 1..MaxPlayers
Token == Accounts \cup {NoToken, BadToken}
AuthId == Accounts \cup {NoAccount}
Idle == 0..(TimeoutTicks + 1)

PlayerConnection ==
  [id: Nat, sock: {"null", "up", "mute", "down"}, idle: Idle,
   authenticated: BOOLEAN, authId: AuthId, credits: Int, wide: BOOLEAN]

Vacant ==
  [id |-> 0, sock |-> "null", idle |-> 0,
   authenticated |-> FALSE, authId |-> NoAccount, credits |-> 0,
   wide |-> FALSE]

Live == 1..size

Init ==
  /\ slots = [i \in Slot |-> Vacant]
  /\ size = 0
  /\ nextPlayerId = 1
  /\ phase = "sleep"
  /\ pos = 1
  /\ end = 0
  /\ store \in [Accounts -> StoredBalances \cup {NoProfile}]
  /\ authToken = NoToken

-----------------------------------------------------------------------------
(* DisconnectPlayer                                                        *)

\* Mutant: the elements are copied down, so the place behind the last keeps an
\* open socket.
ErasedByCopy(s, k) ==
  [j \in Slot |-> IF j \in k..(size - 1) THEN s[j + 1] ELSE s[j]]

\* std::remove_if and vector::erase of element k: the elements behind it move
\* down by one and the last place keeps what it was moved from.
Erased(s, k) ==
  [j \in Slot |-> IF j \in k..(size - 1) THEN s[j + 1]
                  ELSE IF j = size THEN [s[j] EXCEPT !.sock = "null"]
                  ELSE s[j]]

\* i is the element `player' refers to, possibly one past the length; the
\* predicate of remove_if compares player numbers.
DisconnectPlayer(s, i) ==
  LET closed == [s EXCEPT ![i] = [s[i] EXCEPT !.sock = "null",
                                              !.authenticated = FALSE]]
      same == {k \in Live : s[k].id = s[i].id}
  IN \/ /\ same = {}
        /\ slots' = closed
        /\ UNCHANGED size
     \/ \E k \in same :
          /\ slots' = Erased(closed, k)
          /\ size' = size - 1

-----------------------------------------------------------------------------
(* Supabase, as the server uses it.                                        *)

\* VerifyToken: the account of the token, or nothing when it is refused or
\* the request fails.
VerifyToken(token) ==
  IF ~SupabaseConfigured \/ token \notin Accounts THEN {NoAccount}
  ELSE IF RequestsMayFail THEN {token, NoAccount} ELSE {token}

\* GetPlayerProfile: the account's row, readable under its own token only;
\* a failed request returns what a missing row returns.
GetPlayerProfile(account, bearer) ==
  LET row == IF bearer = account THEN store[account] ELSE NoProfile
  IN IF RequestsMayFail THEN {row, NoProfile} ELSE {row}

\* CreatePlayerProfile: inserts the default row; refused where one exists.
CreatePlayerProfile(account) ==
  \/ store' = IF store[account] = NoProfile
              THEN [store EXCEPT ![account] = StartBalance] ELSE store
  \/ RequestsMayFail /\ UNCHANGED store

-----------------------------------------------------------------------------
(* Packet handlers.  s is the storage with lastActivity refreshed.         *)

\* Mutant: the balance is added to what an earlier handshake loaded.
AdmittedAdding(s, i, account, balance) ==
  [s EXCEPT ![i] = [s[i] EXCEPT !.authenticated = TRUE,
                                !.authId = account,
                                !.credits = @ + balance]]

Admitted(s, i, account, balance) ==
  [s EXCEPT ![i] = [s[i] EXCEPT !.authenticated = TRUE,
                                !.authId = account,
                                !.credits = balance,
                                !.wide = FALSE]]

\* A guest: no token, or a token nobody can verify because Supabase is off.
AdmitGuest(s, i) ==
  /\ slots' = Admitted(s, i, NoAccount, StartBalance)
  /\ UNCHANGED <<size, store, authToken>>

\* A verified account: the shared client takes over its token, then the
\* profile is read, and created with the defaults when none comes back.
AdmitAccount(s, i, account) ==
  /\ authToken' = account
  /\ \E row \in GetPlayerProfile(account, authToken') :
       IF row # NoProfile
       THEN /\ slots' = Admitted(s, i, account, row)
            /\ UNCHANGED store
       ELSE /\ slots' = Admitted(s, i, account, StartBalance)
            /\ CreatePlayerProfile(account)
  /\ UNCHANGED size

\* Mutant: no return after DisconnectPlayer, so the rest of the handshake is
\* applied to the player that moved into the element.
RefuseWithoutReturn(s, i) ==
  \E k \in {k \in Live : s[k].id = s[i].id} :
    /\ slots' = Admitted(Erased(s, k), i, NoAccount, StartBalance)
    /\ size' = size - 1
    /\ UNCHANGED <<store, authToken>>

Refuse(s, i) ==
  /\ DisconnectPlayer(s, i)
  /\ UNCHANGED <<store, authToken>>

\* The first disjunct is a packet that is too short or of another protocol
\* version.  Nothing stops a player from shaking hands a second time.
HandleHandshake(s, i) ==
  \/ Refuse(s, i)
  \/ \E token \in Token : \E account \in VerifyToken(token) :
       IF account # NoAccount THEN AdmitAccount(s, i, account)
       ELSE IF SupabaseConfigured /\ token # NoToken THEN Refuse(s, i)
       ELSE AdmitGuest(s, i)

\* Mutant: no check of the funds.
PlaceBountyUnchecked(s, i, amount) ==
  /\ slots' = [s EXCEPT ![i] = [s[i] EXCEPT
                            !.credits = Signed(s[i].credits - amount)]]
  /\ UNCHANGED <<size, store, authToken>>

\* PLACE_BOUNTY: the check reads param1 as signed, the deduction takes the
\* word as it is, so that one of half a word or more passes as a negative
\* amount and is added.
PlaceBounty(s, i, amount) ==
  /\ slots' = IF Signed(amount) <= s[i].credits
              THEN [s EXCEPT ![i] = [s[i] EXCEPT
                                !.credits = Signed(s[i].credits - amount),
                                !.wide = @ \/ 2 * amount >= WordSize]]
              ELSE s
  /\ UNCHANGED <<size, store, authToken>>

\* Whatever changes nothing here: chat, keepalives, incomplete packets, packets
\* of an unknown type.
OtherPacket(s) ==
  /\ slots' = s
  /\ UNCHANGED <<size, store, authToken>>

\* Of the actions of a player who has shaken hands, PLACE_BOUNTY alone does
\* more than log.
HandlePlayerAction(s, i) ==
  \/ /\ s[i].authenticated
     /\ \E amount \in Amounts : PlaceBounty(s, i, amount)
  \/ OtherPacket(s)

\* A packet of any kind refreshes lastActivity before it is looked at.
Touched(i) == [slots EXCEPT ![i] = [slots[i] EXCEPT !.idle = 0]]

HandlePacket(i) ==
  \/ HandleHandshake(Touched(i), i)
  \/ HandlePlayerAction(Touched(i), i)
  \/ OtherPacket(Touched(i))

-----------------------------------------------------------------------------
(* The main loop.                                                          *)

\* Storage nothing can reach any more: a later push_back writes over it.
Trimmed == [j \in Slot |-> IF j \in Live THEN slots[j] ELSE Vacant]

\* Run sleeps until the next network interval.
StartTick ==
  /\ phase = "sleep"
  /\ phase' = "accept"
  /\ slots' = [j \in Slot |->
                 IF j \in Live /\ slots[j].idle <= TimeoutTicks
                 THEN [slots[j] EXCEPT !.idle = @ + 1] ELSE slots[j]]
  /\ UNCHANGED <<size, nextPlayerId, pos, end, store, authToken>>

\* Mutant: no check of the capacity.
AcceptWhenFull ==
  /\ phase = "accept"
  /\ phase' = "incoming"
  /\ nextPlayerId <= MaxConnections
  /\ slots' = [slots EXCEPT ![size + 1] =
                 [Vacant EXCEPT !.id = nextPlayerId, !.sock = "up"]]
  /\ size' = size + 1
  /\ nextPlayerId' = nextPlayerId + 1
  /\ pos' = 1
  /\ end' = size'
  /\ UNCHANGED <<store, authToken>>

\* At most one connection a tick; none when the list is full.
AcceptConnections ==
  /\ phase = "accept"
  /\ phase' = "incoming"
  /\ \/ /\ size < MaxPlayers
        /\ nextPlayerId <= MaxConnections
        /\ slots' = [slots EXCEPT ![size + 1] =
                       [Vacant EXCEPT !.id = nextPlayerId, !.sock = "up"]]
        /\ size' = size + 1
        /\ nextPlayerId' = nextPlayerId + 1
     \/ UNCHANGED <<slots, size, nextPlayerId>>
  /\ pos' = 1
  /\ end' = size'
  /\ UNCHANGED <<store, authToken>>

\* Mutant: lastActivity is refreshed before it is known that data came.
ProcessTouchingFirst ==
  /\ phase = "incoming"
  /\ pos <= end
  /\ pos' = pos + 1
  /\ \/ slots[pos].sock # "down" /\ OtherPacket(Touched(pos))
     \/ slots[pos].sock = "down" /\ Refuse(slots, pos)
     \/ slots[pos].sock = "up" /\ HandlePacket(pos)
  /\ UNCHANGED <<nextPlayerId, phase, end>>

\* ProcessIncoming(player) for the element the walk is at.
ProcessIncoming ==
  /\ phase = "incoming"
  /\ pos <= end
  /\ pos' = pos + 1
  /\ \/ /\ slots[pos].sock # "down"
        /\ UNCHANGED <<slots, size, store, authToken>>
     \/ slots[pos].sock = "down" /\ Refuse(slots, pos)
     \/ slots[pos].sock = "up" /\ HandlePacket(pos)
  /\ UNCHANGED <<nextPlayerId, phase, end>>

\* The walk is over; the deltas and the player list are sent (which changes
\* nothing here) and CheckTimeouts starts its own walk.
EndIncoming ==
  /\ phase = "incoming"
  /\ pos > end
  /\ phase' = "timeouts"
  /\ pos' = 1
  /\ end' = size
  /\ slots' = Trimmed
  /\ UNCHANGED <<size, nextPlayerId, store, authToken>>

CheckTimeouts ==
  /\ phase = "timeouts"
  /\ pos <= end
  /\ pos' = pos + 1
  /\ IF slots[pos].idle > TimeoutTicks
     THEN DisconnectPlayer(slots, pos)
     ELSE UNCHANGED <<slots, size>>
  /\ UNCHANGED <<nextPlayerId, phase, end, store, authToken>>

EndTick ==
  /\ phase = "timeouts"
  /\ pos > end
  /\ phase' = "sleep"
  /\ pos' = 1
  /\ end' = 0
  /\ slots' = Trimmed
  /\ UNCHANGED <<size, nextPlayerId, store, authToken>>

ServerStep ==
  \/ StartTick
  \/ AcceptConnections
  \/ ProcessIncoming
  \/ EndIncoming
  \/ CheckTimeouts
  \/ EndTick

\* External: the peer of a connection closes it, or falls silent.
PeerStops(i) ==
  /\ slots[i].sock = "up"
  /\ \E sock \in {"mute", "down"} :
       slots' = [slots EXCEPT ![i] = [slots[i] EXCEPT !.sock = sock]]
  /\ UNCHANGED <<size, nextPlayerId, phase, pos, end, store, authToken>>

Next == ServerStep \/ \E i \in Live : PeerStops(i)

Spec == Init /\ [][Next]_vars

\* Run loops for ever.  Its sockets are read only when data is waiting; that
\* the HTTP requests and the sends return in the end is assumed.
FairSpec == Spec /\ WF_vars(ServerStep)

-----------------------------------------------------------------------------
(* Properties                                                              *)

TypeOK ==
  /\ slots \in [Slot -> PlayerConnection]
  /\ size \in 0..MaxPlayers
  /\ nextPlayerId \in Nat \ {0}
  /\ phase \in {"sleep", "accept", "incoming", "timeouts"}
  /\ pos \in 1..(MaxPlayers + 1)
  /\ end \in 0..MaxPlayers
  /\ store \in [Accounts -> Int \cup {NoProfile}]
  /\ authToken \in Token

\* The players stand in the order in which they connected: their numbers
\* strictly increase, none was handed out by a later connect, and each still
\* owns its socket.  DisconnectPlayer identifies the element to erase by its
\* number alone, through a reference that the erasure itself moves under it.
PlayersInOrder ==
  /\ \A i, j \in Live : i < j => slots[i].id < slots[j].id
  /\ \A i \in Live : slots[i].id \in 1..(nextPlayerId - 1)
  /\ \A i \in Live : slots[i].sock # "null"

\* A walk that runs past the length after an erase finds there an element
\* without socket, and in CheckTimeouts one that is as old as the player whose
\* number it bears: the stale element can get nobody else dropped.
StaleSlotsHarmless ==
  /\ phase \in {"incoming", "timeouts"} => size <= end
  /\ \A g \in (size + 1)..end :
       /\ slots[g].sock = "null"
       /\ phase = "timeouts" =>
            \A i \in Live : slots[i].id = slots[g].id
                              => slots[i].idle = slots[g].idle

LiveIds == {slots[i].id : i \in Live}

\* A player is erased only in its own turn of ProcessIncoming, or by
\* CheckTimeouts when it has itself been silent for too long.
OnlyOwnFault ==
  [][\A i \in Live : slots[i].id \notin LiveIds' =>
       \/ phase = "incoming" /\ i = pos
       \/ phase = "timeouts" /\ slots[i].idle > TimeoutTicks]_vars

\* A player whose peer has closed or gone silent is eventually erased, in
\* spite of the turns the walks skip.
DeadPeersDropped ==
  \A id \in 1..MaxConnections :
    (\E i \in Live : slots[i].id = id /\ slots[i].sock \in {"mute", "down"})
      ~> id \notin LiveIds

\* What the account of a session has in its row, if it has one.
Row(p) == IF p.authId \in Accounts THEN store[p.authId] ELSE NoProfile

Backed(p) ==
  \/ p.credits <= StartBalance
  \/ Row(p) # NoProfile /\ p.credits <= Row(p)

\* No session holds more than the larger of its account's row and the start
\* balance, whatever requests fail on the way and however often the player
\* shakes hands: credits come from the profile or the default, never from two
\* of them, and other bounties than those of half a word or more, which the
\* server takes for negative, add none.
CreditsBacked ==
  \A i \in Live : slots[i].authenticated /\ ~slots[i].wide => Backed(slots[i])

\* Bounties below half a word never take a player below zero, or below a
\* negative row he started from.
CreditsNotNegative ==
  \A i \in Live :
    slots[i].credits < 0 =>
      \/ slots[i].wide
      \/ Row(slots[i]) # NoProfile /\ slots[i].credits = Row(slots[i])

\* What the comments of HandleAction_PlaceBounty promise, `Validate player has
\* funds' and `Deduct from player': no bounty leaves a player with more than
\* the balance he started from.  Does not hold.
BountiesDeducted ==
  \A i \in Live : slots[i].authenticated => Backed(slots[i])

-----------------------------------------------------------------------------
(* The list of players as the abstract table sees it.                      *)

SessionOf(p) ==
  [idle |-> p.idle, authenticated |-> p.authenticated,
   authId |-> p.authId, credits |-> p.credits]

Sessions ==
  [id \in LiveIds |-> SessionOf(slots[CHOOSE i \in Live : slots[i].id = id])]

Registry == INSTANCE PlayerRegistry WITH
  session <- Sessions,
  nextId  <- nextPlayerId,
  Session <- [idle: Idle, authenticated: BOOLEAN, authId: AuthId, credits: Int],
  Fresh   <- SessionOf(Vacant)

\* Every step of the server and of its peers concerns one player of the list,
\* or is the passing of time: the erasing walks never hand one player's
\* session, login or credits to another.
ImplementsRegistry == Registry!RegistrySpec
=============================================================================
