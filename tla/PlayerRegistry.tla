--------------------------- MODULE PlayerRegistry ---------------------------
(***************************************************************************)
(* What the list of connected players promises, with no trace of how the   *)
(* server stores it: a table from player numbers to sessions in which      *)
(* every step concerns ONE player, and only the passing of time touches    *)
(* all of them.  The server (GameServer.tla) keeps the table in a vector   *)
(* from which it erases while it walks over it, and is shown to implement  *)
(* this module.                                                            *)
(***************************************************************************)
EXTENDS Integers

CONSTANTS
  Session,     (* what is known of a connected player                      *)
  Fresh,       (* the session of a player that has just connected          *)
  TimeoutTicks (* how many silent ticks a session counts, and one more     *)

VARIABLES
  session,   (* the table: a function from the connected numbers           *)
  nextId     (* the number the next player gets                            *)

registryVars == <<session, nextId>>

RegistryInit ==
  /\ session = [id \in {} |-> Fresh]
  /\ nextId = 1

\* A player connects and gets a number nobody had before.
Join ==
  /\ nextId \notin DOMAIN session
  /\ session' = [id \in DOMAIN session \cup {nextId} |->
                   IF id = nextId THEN Fresh ELSE session[id]]
  /\ nextId' = nextId + 1

\* A player leaves; every other player keeps its session.
Leave(id) ==
  /\ session' = [other \in DOMAIN session \ {id} |-> session[other]]
  /\ UNCHANGED nextId

\* One player's session changes because of what that player sent.
Change(id) ==
  /\ id \in DOMAIN session'
  /\ session'[id] \in Session
  /\ session' = [session EXCEPT ![id] = session'[id]]
  /\ UNCHANGED nextId

\* Time passes for everybody.
Age ==
  /\ session' = [id \in DOMAIN session |->
                   IF session[id].idle <= TimeoutTicks
                   THEN [session[id] EXCEPT !.idle = @ + 1] ELSE session[id]]
  /\ UNCHANGED nextId

RegistryNext ==
  \/ Join
  \/ Age
  \/ \E id \in DOMAIN session : Leave(id) \/ Change(id)

RegistrySpec == RegistryInit /\ [][RegistryNext]_registryVars
=============================================================================
