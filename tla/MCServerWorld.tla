--------------------------- MODULE MCServerWorld ---------------------------
(***************************************************************************)
(* Instances of ServerWorld small enough for TLC, and the contents of the  *)
(* missions table they start from.                                         *)
(***************************************************************************)
EXTENDS ServerWorld

Loaded(rowId, holder, done) ==
  [id |-> rowId, difficulty |-> 1, payment |-> 7,
   claimedBy |-> holder, completed |-> done]

\* Rows with the ids the server hands out first, as the ids of the table are:
\* open, held by a player or by somebody of an agent's number, completed, twice
\* the same; and rows of other ids, one of which has no holder.
MCTables ==
  {<<Loaded(2, 0, FALSE), Loaded(1, 7, FALSE)>>,
   <<Loaded(1, AgentId(2), TRUE), Loaded(3, AgentId(1), FALSE), Loaded(3, 0, FALSE)>>,
   <<Loaded(92, 7, FALSE), Loaded(93, NullClaim, FALSE), Loaded(94, 7, FALSE)>>,
   <<Loaded(0, 0, FALSE)>>}

\* The smallest table that lets an agent complete a mission another holds.
MCForeignTables == {<<Loaded(1, 7, FALSE)>>}
=============================================================================
