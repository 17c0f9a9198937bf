------------------------------ MODULE LogBank ------------------------------
(***************************************************************************)
(* A computer's access logs (src/uplink/src/world/computer/logbank.cpp):   *)
(* the logs a visitor sees and may delete or forge, and the internal       *)
(* copies by which an investigator may undo that.  The two arrays belong   *)
(* together slot by slot, and nothing but the code that changes them keeps *)
(* them so.                                                                *)
(*                                                                         *)
(* Of a log are kept its date, its type, whether it came from the player's *)
(* gateway itself or from elsewhere, and the suspicion.  The field entry   *)
(* is not in the code: it tells which call of AddLog the slot goes back    *)
(* to, and stays when the log is replaced by a marker or by a forgery.     *)
(***************************************************************************)
EXTENDS DArray

CONSTANT Dates  (* the dates of logs, natural numbers here                 *)

DELETED          == "DELETED"
CONNECTIONOPENED == "CONNECTIONOPENED"
TEXT            == "TEXT"  \* LOG_TYPE_TEXT, CONNECTIONCLOSED and the rest
LogTypes         == {DELETED, CONNECTIONOPENED, TEXT}

Localhost == "localhost"
Elsewhere == "elsewhere"
FromIps   == {Localhost, Elsewhere}

NOTSUSPICIOUS        == 0
SUSPICIOUS           == 1
SUSPICIOUSANDNOTICED == 2
UNDERINVESTIGATION   == 3
Suspicions           == 0..3

AccessLog == [entry: Nat, date: Dates, type: LogTypes, fromip: FromIps,
              suspicious: Suspicions]

Bank == [logs: Seq(AccessLog \cup {Unused}),
         internallogs: Seq(AccessLog \cup {Unused})]

EmptyBank == [logs |-> <<>>, internallogs |-> <<>>]

-----------------------------------------------------------------------------

\* AddLog at the end, with a copy in the internal structure.
AddLog(b, log) ==
  LET index == Len(b.logs) + 1
  IN [logs         |-> PutData(SetSize(b.logs, index), index, log),
      internallogs |-> PutData(SetSize(b.internallogs, index), index, log)]

\* What LogModified compares; the text of a log is not part of it.
LogModified(b, i) ==
  /\ ValidIndex(b.logs, i)
  /\ ValidIndex(b.internallogs, i)
  /\ \/ b.logs[i].type # b.internallogs[i].type
     \/ b.logs[i].suspicious # b.internallogs[i].suspicious
     \/ b.logs[i].fromip # b.internallogs[i].fromip
     \/ b.logs[i].date # b.internallogs[i].date

\* What an investigator of a rating sees in slot i, and puts back there: a good
\* one recovers what was deleted, a better one what was forged too.
Ratings == {"poor", "undeletes", "restores"}

Recovered(b, i, rating) ==
  LET recovers ==
        /\ ValidIndex(b.logs, i)
        /\ ValidIndex(b.internallogs, i)
        /\ IF b.logs[i].type = DELETED THEN rating # "poor"
           ELSE rating = "restores" /\ LogModified(b, i)
  IN IF recovers THEN b.internallogs[i] ELSE b.logs[i]

\* The logs after an investigator has gone through the first k of them.
RecoveredUpTo(b, k, rating) ==
  [b EXCEPT !.logs = [i \in 1..Len(b.logs) |->
                        IF i <= k THEN Recovered(b, i, rating) ELSE b.logs[i]]]

\* Save writes an internal log only where LogModified tells it from the log,
\* and Load makes the others anew as copies of the logs.
SaveAndLoad(b) ==
  [b EXCEPT !.internallogs = [i \in 1..Len(b.logs) |->
                                IF LogModified(b, i) THEN b.internallogs[i]
                                ELSE b.logs[i]]]
=============================================================================
