-------------------------------- MODULE Bank --------------------------------
(***************************************************************************)
(* Money in the game (src/uplink/src/world/computer/bankaccount.cpp,       *)
(* person.cpp, player.cpp): transfers between accounts and the event that  *)
(* looks for stolen money two minutes later, what the player is charged    *)
(* and fined, how a fine is found to be paid, loans and their interest.    *)
(*                                                                         *)
(* Everything runs on one thread: an action is one click or one event.     *)
(* Which comes next is open, and so is when a robbery event or a due date  *)
(* comes; amounts stay small, and the hundred credits that loans are taken *)
(* by are LoanStep here.                                                   *)
(*                                                                         *)
(* Of the statement of an account only the internal logs of transfers are  *)
(* kept, which all the checks go by.  What LogDeleter and LogModifier do   *)
(* to one is HideLog: such a log no longer names the other account.  That  *)
(* LogModifier may also write a transfer over another log is left out.     *)
(***************************************************************************)
EXTENDS Integers, Sequences, FiniteSets, SequencesExt, FiniteSetsExt

CONSTANTS
  Own,        (* the accounts the player opens, in the order he does       *)
  Others,     (* the accounts of other people                              *)
  Public,     (* accounts, once they are open, of the public banks         *)
  NameOf,     (* the name an account is held under                         *)
  Handle,     (* the player's                                              *)
  Found,      (* <<x, y>>: the address of x is found in that of y (strstr) *)
  Money,      (* the balances at the beginning                             *)
  Pairs,      (* the transfers tried: a source and a target                *)
  Amounts,    (* what is transferred                                       *)
  Sums,       (* what is paid and charged                                  *)
  Fine,       (* what an overdraft costs (500)                             *)
  LoanStep,   (* what one click borrows or pays back (100)                 *)
  Interests,  (* what a month may add to a loan                            *)
  MaxRating,  (* the highest Uplink rating                                 *)
  MaxMoves,   (* a bound on everything that moves money                    *)
  MaxFines,   (* a bound on the fines open at once                         *)
  MaxShares,  (* a bound on the lots of shares owned                       *)
  None        (* no screen                                                 *)

Accounts == ToSet(Own) \cup Others

ASSUME ConstantsAssumption ==
  /\ Own \in Seq(Accounts)
  /\ Len(Own) > 0
  /\ IsInjective(Own)
  /\ ToSet(Own) \cap Others = {}
  /\ IsFiniteSet(Others)
  /\ Public \subseteq Accounts
  /\ Found \subseteq Accounts \X Accounts
  /\ \A a \in Accounts : <<a, a>> \in Found
  /\ NameOf[Own[1]] = Handle
  /\ Money \in [Accounts -> Nat]
  /\ Pairs \subseteq Accounts \X Accounts
  /\ Amounts \subseteq Int
  /\ Sums \subseteq Nat \ {0}
  /\ Fine \in Nat \ {0}
  /\ LoanStep \in Nat \ {0}
  /\ Interests \subseteq Nat
  /\ MaxRating \in Nat \ {0}
  /\ MaxMoves \in Nat
  /\ MaxFines \in Nat
  /\ MaxShares \in Nat

VARIABLES
  book,          (* balances, transfer logs, robbery events: see Book      *)
  loan,          (* what is owed on each account                           *)
  opened,        (* how many accounts the player has                       *)
  current,       (* the index of the one he is charged on                  *)
  fines,         (* his PAYFINE missions                                   *)
  uplinkrating,
  creditrating,
  shares,        (* the lots he owns                                       *)
  screen,        (* the loans screen, if it is shown                       *)
  connected,     (* whether the player is connected to its bank            *)
  gameover,
  paidin,        (* history: what came in from outside the accounts        *)
  failed         (* an assertion of ClickPayFinesButton has failed         *)

vars == <<book, loan, opened, current, fines, uplinkrating, creditrating, shares,
          screen, connected, gameover, paidin, failed>>

-----------------------------------------------------------------------------

\* theft is not in the code: whether the player took the money from a stranger.
Log == [id: Nat, type: {"TRANSFERTO", "TRANSFERFROM"}, other: Accounts, amount: Int,
        theft: BOOLEAN]

Robbery == [id: Nat, source: Accounts, target: Accounts, amount: Int]

\* made counts what moves money, and tells transfers, robberies and fines apart.
Book == [balance: [Accounts -> Int], logs: [Accounts -> SUBSET Log],
         robberies: SUBSET Robbery, made: Nat]

\* since is not in the code: how much had been moved when the fine was given.
PayFine == [account: Accounts, amount: Nat, since: Nat, overdue: BOOLEAN]

LoansScreen == [account: Accounts, loanchange: Int]

accounts == SubSeq(Own, 1, opened)

IsPlayerAccount(a) == a \in ToSet(accounts)

Exists(a) == a \in Others \/ IsPlayerAccount(a)

GetBalance(b) == SumFunctionOnSet(b.balance, ToSet(accounts))

Init ==
  /\ book = [balance |-> Money, logs |-> [a \in Accounts |-> {}],
             robberies |-> {}, made |-> 0]
  /\ loan = [a \in Accounts |-> 0]
  /\ opened = 1
  /\ current = 1
  /\ fines = <<>>
  /\ uplinkrating = 1
  /\ creditrating = 1
  /\ shares = 0
  /\ screen = None
  /\ connected = FALSE
  /\ gameover = FALSE
  /\ paidin = SumFunctionOnSet(Money, Accounts)
  /\ failed = FALSE

-----------------------------------------------------------------------------
(* Transfers.                                                              *)

Transfers(b, source, target, amount) ==
  /\ Exists(source)
  /\ Exists(target)
  /\ amount > 0
  /\ b.balance[source] >= amount

\* Mutant: the target gets its money also when the source has too little.
TransferMoneyAnyway(b, source, target, amount, byplayer) ==
  [b EXCEPT !.made = @ + 1,
            !.balance[target] = IF Exists(target) THEN @ + amount ELSE @,
            !.balance[source] = IF @ >= amount THEN @ - amount ELSE @]

\* "If the player is trying to rob money, make sure we know about it": the event
\* is scheduled before it is known whether there is anything to take.
TransferMoney(b, source, target, amount, byplayer) ==
  LET id    == b.made + 1
      theft == byplayer /\ ~IsPlayerAccount(source) /\ IsPlayerAccount(target)
      seen  == IF theft
               THEN [b EXCEPT !.made = id,
                              !.robberies = @ \cup {[id |-> id, source |-> source,
                                                     target |-> target, amount |-> amount]}]
               ELSE [b EXCEPT !.made = id]
      To(other, type) == [id |-> id, type |-> type, other |-> other, amount |-> amount,
                          theft |-> theft]
      paid == [b.balance EXCEPT ![source] = @ - amount]
      told == [b.logs EXCEPT ![source] = @ \cup {To(target, "TRANSFERTO")}]
  IN IF ~Transfers(b, source, target, amount) THEN seen
     ELSE [seen EXCEPT !.balance = [paid EXCEPT ![target] = @ + amount],
                       !.logs = [told EXCEPT ![target] = @ \cup {To(source, "TRANSFERFROM")}]]

\* The transfer screen of an account, which is left showing when the connection
\* is gone, or an agent on a CHANGEACCOUNT mission.
Transfer(source, target, amount, byplayer) ==
  /\ Exists(source)
  /\ book.made < MaxMoves
  /\ book' = TransferMoney(book, source, target, amount, byplayer)
  /\ UNCHANGED <<loan, opened, current, fines, uplinkrating, creditrating, shares,
                 screen, connected, gameover, paidin, failed>>

HideLog(a, log) ==
  /\ book' = [book EXCEPT !.logs[a] = @ \ {log}]
  /\ UNCHANGED <<loan, opened, current, fines, uplinkrating, creditrating, shares,
                 screen, connected, gameover, paidin, failed>>

LogOf(b, a, type, other, amount) ==
  \E log \in b.logs[a] :
    log.type = type /\ <<other, log.other>> \in Found /\ log.amount = amount

\* The credit rating follows an Uplink rating that rises above it.
RatingChanges ==
  /\ uplinkrating' \in uplinkrating..MaxRating
  /\ creditrating' = IF uplinkrating' > uplinkrating /\ uplinkrating' > creditrating
                     THEN uplinkrating' ELSE creditrating

\* Mutant: the log on the account the money came to is not looked for.
RunRobberySourceOnly(r) ==
  /\ book' = [book EXCEPT !.robberies = @ \ {r}]
  /\ gameover' = LogOf(book, r.source, "TRANSFERTO", r.target, r.amount)
  /\ UNCHANGED <<loan, opened, current, fines, uplinkrating, creditrating, shares,
                 screen, connected, paidin, failed>>

\* BankRobberyEvent::Run.  Any transfer like it will do.
RunRobbery(r) ==
  /\ book' = [book EXCEPT !.robberies = @ \ {r}]
  /\ \/ /\ \/ LogOf(book, r.source, "TRANSFERTO", r.target, r.amount)
           \/ LogOf(book, r.target, "TRANSFERFROM", r.source, r.amount)
        /\ gameover' = TRUE
        /\ UNCHANGED <<uplinkrating, creditrating>>
     \/ /\ ~LogOf(book, r.source, "TRANSFERTO", r.target, r.amount)
        /\ ~LogOf(book, r.target, "TRANSFERFROM", r.source, r.amount)
        /\ RatingChanges
        /\ UNCHANGED gameover
  /\ UNCHANGED <<loan, opened, current, fines, shares, screen, connected, paidin, failed>>

-----------------------------------------------------------------------------
(* Charges and fines.                                                      *)

\* GetRandomAccount takes any account of a public bank, the player's too.
Payable == {a \in Public : Exists(a)}

Given(account, amount) ==
  [account |-> account, amount |-> amount, since |-> book.made + 1, overdue |-> FALSE]

\* Person::ChangeBalance: the current account, and a fine if it is overdrawn.
ChangeBalance(amount) ==
  LET a   == accounts[current]
      now == book.balance[a] + amount
  IN /\ book.made < MaxMoves
     /\ book' = [book EXCEPT !.balance[a] = now, !.made = @ + 1]
     /\ paidin' = paidin + amount
     /\ IF amount < 0 /\ now < 0
        THEN /\ Len(fines) < MaxFines
             /\ \E account \in Payable : fines' = Append(fines, Given(account, Fine))
        ELSE UNCHANGED fines

\* Missions, refunds.
Earn(amount) ==
  /\ ChangeBalance(amount)
  /\ UNCHANGED <<loan, opened, current, uplinkrating, creditrating, shares, screen,
                 connected, gameover, failed>>

\* The sales screens ask for the money on all accounts together.  The monthly
\* fee is taken unasked, the price of a gateway some clicks after asking.
Charge(cost, asked) ==
  /\ asked => GetBalance(book) >= cost
  /\ ChangeBalance(-cost)
  /\ UNCHANGED <<loan, opened, current, uplinkrating, creditrating, shares, screen,
                 connected, gameover, failed>>

\* Mutant: what is sold is not looked up among the lots owned.
TradeSharesUnowned(lots, price) ==
  /\ lots = 1 => GetBalance(book) >= price /\ shares < MaxShares
  /\ ChangeBalance(-lots * price)
  /\ shares' = shares + lots
  /\ UNCHANGED <<loan, opened, current, uplinkrating, creditrating, screen, connected,
                 gameover, failed>>

\* TradeShares asks the same.
TradeShares(lots, price) ==
  /\ \/ lots = 1 /\ GetBalance(book) >= price /\ shares < MaxShares
     \/ lots = -1 /\ shares > 0
  /\ ChangeBalance(-lots * price)
  /\ shares' = shares + lots
  /\ UNCHANGED <<loan, opened, current, uplinkrating, creditrating, screen, connected,
                 gameover, failed>>

\* ConsequenceGenerator::CaughtHacking, for a computer that fines.
CaughtHacking(amount) ==
  /\ book.made < MaxMoves
  /\ Len(fines) < MaxFines
  /\ \E account \in Payable : fines' = Append(fines, Given(account, amount))
  /\ book' = [book EXCEPT !.made = @ + 1]
  /\ UNCHANGED <<loan, opened, current, uplinkrating, creditrating, shares, screen,
                 connected, gameover, paidin, failed>>

\* Mutant: only accounts under the player's handle are looked for.
CompleteUnderHandle(b, fine) ==
  \E log \in b.logs[fine.account] :
    log.type = "TRANSFERFROM" /\ log.amount = fine.amount /\ NameOf[log.other] = Handle

\* IsMissionComplete_PayFine: a transfer of the sum into the account, ever, under
\* the handle or a name that one of the player's accounts is held under.
IsMissionComplete(b, fine) ==
  \E log \in b.logs[fine.account] :
    /\ log.type = "TRANSFERFROM"
    /\ log.amount = fine.amount
    /\ NameOf[log.other] \in {Handle} \cup {NameOf[a] : a \in ToSet(accounts)}

\* One fine of ClickPayFinesButton: the first account that has the money pays.
PayOne(done, fine) ==
  LET payers == {j \in 1..opened : done.book.balance[accounts[j]] >= fine.amount}
      payer  == accounts[CHOOSE j \in payers : \A k \in payers : j <= k]
      after  == TransferMoney(done.book, payer, fine.account, fine.amount, FALSE)
  IN IF done.stopped \/ fine.amount > done.money
     THEN [done EXCEPT !.stopped = TRUE, !.left = Append(@, fine)]
     ELSE IF payers = {} THEN [done EXCEPT !.left = Append(@, fine)]
     ELSE [done EXCEPT !.book = after,
                       !.money = @ - fine.amount,
                       !.failed = \/ @
                                  \/ ~Transfers(done.book, payer, fine.account, fine.amount)
                                  \/ ~IsMissionComplete(after, fine)]

\* What has come of the first i fines.
Paid[i \in 0..Len(fines)] ==
  IF i = 0 THEN [book |-> book, money |-> GetBalance(book), left |-> <<>>,
                 stopped |-> FALSE, failed |-> failed]
  ELSE PayOne(Paid[i - 1], fines[i])

ClickPayFinesButton ==
  /\ book.made + Len(fines) <= MaxMoves
  /\ LET done == Paid[Len(fines)]
     IN /\ book' = done.book
        /\ fines' = done.left
        /\ failed' = done.failed
  /\ UNCHANGED <<loan, opened, current, uplinkrating, creditrating, shares, screen,
                 connected, gameover, paidin>>

\* The fines but the i-th for i in gone, in their order.
FinesLeft(gone) ==
  LET left[i \in 0..Len(fines)] == IF i = 0 THEN <<>>
                                   ELSE IF i \in gone THEN left[i - 1]
                                   ELSE Append(left[i - 1], fines[i])
  IN left[Len(fines)]

\* The player's mail that a fine of the amount is paid.  Person::Update goes on
\* behind the mission it has removed, and so leaves the next one out.
ConfirmFines(amount) ==
  LET Removed[i \in 0..Len(fines)] ==
        /\ i > 0
        /\ ~Removed[i - 1]
        /\ fines[i].amount = amount
        /\ IsMissionComplete(book, fines[i])
  IN /\ fines' = FinesLeft({i \in 1..Len(fines) : Removed[i]})
     /\ UNCHANGED <<book, loan, opened, current, uplinkrating, creditrating, shares,
                    screen, connected, gameover, paidin, failed>>

DueDateComes(i) ==
  /\ ~fines[i].overdue
  /\ fines' = [fines EXCEPT ![i].overdue = TRUE]
  /\ UNCHANGED <<book, loan, opened, current, uplinkrating, creditrating, shares, screen,
                 connected, gameover, paidin, failed>>

\* Mutant: the loop ends before the last mission.
CheckAllButLast ==
  /\ fines' = FinesLeft({i \in 1..(Len(fines) - 1) : fines[i].overdue})
  /\ UNCHANGED <<book, loan, opened, current, uplinkrating, creditrating, shares, screen,
                 connected, gameover, paidin, failed>>

\* Every day.  Legal action against the player begins, which is not followed here.
CheckMissionDueDates ==
  /\ fines' = FinesLeft({i \in 1..Len(fines) : fines[i].overdue})
  /\ UNCHANGED <<book, loan, opened, current, uplinkrating, creditrating, shares, screen,
                 connected, gameover, paidin, failed>>

-----------------------------------------------------------------------------
(* Accounts and loans.                                                     *)

\* At a bank, under any name not used there.
CreateNewAccount ==
  /\ opened < Len(Own)
  /\ opened' = opened + 1
  /\ UNCHANGED <<book, loan, current, fines, uplinkrating, creditrating, shares, screen,
                 connected, gameover, paidin, failed>>

SetCurrentAccount(index) ==
  /\ current' = index
  /\ UNCHANGED <<book, loan, opened, fines, uplinkrating, creditrating, shares, screen,
                 connected, gameover, paidin, failed>>

OpenLoans(a) ==
  /\ IsPlayerAccount(a)
  /\ screen = None
  /\ screen' = [account |-> a, loanchange |-> 0]
  /\ connected' = TRUE
  /\ UNCHANGED <<book, loan, opened, current, fines, uplinkrating, creditrating, shares,
                 gameover, paidin, failed>>

\* "Make sure we don't take out too much."
IncreaseLoanClick ==
  /\ screen # None
  /\ creditrating > 0
  /\ LET change == screen.loanchange + LoanStep
         most   == creditrating * LoanStep
     IN screen' = [screen EXCEPT !.loanchange = IF change > most THEN most ELSE change]
  /\ UNCHANGED <<book, loan, opened, current, fines, uplinkrating, creditrating, shares,
                 connected, gameover, paidin, failed>>

DecreaseLoanClick ==
  /\ screen # None
  /\ LET change == screen.loanchange - LoanStep
         owed   == loan[screen.account]
     IN screen' = [screen EXCEPT !.loanchange = IF owed + change < 0 THEN -owed ELSE change]
  /\ UNCHANGED <<book, loan, opened, current, fines, uplinkrating, creditrating, shares,
                 connected, gameover, paidin, failed>>

\* Division as C does it, towards zero.
InSteps(change) ==
  IF change >= 0 THEN change \div LoanStep ELSE -((-change) \div LoanStep)

\* The change is made.  RunScreen goes to the next screen only while the player
\* is still connected to the bank of this one.
CloseClick ==
  /\ screen # None
  /\ book.made < MaxMoves
  /\ LET a == screen.account
         change == screen.loanchange
     IN /\ loan' = [loan EXCEPT ![a] = @ + change]
        /\ book' = [book EXCEPT !.balance[a] = @ + change, !.made = @ + 1]
        /\ creditrating' = creditrating - InSteps(change)
  /\ screen' = IF connected THEN None ELSE screen
  /\ UNCHANGED <<opened, current, fines, uplinkrating, shares, connected, gameover, paidin,
                 failed>>

\* A click on an account of the finance screen, say: disconnected, and the
\* number is dialled while the screen stays.
HangUp ==
  /\ connected
  /\ connected' = FALSE
  /\ UNCHANGED <<book, loan, opened, current, fines, uplinkrating, creditrating, shares,
                 screen, gameover, paidin, failed>>

\* Another screen takes the place of this one, and what it would change is lost.
OtherScreen ==
  /\ screen # None
  /\ screen' = None
  /\ UNCHANGED <<book, loan, opened, current, fines, uplinkrating, creditrating, shares,
                 connected, gameover, paidin, failed>>

\* Every thirty days, on all accounts of the player that owe something.
AddInterestOnLoans ==
  /\ book.made < MaxMoves
  /\ book' = [book EXCEPT !.made = @ + 1]
  /\ \E interest \in [ToSet(accounts) -> Interests] :
       LET amountpaid == [a \in Accounts |->
             IF IsPlayerAccount(a) /\ loan[a] > 0 THEN interest[a] ELSE 0]
       IN /\ loan' = [a \in Accounts |-> loan[a] + amountpaid[a]]
          /\ paidin' = paidin - SumFunctionOnSet(amountpaid, Accounts)
  /\ UNCHANGED <<opened, current, fines, uplinkrating, creditrating, shares, screen,
                 connected, gameover, failed>>

-----------------------------------------------------------------------------

Player ==
  \/ \E pair \in Pairs, amount \in Amounts : Transfer(pair[1], pair[2], amount, TRUE)
  \/ \E a \in Accounts : \E log \in book.logs[a] : HideLog(a, log)
  \/ \E cost \in Sums : Charge(cost, TRUE)
  \/ \E lots \in {-1, 1}, price \in Sums : TradeShares(lots, price)
  \/ ClickPayFinesButton
  \/ \E amount \in {fines[i].amount : i \in 1..Len(fines)} : ConfirmFines(amount)
  \/ CreateNewAccount
  \/ \E index \in 1..opened : SetCurrentAccount(index)
  \/ \E a \in Accounts : OpenLoans(a)
  \/ IncreaseLoanClick
  \/ DecreaseLoanClick
  \/ CloseClick
  \/ HangUp
  \/ OtherScreen

World ==
  \/ \E pair \in Pairs, amount \in Amounts : Transfer(pair[1], pair[2], amount, FALSE)
  \/ \E r \in book.robberies : RunRobbery(r)
  \/ \E amount \in Sums : Earn(amount) \/ Charge(amount, FALSE) \/ CaughtHacking(amount)
  \/ \E i \in 1..Len(fines) : DueDateComes(i)
  \/ CheckMissionDueDates
  \/ AddInterestOnLoans

\* A game that is over goes on no more, and a failed assertion ends the program.
Next == ~gameover /\ ~failed /\ (Player \/ World)

Spec == Init /\ [][Next]_vars

\* Due dates come, and the world looks at them every day.
FairSpec ==
  /\ Spec
  /\ \A i \in 1..MaxFines :
       WF_vars(~gameover /\ ~failed /\ i <= Len(fines) /\ DueDateComes(i))
  /\ WF_vars(~gameover /\ ~failed /\ CheckMissionDueDates)

-----------------------------------------------------------------------------
(* Properties.                                                             *)

TypeOK ==
  /\ book \in Book
  /\ loan \in [Accounts -> Int]
  /\ opened \in 1..Len(Own)
  /\ current \in 1..opened
  /\ fines \in Seq(PayFine)
  /\ uplinkrating \in 1..MaxRating
  /\ creditrating \in Int
  /\ shares \in 0..MaxShares
  /\ screen \in LoansScreen \cup {None}
  /\ connected \in BOOLEAN
  /\ gameover \in BOOLEAN
  /\ paidin \in Int
  /\ failed \in BOOLEAN

\* Money is neither made nor lost: what is on all accounts, less what is owed
\* for it, is what came in from outside, whatever transfers fail, go from an
\* account to itself, or are made again by a click on a screen left over.
MoneyKept ==
  SumFunctionOnSet([a \in Accounts |-> book.balance[a] - loan[a]], Accounts) = paidin

\* "The player has this long to cover his tracks": when the time is over, a theft
\* of which either bank still has a log has ended the game.
RobberyAnswered ==
  \A a \in Accounts : \A log \in book.logs[a] :
    log.theft => gameover \/ \E r \in book.robberies : r.id = log.id

\* The button that pays all fines asserts that its transfer succeeds and that the
\* fine then is found to be paid; neither fails, though the fine may have to be
\* paid into the account it is paid from.
AssertsHold == ~failed

\* A fine does not stay for ever: it is paid or legal action begins.
FinesEnd ==
  \A k \in 1..MaxMoves :
    (\E i \in 1..Len(fines) : fines[i].since = k)
      ~> (gameover \/ failed \/ \A i \in 1..Len(fines) : fines[i].since # k)

=============================================================================
