----------------------------- MODULE BankProofs -----------------------------
(***************************************************************************)
(* What Bank keeps for any accounts, names, amounts and bounds.            *)
(***************************************************************************)
EXTENDS Bank, FiniteSetTheorems, WellFoundedInduction, SequenceTheorems, TLAPS

-----------------------------------------------------------------------------
(* Induction over numbers and over finite sets, as a least counterexample. *)

LEMMA LeastNumber ==
  ASSUME NEW B, B \subseteq Nat, B # {}
  PROVE  \E n \in B : (\A m \in B : n <= m) /\ (n = 0 \/ n - 1 \notin B)
<1> DEFINE R == {p \in Nat \X Nat : p[1] < p[2]}
<1>1. IsWellFoundedOn(R, Nat)
  <2>1. OpToRel(<, Nat) = R
    BY DEF OpToRel
  <2> QED BY <2>1, NatLessThanWellFounded
<1>2. \E n \in B : \A m \in B : ~ (<<m, n>> \in R)
  <2> HIDE DEF R
  <2> QED BY <1>1, WFMin
<1>3. PICK n \in B : \A m \in B : ~ (<<m, n>> \in R)
  BY <1>2
<1>4. n # 0 => n - 1 \in Nat /\ n - 1 < n
  OBVIOUS
<1>5. \A m \in B : ~(m < n) /\ m \in Nat /\ n \in Nat
  BY <1>3
<1>6. \A m \in B : n <= m
  BY <1>5
<1> QED BY <1>3, <1>4, <1>6

LEMMA LeastSet ==
  ASSUME NEW S, IsFiniteSet(S), NEW B, B \subseteq SUBSET S, B # {}
  PROVE  \E T \in B : IsFiniteSet(T) /\ \A x \in T : T \ {x} \notin B
<1>1. \A T \in B : IsFiniteSet(T)
  BY FS_Subset
<1>2. B \subseteq FiniteSubsetsOf(S)
  BY <1>1 DEF FiniteSubsetsOf
<1>3. IsWellFoundedOn(StrictSubsetOrdering(S), FiniteSubsetsOf(S))
  BY FS_StrictSubsetOrderingWellFounded
<1>4. PICK T \in B : \A U \in B : ~ (<<U, T>> \in StrictSubsetOrdering(S))
  <2>1. \E T \in B : \A U \in B : ~ (<<U, T>> \in StrictSubsetOrdering(S))
    BY <1>2, <1>3, WFMin
  <2> QED BY <2>1
<1>5. ASSUME NEW x \in T, T \ {x} \in B PROVE FALSE
  <2>1. T \ {x} \in SUBSET S /\ T \in SUBSET S /\ T \ {x} \subseteq T /\ T \ {x} # T
    OBVIOUS
  <2>2. <<T \ {x}, T>> \in StrictSubsetOrdering(S)
    BY <2>1 DEF StrictSubsetOrdering
  <2> QED BY <1>4, <1>5, <2>2
<1> QED BY <1>1, <1>4, <1>5

-----------------------------------------------------------------------------
(* Sums of a function over a finite set.                                   *)

One(s) == CHOOSE x \in s : TRUE

\* What the fold makes of s, given what it makes of less.
Turn(f, h, s) == IF s = {} THEN 0 ELSE f[One(s)] + h[s \ {One(s)}]

LEMMA TurnReadsLess ==
  ASSUME NEW f, NEW g, NEW h, NEW s, s # {} => g[s \ {One(s)}] = h[s \ {One(s)}]
  PROVE  Turn(f, g, s) = Turn(f, h, s)
BY DEF Turn

\* Some function satisfies the equation that defines the fold.
LEMMA SumExists ==
  ASSUME NEW f, NEW S, IsFiniteSet(S)
  PROVE  \E h : h = [s \in SUBSET S |-> Turn(f, h, s)]
<1> DEFINE UpTo(n) == \E h : \A s \in SUBSET S : Cardinality(s) <= n => h[s] = Turn(f, h, s)
           B == {n \in Nat : ~UpTo(n)}
<1>1. \A s \in SUBSET S : /\ IsFiniteSet(s) /\ Cardinality(s) \in Nat
                          /\ s # {} => /\ One(s) \in s
                                       /\ s \ {One(s)} \in SUBSET S
                                       /\ Cardinality(s \ {One(s)}) = Cardinality(s) - 1
  BY FS_Subset, FS_CardinalityType, FS_RemoveElement DEF One
<1>2. ASSUME B # {} PROVE FALSE
  <2>1. PICK n \in B : n = 0 \/ n - 1 \notin B
    <3>1. B \subseteq Nat
      OBVIOUS
    <3> HIDE DEF B
    <3> QED BY <1>2, <3>1, LeastNumber
  <2>2. n \in Nat /\ ~UpTo(n)
    OBVIOUS
  <2>3. CASE n = 0
    <3> DEFINE h == [s \in SUBSET S |-> 0]
    <3>1. ASSUME NEW s \in SUBSET S, Cardinality(s) <= 0 PROVE h[s] = Turn(f, h, s)
      <4> HIDE DEF h
      <4>0. IsFiniteSet(s) /\ Cardinality(s) \in Nat
        BY <1>1
      <4>1. Cardinality(s) = 0
        BY <4>0, <3>1
      <4>2. s = {}
        BY <4>0, <4>1, FS_EmptySet
      <4> QED BY <4>2 DEF Turn, h
    <3>2. UpTo(0)
      <4> HIDE DEF h
      <4> QED BY <3>1
    <3> QED BY <2>2, <2>3, <3>2
  <2>4. CASE n # 0
    <3>1. n - 1 \in Nat /\ UpTo(n - 1)
      BY <2>1, <2>2, <2>4
    <3>2. PICK g : \A s \in SUBSET S : Cardinality(s) <= n - 1 => g[s] = Turn(f, g, s)
      BY <3>1
    <3> DEFINE h == [s \in SUBSET S |-> Turn(f, g, s)]
    <3>3. ASSUME NEW s \in SUBSET S, Cardinality(s) <= n PROVE h[s] = Turn(f, h, s)
      <4>1. s # {} => s \ {One(s)} \in SUBSET S /\ Cardinality(s \ {One(s)}) <= n - 1
        BY <1>1, <2>2, <3>3
      <4>2. \A t \in SUBSET S : h[t] = Turn(f, g, t)
        OBVIOUS
      <4> HIDE DEF h
      <4>3. s # {} => h[s \ {One(s)}] = g[s \ {One(s)}]
        BY <3>2, <4>1, <4>2
      <4> QED BY <4>2, <4>3, TurnReadsLess
    <3>4. UpTo(n)
      <4> HIDE DEF h
      <4> QED BY <3>3
    <3> QED BY <2>2, <3>4
  <2> QED BY <2>3, <2>4
<1>3. UpTo(Cardinality(S))
  BY <1>2, FS_CardinalityType
<1>4. PICK g : \A s \in SUBSET S : Cardinality(s) <= Cardinality(S) => g[s] = Turn(f, g, s)
  BY <1>3
<1>5. \A s \in SUBSET S : g[s] = Turn(f, g, s)
  BY <1>4, FS_Subset
<1> DEFINE h == [s \in SUBSET S |-> g[s]]
<1>6. \A s \in SUBSET S : h[s] = g[s]
  OBVIOUS
<1>7. ASSUME NEW s \in SUBSET S PROVE h[s] = Turn(f, h, s)
  <2>1. s # {} => h[s \ {One(s)}] = g[s \ {One(s)}]
    BY <1>1
  <2>2. h[s] = Turn(f, g, s)
    BY <1>5
  <2> HIDE DEF h
  <2> QED BY <2>1, <2>2, TurnReadsLess
<1>8. h = [s \in SUBSET S |-> Turn(f, h, s)]
  <2>1. h = [s \in SUBSET S |-> h[s]]
    OBVIOUS
  <2> HIDE DEF h
  <2> QED BY <1>7, <2>1
<1> HIDE DEF h
<1> QED BY <1>8

\* The function that the fold chooses.
Fold(f, S) == CHOOSE h : h = [s \in SUBSET S |-> Turn(f, h, s)]

LEMMA SumIsFold == ASSUME NEW f, NEW S PROVE SumFunctionOnSet(f, S) = Fold(f, S)[S]
BY DEF SumFunctionOnSet, FoldFunctionOnSet, MapThenFoldSet, Fold, Turn, One

LEMMA FoldDefined ==
  ASSUME NEW f, NEW S, IsFiniteSet(S), NEW s \in SUBSET S
  PROVE  Fold(f, S)[s] = Turn(f, Fold(f, S), s)
<1>1. Fold(f, S) = [t \in SUBSET S |-> Turn(f, Fold(f, S), t)]
  BY SumExists DEF Fold
<1> QED BY <1>1

LEMMA SumDefined ==
  ASSUME NEW f, NEW S, IsFiniteSet(S)
  PROVE  SumFunctionOnSet(f, S) =
           IF S = {} THEN 0 ELSE f[One(S)] + SumFunctionOnSet(f, S \ {One(S)})
<1>1. SumFunctionOnSet(f, S) = Turn(f, Fold(f, S), S)
  BY SumIsFold, FoldDefined
<1>2. CASE S = {}
  BY <1>1, <1>2 DEF Turn
<1>3. CASE S # {}
  <2> DEFINE T == S \ {One(S)}
             B == {s \in SUBSET T : Fold(f, S)[s] # Fold(f, T)[s]}
  <2>1. IsFiniteSet(T)
    BY FS_Subset
  <2>2. ASSUME B # {} PROVE FALSE
    <3>1. B \subseteq SUBSET T
      OBVIOUS
    <3>2. PICK s \in B : \A x \in s : s \ {x} \notin B
      <4> HIDE DEF T, B
      <4> QED BY <2>1, <2>2, <3>1, LeastSet
    <3>3. s \in SUBSET T /\ s \in SUBSET S /\ Fold(f, S)[s] # Fold(f, T)[s]
      OBVIOUS
    <3>4. s # {} => One(s) \in s /\ s \ {One(s)} \in SUBSET T
      BY <3>3 DEF One
    <3>5. s # {} => s \ {One(s)} \notin B
      BY <3>2, <3>4
    <3>6. s # {} => Fold(f, S)[s \ {One(s)}] = Fold(f, T)[s \ {One(s)}]
      BY <3>4, <3>5
    <3>7. Turn(f, Fold(f, S), s) = Turn(f, Fold(f, T), s)
      BY <3>6, TurnReadsLess
    <3>8. Fold(f, S)[s] = Turn(f, Fold(f, S), s) /\ Fold(f, T)[s] = Turn(f, Fold(f, T), s)
      BY <2>1, <3>3, FoldDefined
    <3> QED BY <3>3, <3>7, <3>8
  <2>3. Fold(f, S)[T] = Fold(f, T)[T]
    BY <2>2
  <2>4. SumFunctionOnSet(f, T) = Fold(f, T)[T]
    BY SumIsFold
  <2>5. Turn(f, Fold(f, S), S) = f[One(S)] + Fold(f, S)[T]
    BY <1>3 DEF Turn
  <2> QED BY <1>1, <1>3, <2>3, <2>4, <2>5
<1> QED BY <1>2, <1>3

LEMMA SumType ==
  ASSUME NEW f, NEW S, IsFiniteSet(S), \A x \in S : f[x] \in Int
  PROVE  SumFunctionOnSet(f, S) \in Int
<1> DEFINE B == {s \in SUBSET S : SumFunctionOnSet(f, s) \notin Int}
<1>1. ASSUME B # {} PROVE FALSE
  <2>1. B \subseteq SUBSET S
    OBVIOUS
  <2>2. PICK s \in B : IsFiniteSet(s) /\ \A x \in s : s \ {x} \notin B
    <3> HIDE DEF B
    <3> QED BY <1>1, <2>1, LeastSet
  <2>3. s \in SUBSET S /\ SumFunctionOnSet(f, s) \notin Int
    OBVIOUS
  <2>4. s # {} => One(s) \in s /\ f[One(s)] \in Int /\ s \ {One(s)} \in SUBSET S
    BY <2>3 DEF One
  <2>5. s # {} => SumFunctionOnSet(f, s \ {One(s)}) \in Int
    BY <2>2, <2>4
  <2> QED BY <2>2, <2>3, <2>4, <2>5, SumDefined
<1> QED BY <1>1

LEMMA SumSame ==
  ASSUME NEW f, NEW g, NEW S, IsFiniteSet(S), \A x \in S : f[x] = g[x]
  PROVE  SumFunctionOnSet(f, S) = SumFunctionOnSet(g, S)
<1> DEFINE B == {s \in SUBSET S : SumFunctionOnSet(f, s) # SumFunctionOnSet(g, s)}
<1>1. ASSUME B # {} PROVE FALSE
  <2>1. B \subseteq SUBSET S
    OBVIOUS
  <2>2. PICK s \in B : IsFiniteSet(s) /\ \A x \in s : s \ {x} \notin B
    <3> HIDE DEF B
    <3> QED BY <1>1, <2>1, LeastSet
  <2>3. s \in SUBSET S /\ SumFunctionOnSet(f, s) # SumFunctionOnSet(g, s)
    OBVIOUS
  <2>4. s # {} => One(s) \in s /\ f[One(s)] = g[One(s)] /\ s \ {One(s)} \in SUBSET S
    BY <2>3 DEF One
  <2>5. s # {} => SumFunctionOnSet(f, s \ {One(s)}) = SumFunctionOnSet(g, s \ {One(s)})
    BY <2>2, <2>4
  <2>6. /\ SumFunctionOnSet(f, s) = IF s = {} THEN 0 ELSE f[One(s)] + SumFunctionOnSet(f, s \ {One(s)})
        /\ SumFunctionOnSet(g, s) = IF s = {} THEN 0 ELSE g[One(s)] + SumFunctionOnSet(g, s \ {One(s)})
    BY <2>2, SumDefined
  <2> QED BY <2>3, <2>4, <2>5, <2>6
<1> QED BY <1>1

LEMMA SumRemove ==
  ASSUME NEW f, NEW S, IsFiniteSet(S), \A x \in S : f[x] \in Int, NEW y \in S
  PROVE  SumFunctionOnSet(f, S) = f[y] + SumFunctionOnSet(f, S \ {y})
<1> DEFINE B == {s \in SUBSET S : \E x \in s :
                   SumFunctionOnSet(f, s) # f[x] + SumFunctionOnSet(f, s \ {x})}
<1>1. ASSUME B # {} PROVE FALSE
  <2>1. B \subseteq SUBSET S
    OBVIOUS
  <2>2. PICK s \in B : IsFiniteSet(s) /\ \A x \in s : s \ {x} \notin B
    <3> HIDE DEF B
    <3> QED BY <1>1, <2>1, LeastSet
  <2>3. s \in SUBSET S
    OBVIOUS
  <2>4. PICK x \in s : SumFunctionOnSet(f, s) # f[x] + SumFunctionOnSet(f, s \ {x})
    OBVIOUS
  <2>5. PICK o : o = One(s)
    OBVIOUS
  <2>6. o \in s
    BY <2>5 DEF One
  <2>7. SumFunctionOnSet(f, s) = f[o] + SumFunctionOnSet(f, s \ {o})
    BY <2>2, <2>5, SumDefined
  <2>8. o # x
    BY <2>4, <2>7
  <2>9. /\ s \ {o} \in SUBSET S /\ x \in s \ {o} /\ s \ {o} \notin B
        /\ s \ {x} \in SUBSET S /\ o \in s \ {x} /\ s \ {x} \notin B
    BY <2>2, <2>3, <2>6, <2>8
  <2>10. /\ SumFunctionOnSet(f, s \ {o}) = f[x] + SumFunctionOnSet(f, (s \ {o}) \ {x})
         /\ SumFunctionOnSet(f, s \ {x}) = f[o] + SumFunctionOnSet(f, (s \ {x}) \ {o})
    BY <2>9
  <2>11. (s \ {o}) \ {x} = (s \ {x}) \ {o}
    OBVIOUS
  <2>12. PICK rest \in Int : rest = SumFunctionOnSet(f, (s \ {x}) \ {o})
    <3>1. IsFiniteSet((s \ {x}) \ {o}) /\ \A z \in (s \ {x}) \ {o} : f[z] \in Int
      BY <2>2, <2>3, FS_Subset
    <3> QED BY <3>1, SumType
  <2>13. f[x] \in Int /\ f[o] \in Int
    BY <2>3, <2>4, <2>6
  <2>14. SumFunctionOnSet(f, s \ {x}) = f[o] + rest
    BY <2>10, <2>12
  <2>15. SumFunctionOnSet(f, s) = f[o] + (f[x] + rest)
    BY <2>7, <2>10, <2>11, <2>12
  <2> QED BY <2>4, <2>12, <2>13, <2>14, <2>15
<1> QED BY <1>1

\* Two functions that differ at one point.
LEMMA SumUpdate ==
  ASSUME NEW f, NEW g, NEW S, IsFiniteSet(S), NEW y \in S,
         \A x \in S : f[x] \in Int /\ g[x] \in Int,
         \A x \in S \ {y} : g[x] = f[x]
  PROVE  SumFunctionOnSet(g, S) = SumFunctionOnSet(f, S) + (g[y] - f[y])
<1>1. IsFiniteSet(S \ {y})
  BY FS_Subset
<1>2. SumFunctionOnSet(f, S) = f[y] + SumFunctionOnSet(f, S \ {y})
  BY SumRemove
<1>3. SumFunctionOnSet(g, S) = g[y] + SumFunctionOnSet(g, S \ {y})
  BY SumRemove
<1>4. SumFunctionOnSet(g, S \ {y}) = SumFunctionOnSet(f, S \ {y})
  BY <1>1, SumSame
<1>5. SumFunctionOnSet(f, S \ {y}) \in Int /\ f[y] \in Int /\ g[y] \in Int
  BY <1>1, SumType
<1> QED BY <1>2, <1>3, <1>4, <1>5

LEMMA SumAdded ==
  ASSUME NEW f, NEW g, NEW h, NEW S, IsFiniteSet(S),
         \A x \in S : f[x] \in Int /\ g[x] \in Int /\ h[x] = f[x] + g[x]
  PROVE  SumFunctionOnSet(h, S) = SumFunctionOnSet(f, S) + SumFunctionOnSet(g, S)
<1> DEFINE B == {s \in SUBSET S :
                   SumFunctionOnSet(h, s) # SumFunctionOnSet(f, s) + SumFunctionOnSet(g, s)}
<1>1. ASSUME B # {} PROVE FALSE
  <2>1. B \subseteq SUBSET S
    OBVIOUS
  <2>2. PICK s \in B : IsFiniteSet(s) /\ \A x \in s : s \ {x} \notin B
    <3> HIDE DEF B
    <3> QED BY <1>1, <2>1, LeastSet
  <2>3. s \in SUBSET S
        /\ SumFunctionOnSet(h, s) # SumFunctionOnSet(f, s) + SumFunctionOnSet(g, s)
    OBVIOUS
  <2>5. /\ SumFunctionOnSet(f, s) = IF s = {} THEN 0 ELSE f[One(s)] + SumFunctionOnSet(f, s \ {One(s)})
        /\ SumFunctionOnSet(g, s) = IF s = {} THEN 0 ELSE g[One(s)] + SumFunctionOnSet(g, s \ {One(s)})
        /\ SumFunctionOnSet(h, s) = IF s = {} THEN 0 ELSE h[One(s)] + SumFunctionOnSet(h, s \ {One(s)})
    BY <2>2, SumDefined
  <2>6. s # {}
    BY <2>3, <2>5
  <2>7. PICK o : o = One(s)
    OBVIOUS
  <2>8. o \in s
    BY <2>6, <2>7 DEF One
  <2>9. s \ {o} \in SUBSET S /\ s \ {o} \notin B /\ IsFiniteSet(s \ {o})
    BY <2>2, <2>3, <2>8, FS_Subset
  <2>10. SumFunctionOnSet(h, s \ {o})
           = SumFunctionOnSet(f, s \ {o}) + SumFunctionOnSet(g, s \ {o})
    BY <2>9
  <2>11. f[o] \in Int /\ g[o] \in Int /\ h[o] = f[o] + g[o]
    BY <2>3, <2>8
  <2>12. SumFunctionOnSet(f, s \ {o}) \in Int /\ SumFunctionOnSet(g, s \ {o}) \in Int
    <3>1. \A x \in s \ {o} : f[x] \in Int /\ g[x] \in Int
      BY <2>3
    <3> QED BY <2>9, <3>1, SumType
  <2> HIDE DEF B
  <2> QED BY <2>3, <2>5, <2>6, <2>7, <2>10, <2>11, <2>12
<1> QED BY <1>1

-----------------------------------------------------------------------------
(* The invariant.                                                          *)

\* What is on all accounts, less what is owed for it.
Total(b, owed) ==
  SumFunctionOnSet([a \in Accounts |-> b.balance[a] - owed[a]], Accounts)

\* Ids are handed out once, and of the logs and robbery events of one id the
\* log is one of the two the event will look for.
Linked(b) ==
  /\ \A r \in b.robberies : r.id <= b.made
  /\ \A a \in Accounts : \A log \in b.logs[a] :
       /\ log.id <= b.made
       /\ \A r \in b.robberies : r.id = log.id =>
            /\ log.amount = r.amount
            /\ \/ a = r.source /\ log.type = "TRANSFERTO" /\ log.other = r.target
               \/ a = r.target /\ log.type = "TRANSFERFROM" /\ log.other = r.source

\* For every log of a theft that is left there is its robbery event to come.
Answered(b) ==
  \A a \in Accounts : \A log \in b.logs[a] :
    log.theft => \E r \in b.robberies : r.id = log.id

\* Fines are to be paid into accounts that exist by now, and are not zero.
FinesSound(list) ==
  \A i \in 1..Len(list) : Exists(list[i].account) /\ list[i].amount > 0

\* The inductive invariant.
IInv ==
  /\ TypeOK
  /\ Linked(book)
  /\ FinesSound(fines)
  /\ RobberyAnswered
  /\ AssertsHold
  /\ MoneyKept

-----------------------------------------------------------------------------
(* Accounts.                                                               *)

LEMMA AccountsFinite == IsFiniteSet(Accounts)
<1>1. Own \in Seq(Accounts) /\ Len(Own) \in Nat /\ DOMAIN Own = 1..Len(Own)
  BY ConstantsAssumption
<1>2. Own \in Surjection(1..Len(Own), ToSet(Own))
  <2>1. Own \in [1..Len(Own) -> ToSet(Own)]
    BY <1>1 DEF ToSet
  <2> QED BY <1>1, <2>1 DEF Surjection, ToSet
<1>3. IsFiniteSet(1..Len(Own))
  BY <1>1, FS_Interval
<1>4. IsFiniteSet(ToSet(Own))
  BY <1>2, <1>3, FS_Surjection
<1> QED BY <1>4, ConstantsAssumption, FS_Union DEF Accounts

\* The first accounts of Own.
LEMMA OpenedAccounts ==
  ASSUME NEW n \in 1..Len(Own)
  PROVE  \A i \in 1..n : Own[i] \in ToSet(SubSeq(Own, 1, n))
<1>1. Own \in Seq(Accounts) /\ Len(Own) \in Nat
  BY ConstantsAssumption
<1>2. /\ SubSeq(Own, 1, n) \in Seq(Accounts) /\ Len(SubSeq(Own, 1, n)) = n
      /\ \A i \in 1..n : SubSeq(Own, 1, n)[i] = Own[i]
  <2>1. /\ SubSeq(Own, 1, n) \in Seq(Accounts)
        /\ Len(SubSeq(Own, 1, n)) = IF 1 <= n THEN n - 1 + 1 ELSE 0
        /\ \A i \in 1..(n - 1 + 1) : SubSeq(Own, 1, n)[i] = Own[1 + i - 1]
    BY <1>1, SubSeqProperties
  <2>2. n \in Int /\ 1 <= n /\ n - 1 + 1 = n /\ \A i \in 1..n : 1 + i - 1 = i
    BY <1>1
  <2> QED BY <2>1, <2>2
<1>3. DOMAIN SubSeq(Own, 1, n) = 1..n
  BY <1>2
<1> QED BY <1>2, <1>3 DEF ToSet

\* The player's accounts are the first ones of Own.
LEMMA PlayerAccounts ==
  ASSUME opened \in 1..Len(Own)
  PROVE  /\ \A i \in 1..opened : accounts[i] = Own[i] /\ Own[i] \in ToSet(accounts)
         /\ \A a \in ToSet(accounts) : \E i \in 1..opened : a = Own[i]
         /\ ToSet(accounts) \subseteq Accounts
         /\ ToSet(accounts) \cap Others = {}
         /\ IsFiniteSet(ToSet(accounts))
<1>1. Own \in Seq(Accounts) /\ Len(Own) \in Nat /\ DOMAIN Own = 1..Len(Own)
  BY ConstantsAssumption
<1>2. \A i \in 1..opened : Own[i] \in Accounts /\ Own[i] \in ToSet(Own)
  BY <1>1 DEF ToSet
<1>3. /\ accounts \in Seq(Accounts) /\ Len(accounts) = opened
      /\ \A i \in 1..opened : accounts[i] = Own[i]
  <2>1. 1 \in Int /\ opened \in Int /\ 1 <= opened
    BY <1>1
  <2>2. /\ SubSeq(Own, 1, opened) \in Seq(Accounts)
        /\ Len(SubSeq(Own, 1, opened)) = IF 1 <= opened THEN opened - 1 + 1 ELSE 0
        /\ \A i \in 1..(opened - 1 + 1) : SubSeq(Own, 1, opened)[i] = Own[1 + i - 1]
    BY <1>2, <2>1, SubSeqProperties
  <2>3. \A i \in 1..opened : 1 + i - 1 = i
    OBVIOUS
  <2>4. opened - 1 + 1 = opened
    BY <2>1
  <2> QED BY <2>1, <2>2, <2>3, <2>4 DEF accounts
<1>4. DOMAIN accounts = 1..opened
  BY <1>3
<1>5. ToSet(accounts) = {accounts[i] : i \in 1..opened}
  BY <1>4 DEF ToSet
<1>6. ToSet(accounts) \subseteq ToSet(Own) /\ ToSet(accounts) \subseteq Accounts
  BY <1>2, <1>3, <1>5
<1>7. IsFiniteSet(ToSet(accounts))
  BY <1>6, AccountsFinite, FS_Subset
<1>8. ToSet(Own) \cap Others = {}
  BY ConstantsAssumption
<1>9. \A i \in 1..opened : Own[i] \in ToSet(accounts)
  BY <1>3, <1>5
<1>10. \A a \in ToSet(accounts) : \E i \in 1..opened : a = Own[i]
  BY <1>3, <1>5
<1> QED BY <1>3, <1>6, <1>7, <1>8, <1>9, <1>10

LEMMA BookFields ==
  ASSUME NEW b \in Book
  PROVE  /\ b.balance \in [Accounts -> Int]
         /\ b.logs \in [Accounts -> SUBSET Log]
         /\ b.robberies \in SUBSET Robbery
         /\ b.made \in Nat
BY DEF Book

LEMMA BalanceType ==
  ASSUME opened \in 1..Len(Own), book \in Book
  PROVE  GetBalance(book) \in Int
<1>1. \A a \in ToSet(accounts) : book.balance[a] \in Int
  BY PlayerAccounts, BookFields
<1> QED BY <1>1, PlayerAccounts, SumType DEF GetBalance

-----------------------------------------------------------------------------
(* Sums of money.                                                          *)

LEMMA TotalType ==
  ASSUME NEW b \in Book, NEW owed \in [Accounts -> Int]
  PROVE  Total(b, owed) \in Int
<1> DEFINE net == [a \in Accounts |-> b.balance[a] - owed[a]]
<1>1. \A a \in Accounts : net[a] \in Int
  BY BookFields
<1> HIDE DEF net
<1>2. SumFunctionOnSet(net, Accounts) \in Int
  BY <1>1, AccountsFinite, SumType
<1> QED BY <1>2 DEF Total, net

\* One account gets an amount from outside.
LEMMA TotalCharged ==
  ASSUME NEW b \in Book, NEW c \in Book, NEW owed \in [Accounts -> Int],
         NEW y \in Accounts, NEW amount \in Int,
         c.balance = [b.balance EXCEPT ![y] = @ + amount]
  PROVE  Total(c, owed) = Total(b, owed) + amount
<1> DEFINE f == [a \in Accounts |-> b.balance[a] - owed[a]]
           g == [a \in Accounts |-> c.balance[a] - owed[a]]
<1>1. \A a \in Accounts : b.balance[a] \in Int /\ c.balance[a] \in Int /\ owed[a] \in Int
  BY BookFields
<1>2. \A a \in Accounts : c.balance[a] = IF a = y THEN b.balance[y] + amount ELSE b.balance[a]
  BY BookFields
<1>3. \A a \in Accounts : f[a] \in Int /\ g[a] \in Int
  BY <1>1
<1>4. \A a \in Accounts \ {y} : g[a] = f[a]
  BY <1>2
<1>5. g[y] - f[y] = amount
  BY <1>1, <1>2
<1> HIDE DEF f, g
<1>6. SumFunctionOnSet(g, Accounts) = SumFunctionOnSet(f, Accounts) + (g[y] - f[y])
  BY <1>3, <1>4, AccountsFinite, SumUpdate
<1> QED BY <1>5, <1>6 DEF Total, f, g

\* On each account as much is put as on its loan.
LEMMA TotalBorrowed ==
  ASSUME NEW b, NEW c, NEW owed, NEW owes,
         \A a \in Accounts : c.balance[a] - owes[a] = b.balance[a] - owed[a]
  PROVE  Total(c, owes) = Total(b, owed)
<1> DEFINE f == [a \in Accounts |-> b.balance[a] - owed[a]]
           g == [a \in Accounts |-> c.balance[a] - owes[a]]
<1>1. \A a \in Accounts : g[a] = f[a]
  OBVIOUS
<1> HIDE DEF f, g
<1>2. SumFunctionOnSet(g, Accounts) = SumFunctionOnSet(f, Accounts)
  BY <1>1, AccountsFinite, SumSame
<1> QED BY <1>2 DEF Total, f, g

\* The loans grow.
LEMMA TotalInterest ==
  ASSUME NEW b \in Book, NEW c \in Book, NEW owed \in [Accounts -> Int],
         NEW amountpaid \in [Accounts -> Int], c.balance = b.balance
  PROVE  Total(c, [a \in Accounts |-> owed[a] + amountpaid[a]])
           = Total(b, owed) - SumFunctionOnSet(amountpaid, Accounts)
<1> DEFINE owes == [a \in Accounts |-> owed[a] + amountpaid[a]]
           f == [a \in Accounts |-> b.balance[a] - owed[a]]
           g == [a \in Accounts |-> c.balance[a] - owes[a]]
<1>1. \A a \in Accounts : b.balance[a] \in Int /\ owed[a] \in Int /\ amountpaid[a] \in Int
  BY BookFields
<1>2. \A a \in Accounts : /\ g[a] \in Int /\ f[a] = g[a] + amountpaid[a]
  BY <1>1
<1>3. owes \in [Accounts -> Int]
  BY <1>1
<1>4. Total(c, owes) \in Int /\ SumFunctionOnSet(amountpaid, Accounts) \in Int
  <2> HIDE DEF owes, f, g
  <2> QED BY <1>1, <1>3, AccountsFinite, TotalType, SumType
<1>5. Total(b, owed) = SumFunctionOnSet(f, Accounts) /\ Total(c, owes) = SumFunctionOnSet(g, Accounts)
  BY DEF Total
<1> HIDE DEF f, g, owes
<1>6. SumFunctionOnSet(f, Accounts)
        = SumFunctionOnSet(g, Accounts) + SumFunctionOnSet(amountpaid, Accounts)
  BY <1>1, <1>2, AccountsFinite, SumAdded
<1>7. Total(c, owes) = Total(b, owed) - SumFunctionOnSet(amountpaid, Accounts)
  BY <1>4, <1>5, <1>6
<1> QED BY <1>7 DEF owes

\* Money goes from one account to another, which may be the same.
LEMMA TotalMoved ==
  ASSUME NEW b \in Book, NEW c \in Book, NEW owed \in [Accounts -> Int],
         NEW source \in Accounts, NEW target \in Accounts, NEW amount \in Int,
         c.balance = [[b.balance EXCEPT ![source] = @ - amount] EXCEPT ![target] = @ + amount]
  PROVE  Total(c, owed) = Total(b, owed)
<1>1. PICK mid \in [Accounts -> Int] : mid = [b.balance EXCEPT ![source] = @ + (-amount)]
  <2>1. b.balance \in [Accounts -> Int] /\ b.balance[source] + (-amount) \in Int
    BY BookFields
  <2>2. [b.balance EXCEPT ![source] = @ + (-amount)] \in [Accounts -> Int]
    BY <2>1
  <2> QED BY <2>2
<1>2. PICK m \in Book : m.balance = mid
  <2> DEFINE m == [balance |-> mid, logs |-> b.logs, robberies |-> b.robberies, made |-> b.made]
  <2>1. m \in Book /\ m.balance = mid
    BY BookFields DEF Book
  <2> QED BY <2>1
<1>3. Total(m, owed) = Total(b, owed) + (-amount)
  BY <1>1, <1>2, TotalCharged
<1>4. c.balance = [m.balance EXCEPT ![target] = @ + amount]
  <2>1. b.balance[source] - amount = b.balance[source] + (-amount)
    BY BookFields
  <2>2. [b.balance EXCEPT ![source] = @ - amount] = mid
    BY <1>1, <2>1
  <2> QED BY <1>2, <2>2
<1>5. Total(c, owed) = Total(m, owed) + amount
  BY <1>4, TotalCharged
<1> QED BY <1>3, <1>5, TotalType

-----------------------------------------------------------------------------
(* Transfers.                                                              *)

\* Whether a transfer is a theft.
IsTheft(source, target, byplayer) ==
  byplayer /\ ~IsPlayerAccount(source) /\ IsPlayerAccount(target)

\* The log of the next transfer.
NextLog(b, type, other, amount, theft) ==
  [id |-> b.made + 1, type |-> type, other |-> other, amount |-> amount, theft |-> theft]

\* The book in which only the id and, of a theft, the event are new.
Seen(b, source, target, amount, theft) ==
  IF theft
  THEN [b EXCEPT !.made = b.made + 1,
                 !.robberies = @ \cup {[id |-> b.made + 1, source |-> source,
                                        target |-> target, amount |-> amount]}]
  ELSE [b EXCEPT !.made = b.made + 1]

LEMMA TransferUnfolded ==
  ASSUME NEW b, NEW source, NEW target, NEW amount, NEW byplayer
  PROVE  LET theft == IsTheft(source, target, byplayer)
             seen == Seen(b, source, target, amount, theft)
             paid == [b.balance EXCEPT ![source] = @ - amount]
             told == [b.logs EXCEPT ![source] = @ \cup
                        {NextLog(b, "TRANSFERTO", target, amount, theft)}]
         IN TransferMoney(b, source, target, amount, byplayer) =
              IF ~Transfers(b, source, target, amount) THEN seen
              ELSE [seen EXCEPT
                      !.balance = [paid EXCEPT ![target] = @ + amount],
                      !.logs = [told EXCEPT ![target] = @ \cup
                                  {NextLog(b, "TRANSFERFROM", source, amount, theft)}]]
BY DEF TransferMoney, IsTheft, NextLog, Seen

\* c is what a transfer makes of the book b.
IsTransfer(b, c, source, target, amount, theft) ==
  /\ c = [balance |-> c.balance, logs |-> c.logs, robberies |-> c.robberies, made |-> c.made]
  /\ c.made = b.made + 1
  /\ c.robberies = IF theft THEN b.robberies \cup
                     {[id |-> b.made + 1, source |-> source, target |-> target,
                       amount |-> amount]}
                   ELSE b.robberies
  /\ ~Transfers(b, source, target, amount) => c.balance = b.balance /\ c.logs = b.logs
  /\ Transfers(b, source, target, amount) =>
       /\ c.balance = [[b.balance EXCEPT ![source] = @ - amount]
                                  EXCEPT ![target] = @ + amount]
       /\ c.logs = [[b.logs EXCEPT ![source] = @ \cup
                       {NextLog(b, "TRANSFERTO", target, amount, theft)}]
                            EXCEPT ![target] = @ \cup
                       {NextLog(b, "TRANSFERFROM", source, amount, theft)}]

\* What TransferMoney does to the fields of a book.
LEMMA TransferFields ==
  ASSUME NEW b \in Book, NEW source, NEW target, NEW amount, NEW byplayer
  PROVE  IsTransfer(b, TransferMoney(b, source, target, amount, byplayer),
                    source, target, amount, IsTheft(source, target, byplayer))
<1> DEFINE c == TransferMoney(b, source, target, amount, byplayer)
           theft == IsTheft(source, target, byplayer)
<1> SUFFICES IsTransfer(b, c, source, target, amount, theft)
  OBVIOUS
<1>0. /\ theft \in BOOLEAN
      /\ ~Transfers(b, source, target, amount) => c = Seen(b, source, target, amount, theft)
      /\ Transfers(b, source, target, amount) =>
           c = [Seen(b, source, target, amount, theft) EXCEPT
                  !.balance = [[b.balance EXCEPT ![source] = @ - amount]
                                          EXCEPT ![target] = @ + amount],
                  !.logs = [[b.logs EXCEPT ![source] = @ \cup
                               {NextLog(b, "TRANSFERTO", target, amount, theft)}]
                                    EXCEPT ![target] = @ \cup
                               {NextLog(b, "TRANSFERFROM", source, amount, theft)}]]
  BY TransferUnfolded DEF IsTheft, IsPlayerAccount
<1> HIDE DEF c, theft
<1>1. PICK B, L, R, n : b = [balance |-> B, logs |-> L, robberies |-> R, made |-> n]
  BY DEF Book
<1>2. PICK seen : seen = Seen(b, source, target, amount, theft)
  OBVIOUS
<1>3. PICK r : r = [id |-> n + 1, source |-> source, target |-> target, amount |-> amount]
  OBVIOUS
<1>4. PICK rob : rob = IF theft THEN R \cup {r} ELSE R
  OBVIOUS
<1>5. /\ b.balance = B /\ b.logs = L /\ b.robberies = R /\ b.made = n
  BY <1>1
<1>6. seen = [balance |-> B, logs |-> L, robberies |-> rob, made |-> n + 1]
  <2>1. CASE theft
    <3>1. seen = [b EXCEPT !.made = n + 1, !.robberies = @ \cup {r}]
      BY <1>2, <1>3, <1>5, <2>1 DEF Seen
    <3> QED BY <1>1, <1>4, <2>1, <3>1
  <2>2. CASE ~theft
    <3>1. seen = [b EXCEPT !.made = n + 1]
      BY <1>2, <1>5, <2>2 DEF Seen
    <3> QED BY <1>1, <1>4, <2>2, <3>1
  <2> QED BY <2>1, <2>2
<1>7. rob = IF theft THEN b.robberies \cup
                            {[id |-> b.made + 1, source |-> source, target |-> target,
                              amount |-> amount]}
                     ELSE b.robberies
  BY <1>3, <1>4, <1>5
<1>8. CASE ~Transfers(b, source, target, amount)
  <2>1. c = seen
    BY <1>0, <1>2, <1>8
  <2> QED BY <1>5, <1>6, <1>7, <1>8, <2>1 DEF IsTransfer
<1>9. CASE Transfers(b, source, target, amount)
  <2>1. PICK logto, logfrom : /\ logto = NextLog(b, "TRANSFERTO", target, amount, theft)
                              /\ logfrom = NextLog(b, "TRANSFERFROM", source, amount, theft)
    OBVIOUS
  <2>3. PICK B2 : B2 = [[b.balance EXCEPT ![source] = @ - amount] EXCEPT ![target] = @ + amount]
    OBVIOUS
  <2>4. PICK L2 : L2 = [[b.logs EXCEPT ![source] = @ \cup {logto}]
                                EXCEPT ![target] = @ \cup {logfrom}]
    OBVIOUS
  <2>5. c = [seen EXCEPT !.balance = B2, !.logs = L2]
    BY <1>0, <1>2, <1>9, <2>1, <2>3, <2>4
  <2>6. c = [balance |-> B2, logs |-> L2, robberies |-> rob, made |-> n + 1]
    BY <1>6, <2>5
  <2>7. /\ c.balance = B2 /\ c.logs = L2 /\ c.robberies = rob /\ c.made = n + 1
        /\ c = [balance |-> c.balance, logs |-> c.logs, robberies |-> c.robberies,
                made |-> c.made]
    BY <2>6
  <2>8. c.logs = [[b.logs EXCEPT ![source] = @ \cup
                     {NextLog(b, "TRANSFERTO", target, amount, theft)}]
                          EXCEPT ![target] = @ \cup
                     {NextLog(b, "TRANSFERFROM", source, amount, theft)}]
    BY <2>1, <2>4, <2>7
  <2> QED BY <1>5, <1>7, <1>9, <2>3, <2>7, <2>8 DEF IsTransfer
<1> QED BY <1>8, <1>9

\* A book that keeps its types, ids and answers.
Sound(b) == b \in Book /\ Linked(b) /\ Answered(b)

LEMMA TransferType ==
  ASSUME NEW b \in Book, NEW source \in Accounts, NEW target \in Accounts,
         NEW amount \in Int, NEW byplayer \in BOOLEAN
  PROVE  TransferMoney(b, source, target, amount, byplayer) \in Book
<1> DEFINE c == TransferMoney(b, source, target, amount, byplayer)
           theft == IsTheft(source, target, byplayer)
<1>2. theft \in BOOLEAN
  BY DEF IsTheft, IsPlayerAccount
<1>0. IsTransfer(b, c, source, target, amount, theft)
  BY TransferFields DEF Sound
<1> HIDE DEF c, theft
<1>3. /\ c = [balance |-> c.balance, logs |-> c.logs, robberies |-> c.robberies, made |-> c.made]
      /\ c.made = b.made + 1
  BY <1>0 DEF IsTransfer
<1>4. c.robberies \subseteq Robbery
  <2>1. [id |-> b.made + 1, source |-> source, target |-> target, amount |-> amount] \in Robbery
    BY BookFields DEF Robbery
  <2>2. c.robberies = IF theft THEN b.robberies \cup
          {[id |-> b.made + 1, source |-> source, target |-> target, amount |-> amount]}
          ELSE b.robberies
    BY <1>0 DEF IsTransfer
  <2> QED BY <2>1, <2>2, BookFields
<1>5. c.balance \in [Accounts -> Int] /\ c.logs \in [Accounts -> SUBSET Log]
  <2>1. CASE ~Transfers(b, source, target, amount)
    <3>1. c.balance = b.balance /\ c.logs = b.logs
      BY <1>0, <2>1 DEF IsTransfer
    <3> QED BY <3>1, BookFields
  <2>2. CASE Transfers(b, source, target, amount)
    <3>1. PICK logto, logfrom : /\ logto = NextLog(b, "TRANSFERTO", target, amount, theft)
                                /\ logfrom = NextLog(b, "TRANSFERFROM", source, amount, theft)
      OBVIOUS
    <3>2. logto \in Log /\ logfrom \in Log
      <4>1. b.made + 1 \in Nat
        BY BookFields
      <4> QED BY <1>2, <3>1, <4>1 DEF Log, NextLog
    <3>3. /\ c.balance = [[b.balance EXCEPT ![source] = @ - amount]
                                      EXCEPT ![target] = @ + amount]
          /\ c.logs = [[b.logs EXCEPT ![source] = @ \cup {logto}]
                               EXCEPT ![target] = @ \cup {logfrom}]
      BY <1>0, <2>2, <3>1 DEF IsTransfer
    <3>4. PICK B1 : B1 = [b.balance EXCEPT ![source] = @ - amount]
      OBVIOUS
    <3>5. B1 \in [Accounts -> Int]
      <4>1. b.balance \in [Accounts -> Int] /\ b.balance[source] - amount \in Int
        BY BookFields
      <4> QED BY <3>4, <4>1
    <3>6. PICK L1 : L1 = [b.logs EXCEPT ![source] = @ \cup {logto}]
      OBVIOUS
    <3>7. L1 \in [Accounts -> SUBSET Log]
      <4>1. b.logs \in [Accounts -> SUBSET Log] /\ b.logs[source] \cup {logto} \in SUBSET Log
        BY <3>2, BookFields
      <4> QED BY <3>6, <4>1
    <3>8. c.balance = [B1 EXCEPT ![target] = @ + amount] /\ B1[target] + amount \in Int
      BY <3>3, <3>4, <3>5
    <3>9. c.logs = [L1 EXCEPT ![target] = @ \cup {logfrom}] /\ L1[target] \cup {logfrom} \in SUBSET Log
      BY <3>2, <3>3, <3>6, <3>7
    <3> QED BY <3>5, <3>7, <3>8, <3>9
  <2> QED BY <2>1, <2>2
<1>6. c.made \in Nat
  BY <1>3, BookFields
<1> QED BY <1>3, <1>4, <1>5, <1>6 DEF Book, c

\* The only new logs are those of the transfer, on its two accounts.
LEMMA TransferLogs ==
  ASSUME NEW b \in Book, NEW source \in Accounts, NEW target \in Accounts,
         NEW amount \in Int, NEW byplayer \in BOOLEAN, NEW a \in Accounts,
         NEW log \in TransferMoney(b, source, target, amount, byplayer).logs[a]
  PROVE  LET theft == IsTheft(source, target, byplayer)
         IN \/ log \in b.logs[a]
            \/ a = source /\ log = NextLog(b, "TRANSFERTO", target, amount, theft)
            \/ a = target /\ log = NextLog(b, "TRANSFERFROM", source, amount, theft)
<1> DEFINE c == TransferMoney(b, source, target, amount, byplayer)
           theft == IsTheft(source, target, byplayer)
<1>1. log \in c.logs[a]
  OBVIOUS
<1>0. IsTransfer(b, c, source, target, amount, theft)
  BY TransferFields
<1> HIDE DEF c, theft
<1>2. CASE ~Transfers(b, source, target, amount)
  <2>1. c.logs = b.logs
    BY <1>0, <1>2 DEF IsTransfer
  <2> QED BY <1>1, <2>1
<1>3. CASE Transfers(b, source, target, amount)
  <2>1. PICK logto, logfrom : /\ logto = NextLog(b, "TRANSFERTO", target, amount, theft)
                              /\ logfrom = NextLog(b, "TRANSFERFROM", source, amount, theft)
    OBVIOUS
  <2>2. c.logs = [[b.logs EXCEPT ![source] = @ \cup {logto}] EXCEPT ![target] = @ \cup {logfrom}]
    BY <1>0, <1>3, <2>1 DEF IsTransfer
  <2>3. PICK L1 : L1 = [b.logs EXCEPT ![source] = @ \cup {logto}]
    OBVIOUS
  <2>4. /\ DOMAIN L1 = Accounts
        /\ \A x \in Accounts : L1[x] = IF x = source THEN b.logs[x] \cup {logto} ELSE b.logs[x]
    BY <2>3, BookFields
  <2>5. \A x \in Accounts : c.logs[x] = IF x = target THEN L1[x] \cup {logfrom} ELSE L1[x]
    BY <2>2, <2>3, <2>4
  <2> QED BY <1>1, <2>1, <2>4, <2>5 DEF theft
<1> QED BY <1>2, <1>3 DEF theft

\* A transfer keeps the book sound and its total.
LEMMA TransferKeeps ==
  ASSUME NEW b, Sound(b), NEW source \in Accounts, NEW target \in Accounts,
         NEW amount \in Int, NEW byplayer \in BOOLEAN, NEW owed \in [Accounts -> Int]
  PROVE  LET c == TransferMoney(b, source, target, amount, byplayer)
         IN /\ Sound(c)
            /\ c.made = b.made + 1
            /\ Total(c, owed) = Total(b, owed)
<1> DEFINE c == TransferMoney(b, source, target, amount, byplayer)
           theft == IsTheft(source, target, byplayer)
<1>1. b \in Book /\ c \in Book
  BY TransferType DEF Sound
<1>2. theft \in BOOLEAN
  BY DEF IsTheft, IsPlayerAccount
<1>0. IsTransfer(b, c, source, target, amount, theft)
  BY TransferFields DEF Sound
<1> HIDE DEF c, theft
<1>3. PICK new : new = [id |-> b.made + 1, source |-> source, target |-> target, amount |-> amount]
  OBVIOUS
<1>4. /\ c.made = b.made + 1 /\ b.made \in Nat
      /\ c.robberies = IF theft THEN b.robberies \cup {new} ELSE b.robberies
  <2>1. b.made \in Nat
    BY <1>1, BookFields
  <2>2. /\ c.made = b.made + 1
        /\ c.robberies = IF theft THEN b.robberies \cup {new} ELSE b.robberies
    BY <1>0, <1>1, <1>3 DEF IsTransfer
  <2> QED BY <2>1, <2>2
<1>5. /\ new.id = b.made + 1 /\ new.source = source /\ new.target = target /\ new.amount = amount
  BY <1>3
<1>6. \A r \in b.robberies : r.id \in Nat /\ r.id <= b.made
  BY <1>1, BookFields DEF Sound, Linked, Robbery
<1>7. \A a \in Accounts : \A log \in b.logs[a] : log.id \in Nat /\ log.id <= b.made
  <2>1. \A a \in Accounts : b.logs[a] \subseteq Log
    BY <1>1, BookFields
  <2> QED BY <2>1 DEF Sound, Linked, Log
<1>8. ASSUME NEW a \in Accounts, NEW log \in c.logs[a], log \notin b.logs[a]
      PROVE  /\ log.id = b.made + 1 /\ log.amount = amount /\ log.theft = theft
             /\ \/ a = source /\ log.type = "TRANSFERTO" /\ log.other = target
                \/ a = target /\ log.type = "TRANSFERFROM" /\ log.other = source
  <2>1. \/ a = source /\ log = NextLog(b, "TRANSFERTO", target, amount, theft)
        \/ a = target /\ log = NextLog(b, "TRANSFERFROM", source, amount, theft)
    BY <1>1, <1>8, TransferLogs, Zenon DEF c, theft
  <2> QED BY <2>1 DEF NextLog
<1>9. Linked(c)
  <2>1. \A r \in c.robberies : r.id <= c.made
    BY <1>4, <1>5, <1>6
  <2>2. ASSUME NEW a \in Accounts, NEW log \in c.logs[a]
        PROVE  /\ log.id <= c.made
               /\ \A r \in c.robberies : r.id = log.id =>
                    /\ log.amount = r.amount
                    /\ \/ a = r.source /\ log.type = "TRANSFERTO" /\ log.other = r.target
                       \/ a = r.target /\ log.type = "TRANSFERFROM" /\ log.other = r.source
    <3>1. CASE log \in b.logs[a]
      <4>1. log.id \in Nat /\ log.id <= b.made
        BY <1>7, <3>1
      <4>2. \A r \in c.robberies : r.id = log.id => r \in b.robberies
        BY <1>4, <1>5, <4>1
      <4> QED BY <1>4, <3>1, <4>1, <4>2 DEF Sound, Linked
    <3>2. CASE log \notin b.logs[a]
      <4>1. log.id = b.made + 1
        BY <1>8, <3>2
      <4>2. \A r \in c.robberies : r.id = log.id => r = new
        BY <1>4, <1>6, <4>1
      <4>3. log.id <= c.made
        BY <1>4, <4>1
      <4> QED BY <1>5, <1>8, <3>2, <4>2, <4>3
    <3> QED BY <3>1, <3>2
  <2> QED BY <2>1, <2>2 DEF Linked
<1>10. Answered(c)
  <2>1. ASSUME NEW a \in Accounts, NEW log \in c.logs[a], log.theft
        PROVE  \E r \in c.robberies : r.id = log.id
    <3>1. CASE log \in b.logs[a]
      <4>1. \E r \in b.robberies : r.id = log.id
        BY <2>1, <3>1 DEF Sound, Answered
      <4> QED BY <1>4, <4>1
    <3>2. CASE log \notin b.logs[a]
      <4>1. log.id = b.made + 1 /\ theft
        BY <1>8, <2>1, <3>2
      <4> QED BY <1>4, <1>5, <4>1
    <3> QED BY <3>1, <3>2
  <2> QED BY <2>1 DEF Answered
<1>11. Total(c, owed) = Total(b, owed)
  <2>1. CASE ~Transfers(b, source, target, amount)
    <3>1. c.balance = b.balance
      BY <1>0, <1>1, <2>1 DEF IsTransfer
    <3> QED BY <3>1 DEF Total
  <2>2. CASE Transfers(b, source, target, amount)
    <3>1. c.balance = [[b.balance EXCEPT ![source] = @ - amount] EXCEPT ![target] = @ + amount]
      BY <1>0, <1>1, <2>2 DEF IsTransfer
    <3> QED BY <1>1, <3>1, TotalMoved
  <2> QED BY <2>1, <2>2
<1> QED BY <1>1, <1>4, <1>9, <1>10, <1>11 DEF Sound, c

-----------------------------------------------------------------------------
(* Paying the fines.                                                       *)

Done == [book: Book, money: Int, left: Seq(PayFine), stopped: BOOLEAN, failed: BOOLEAN]

\* What holds while the button goes through the fines.
DoneOK(done) == done \in Done /\ Sound(done.book) /\ FinesSound(done.left) /\ ~done.failed

\* A fine more at the end of the list.
LEMMA AppendFine ==
  ASSUME NEW list \in Seq(PayFine), FinesSound(list),
         NEW fine \in PayFine, Exists(fine.account), fine.amount > 0
  PROVE  Append(list, fine) \in Seq(PayFine) /\ FinesSound(Append(list, fine))
<1>1. /\ Append(list, fine) \in Seq(PayFine)
      /\ Len(Append(list, fine)) = Len(list) + 1 /\ Len(list) \in Nat
      /\ \A i \in 1..Len(list) : Append(list, fine)[i] = list[i]
      /\ Append(list, fine)[Len(list) + 1] = fine
  BY AppendProperties
<1>2. \A i \in 1..(Len(list) + 1) : i \in 1..Len(list) \/ i = Len(list) + 1
  BY <1>1
<1> QED BY <1>1, <1>2 DEF FinesSound

\* The transfer of the pay button succeeds, and the fine is found to be paid.
LEMMA PaymentFound ==
  ASSUME opened \in 1..Len(Own), NEW b \in Book, NEW j \in 1..opened, NEW fine \in PayFine,
         Exists(fine.account), fine.amount > 0, b.balance[accounts[j]] >= fine.amount
  PROVE  /\ Transfers(b, accounts[j], fine.account, fine.amount)
         /\ IsMissionComplete(TransferMoney(b, accounts[j], fine.account, fine.amount, FALSE),
                              fine)
<1>1. PICK payer : payer = accounts[j]
  OBVIOUS
<1>2. payer \in ToSet(accounts) /\ payer \in Accounts
  BY <1>1, PlayerAccounts
<1>3. fine.account \in Accounts
  BY DEF PayFine
<1>4. Transfers(b, payer, fine.account, fine.amount)
  BY <1>1, <1>2, <1>3 DEF Transfers, Exists, IsPlayerAccount
<1>5. PICK c : c = TransferMoney(b, payer, fine.account, fine.amount, FALSE)
  OBVIOUS
<1>6. PICK theft : IsTransfer(b, c, payer, fine.account, fine.amount, theft)
  BY <1>5, TransferFields
<1>7. PICK logto, log : /\ logto = NextLog(b, "TRANSFERTO", fine.account, fine.amount, theft)
                        /\ log = NextLog(b, "TRANSFERFROM", payer, fine.amount, theft)
  OBVIOUS
<1>8. c.logs = [[b.logs EXCEPT ![payer] = @ \cup {logto}] EXCEPT ![fine.account] = @ \cup {log}]
  BY <1>4, <1>6, <1>7 DEF IsTransfer
<1>9. log \in c.logs[fine.account]
  <2>1. PICK L1 : L1 = [b.logs EXCEPT ![payer] = @ \cup {logto}]
    OBVIOUS
  <2>2. DOMAIN L1 = Accounts
    BY <2>1, BookFields
  <2>3. c.logs[fine.account] = L1[fine.account] \cup {log}
    BY <1>3, <1>8, <2>1, <2>2
  <2> QED BY <2>3
<1>10. log.type = "TRANSFERFROM" /\ log.amount = fine.amount /\ log.other = payer
  BY <1>7 DEF NextLog
<1>11. IsMissionComplete(c, fine)
  BY <1>2, <1>9, <1>10 DEF IsMissionComplete
<1> QED BY <1>1, <1>4, <1>5, <1>11

\* A transfer takes no log away.
LEMMA TransferKeepsLogs ==
  ASSUME NEW b \in Book, NEW source \in Accounts, NEW target \in Accounts,
         NEW amount, NEW byplayer, NEW a \in Accounts
  PROVE  b.logs[a] \subseteq TransferMoney(b, source, target, amount, byplayer).logs[a]
<1> DEFINE c == TransferMoney(b, source, target, amount, byplayer)
           theft == IsTheft(source, target, byplayer)
<1>1. IsTransfer(b, c, source, target, amount, theft)
  BY TransferFields
<1> HIDE DEF c, theft
<1>2. CASE ~Transfers(b, source, target, amount)
  <2>1. c.logs = b.logs
    BY <1>1, <1>2 DEF IsTransfer
  <2> QED BY <2>1 DEF c
<1>3. CASE Transfers(b, source, target, amount)
  <2>1. PICK logto, logfrom : /\ logto = NextLog(b, "TRANSFERTO", target, amount, theft)
                              /\ logfrom = NextLog(b, "TRANSFERFROM", source, amount, theft)
    OBVIOUS
  <2>2. c.logs = [[b.logs EXCEPT ![source] = @ \cup {logto}] EXCEPT ![target] = @ \cup {logfrom}]
    BY <1>1, <1>3, <2>1 DEF IsTransfer
  <2>3. PICK L1 : L1 = [b.logs EXCEPT ![source] = @ \cup {logto}]
    OBVIOUS
  <2>4. DOMAIN L1 = Accounts /\ b.logs[a] \subseteq L1[a]
    BY <2>3, BookFields
  <2>5. L1[a] \subseteq c.logs[a]
    BY <2>2, <2>3, <2>4
  <2>6. b.logs[a] \subseteq c.logs[a]
    BY <2>4, <2>5
  <2> QED BY <2>6 DEF c
<1> QED BY <1>2, <1>3

\* What becomes of a fine whose turn it is: it stays on the list and nothing is
\* paid, or it is paid and found to be.
Dealt(done, next, fine) ==
  \/ next.left = Append(done.left, fine) /\ next.book = done.book
  \/ /\ next.left = done.left
     /\ IsMissionComplete(next.book, fine)
     /\ \A a \in Accounts : done.book.logs[a] \subseteq next.book.logs[a]

LEMMA PayOneKeeps ==
  ASSUME opened \in 1..Len(Own), NEW done, DoneOK(done), NEW fine \in PayFine,
         Exists(fine.account), fine.amount > 0, NEW owed \in [Accounts -> Int]
  PROVE  /\ DoneOK(PayOne(done, fine))
         /\ Total(PayOne(done, fine).book, owed) = Total(done.book, owed)
         /\ Dealt(done, PayOne(done, fine), fine)
<1> DEFINE payers == {j \in 1..opened : done.book.balance[accounts[j]] >= fine.amount}
           first == CHOOSE j \in payers : \A k \in payers : j <= k
           after == TransferMoney(done.book, accounts[first], fine.account, fine.amount, FALSE)
<1>1. /\ done \in Done /\ Sound(done.book) /\ FinesSound(done.left) /\ done.failed = FALSE
      /\ done.left \in Seq(PayFine) /\ done.money \in Int /\ fine.amount \in Int
      /\ fine.account \in Accounts
  BY ConstantsAssumption DEF DoneOK, Done, PayFine, Accounts
<1>2. PICK more : /\ more = Append(done.left, fine)
                  /\ more \in Seq(PayFine)
                  /\ FinesSound(more)
  BY <1>1, AppendFine
<1>3. CASE done.stopped \/ fine.amount > done.money
  <2>1. PayOne(done, fine) = [done EXCEPT !.stopped = TRUE, !.left = more]
    BY <1>2, <1>3 DEF PayOne
  <2>2. /\ PayOne(done, fine) \in Done
        /\ PayOne(done, fine).book = done.book
        /\ PayOne(done, fine).left = more
        /\ PayOne(done, fine).failed = done.failed
    BY <1>1, <1>2, <2>1 DEF Done
  <2>3. Dealt(done, PayOne(done, fine), fine)
    BY <1>2, <2>2 DEF Dealt
  <2> QED BY <1>1, <1>2, <2>2, <2>3 DEF DoneOK
<1>4. CASE ~(done.stopped \/ fine.amount > done.money) /\ payers = {}
  <2>1. PayOne(done, fine) = [done EXCEPT !.left = more]
    BY <1>2, <1>4 DEF PayOne
  <2>2. /\ PayOne(done, fine) \in Done
        /\ PayOne(done, fine).book = done.book
        /\ PayOne(done, fine).left = more
        /\ PayOne(done, fine).failed = done.failed
    BY <1>1, <1>2, <2>1 DEF Done
  <2>3. Dealt(done, PayOne(done, fine), fine)
    BY <1>2, <2>2 DEF Dealt
  <2> QED BY <1>1, <1>2, <2>2, <2>3 DEF DoneOK
<1>5. CASE ~(done.stopped \/ fine.amount > done.money) /\ payers # {}
  <2>1. first \in 1..opened /\ done.book.balance[accounts[first]] >= fine.amount
    <3>1. opened \in Nat /\ payers \subseteq Nat
      BY ConstantsAssumption
    <3>2. \E j \in payers : \A k \in payers : j <= k
      <4> HIDE DEF payers
      <4> QED BY <1>5, <3>1, LeastNumber
    <3>3. first \in payers
      <4> HIDE DEF payers
      <4> QED BY <3>2
    <3> HIDE DEF first
    <3> QED BY <3>3
  <2>2. accounts[first] \in Accounts
    <3> HIDE DEF first
    <3> QED BY <2>1, PlayerAccounts
  <2>3. /\ Transfers(done.book, accounts[first], fine.account, fine.amount)
        /\ IsMissionComplete(after, fine)
    <3>1. done.book \in Book
      BY <1>1 DEF Sound
    <3> HIDE DEF first
    <3> QED BY <2>1, <3>1, PaymentFound
  <2>4. /\ Sound(after)
        /\ Total(after, owed) = Total(done.book, owed)
    <3> DEFINE payer == accounts[first]
    <3>1. /\ payer \in Accounts /\ fine.account \in Accounts /\ fine.amount \in Int
          /\ FALSE \in BOOLEAN /\ Sound(done.book)
      BY <1>1, <2>2
    <3> HIDE DEF first, payer
    <3>2. LET c == TransferMoney(done.book, payer, fine.account, fine.amount, FALSE)
          IN Sound(c) /\ Total(c, owed) = Total(done.book, owed)
      BY <3>1, TransferKeeps, Zenon
    <3> QED BY <3>2 DEF payer
  <2>9. \A a \in Accounts : done.book.logs[a] \subseteq after.logs[a]
    <3> DEFINE payer == accounts[first]
    <3>1. payer \in Accounts /\ fine.account \in Accounts /\ done.book \in Book
      BY <1>1, <2>2 DEF Sound
    <3> HIDE DEF first, payer
    <3>2. \A a \in Accounts : done.book.logs[a] \subseteq
            TransferMoney(done.book, payer, fine.account, fine.amount, FALSE).logs[a]
      BY <3>1, TransferKeepsLogs
    <3> QED BY <3>2 DEF payer
  <2>5. PayOne(done, fine) =
          [done EXCEPT !.book = after, !.money = @ - fine.amount,
                       !.failed = \/ @
                                  \/ ~Transfers(done.book, accounts[first], fine.account,
                                                fine.amount)
                                  \/ ~IsMissionComplete(after, fine)]
    BY <1>5 DEF PayOne
  <2> HIDE DEF first, after
  <2>6. PayOne(done, fine) = [done EXCEPT !.book = after, !.money = @ - fine.amount,
                                          !.failed = FALSE]
    BY <1>1, <2>3, <2>5
  <2>7. after \in Book /\ done.money - fine.amount \in Int
    BY <1>1, <2>4 DEF Sound
  <2>8. /\ PayOne(done, fine) \in Done
        /\ PayOne(done, fine).book = after
        /\ PayOne(done, fine).left = done.left
        /\ PayOne(done, fine).failed = FALSE
    BY <1>1, <2>6, <2>7 DEF Done
  <2>10. Dealt(done, PayOne(done, fine), fine)
    BY <2>3, <2>8, <2>9 DEF Dealt
  <2> QED BY <1>1, <2>4, <2>8, <2>10 DEF DoneOK
<1> QED BY <1>3, <1>4, <1>5

\* One step of the recursion of Paid.
PayTurn(h, i) ==
  IF i = 0 THEN [book |-> book, money |-> GetBalance(book), left |-> <<>>,
                 stopped |-> FALSE, failed |-> failed]
  ELSE PayOne(h[i - 1], fines[i])

LEMMA PayTurnReadsLast ==
  ASSUME NEW g, NEW h, NEW i, i # 0 => g[i - 1] = h[i - 1]
  PROVE  PayTurn(g, i) = PayTurn(h, i)
BY DEF PayTurn

\* The equation that defines Paid has a solution.
LEMMA PaidDefined ==
  ASSUME Len(fines) \in Nat
  PROVE  \A i \in 0..Len(fines) : Paid[i] = PayTurn(Paid, i)
<1> DEFINE UpTo(n) == \E h : h = [i \in 0..n |-> PayTurn(h, i)]
           B == {n \in Nat : ~UpTo(n)}
<1>1. ASSUME B # {} PROVE FALSE
  <2>1. PICK n \in B : n = 0 \/ n - 1 \notin B
    <3>1. B \subseteq Nat
      OBVIOUS
    <3> HIDE DEF B
    <3> QED BY <1>1, <3>1, LeastNumber
  <2>2. n \in Nat /\ ~UpTo(n)
    OBVIOUS
  <2>3. \E g : \A i \in 0..(n - 1) : g[i] = PayTurn(g, i)
    <3>1. CASE n = 0
      BY <3>1
    <3>2. CASE n # 0
      <4>1. n - 1 \in Nat /\ UpTo(n - 1)
        BY <2>1, <2>2, <3>2
      <4>2. PICK g : g = [i \in 0..(n - 1) |-> PayTurn(g, i)]
        BY <4>1
      <4>3. \A i \in 0..(n - 1) : g[i] = PayTurn(g, i)
        BY <4>2
      <4> QED BY <4>3
    <3> QED BY <3>1, <3>2
  <2>4. PICK g : \A i \in 0..(n - 1) : g[i] = PayTurn(g, i)
    BY <2>3
  <2> DEFINE h == [i \in 0..n |-> PayTurn(g, i)]
  <2>5. \A i \in 0..n : h[i] = PayTurn(g, i)
    OBVIOUS
  <2>6. h = [i \in 0..n |-> h[i]]
    OBVIOUS
  <2> HIDE DEF h
  <2>7. ASSUME NEW i \in 0..n PROVE h[i] = PayTurn(h, i)
    <3>1. i # 0 => i - 1 \in 0..n /\ i - 1 \in 0..(n - 1)
      BY <2>2
    <3>2. i # 0 => g[i - 1] = h[i - 1]
      BY <2>4, <2>5, <3>1
    <3>3. PayTurn(g, i) = PayTurn(h, i)
      BY <3>2, PayTurnReadsLast
    <3> QED BY <2>5, <3>3
  <2>8. h = [i \in 0..n |-> PayTurn(h, i)]
    BY <2>6, <2>7
  <2> QED BY <2>2, <2>8
<1>2. UpTo(Len(fines))
  BY <1>1
<1>3. Paid = CHOOSE h : h = [i \in 0..Len(fines) |-> PayTurn(h, i)]
  BY DEF Paid, PayTurn
<1>4. Paid = [i \in 0..Len(fines) |-> PayTurn(Paid, i)]
  BY <1>2, <1>3
<1> QED BY <1>4

\* Whatever fines there are, paying them keeps the money and no assertion fails.
LEMMA PaidKeeps ==
  ASSUME IInv, ~gameover
  PROVE  \A i \in 0..Len(fines) :
           DoneOK(Paid[i]) /\ Total(Paid[i].book, loan) = Total(book, loan)
<1>1. /\ opened \in 1..Len(Own) /\ book \in Book /\ Sound(book) /\ failed = FALSE
      /\ fines \in Seq(PayFine) /\ Len(fines) \in Nat /\ FinesSound(fines)
      /\ loan \in [Accounts -> Int]
  BY DEF IInv, TypeOK, Sound, RobberyAnswered, Answered, AssertsHold
<1> DEFINE Fits(i) == DoneOK(Paid[i]) /\ Total(Paid[i].book, loan) = Total(book, loan)
           B == {i \in 0..Len(fines) : ~Fits(i)}
<1>2. ASSUME B # {} PROVE FALSE
  <2>1. PICK n \in B : n = 0 \/ n - 1 \notin B
    <3>1. B \subseteq Nat
      BY <1>1
    <3> HIDE DEF B
    <3> QED BY <1>2, <3>1, LeastNumber
  <2>2. n \in 0..Len(fines) /\ ~Fits(n)
    OBVIOUS
  <2>3. Paid[n] = PayTurn(Paid, n)
    BY <1>1, <2>2, PaidDefined
  <2>4. CASE n = 0
    <3>1. PICK start : start = [book |-> book, money |-> GetBalance(book), left |-> <<>>,
                                stopped |-> FALSE, failed |-> failed]
      OBVIOUS
    <3>2. Paid[n] = start
      BY <2>3, <2>4, <3>1 DEF PayTurn
    <3>3. GetBalance(book) \in Int /\ <<>> \in Seq(PayFine) /\ FinesSound(<<>>)
      BY <1>1, BalanceType DEF FinesSound
    <3>4. start \in Done /\ start.book = book /\ start.left = <<>> /\ start.failed = FALSE
      BY <1>1, <3>1, <3>3 DEF Done
    <3>5. Fits(n)
      BY <1>1, <3>2, <3>3, <3>4 DEF DoneOK
    <3> QED BY <2>2, <3>5
  <2>5. CASE n # 0
    <3>1. n - 1 \in 0..Len(fines) /\ n \in 1..Len(fines)
      BY <1>1, <2>2, <2>5
    <3>2. Fits(n - 1)
      BY <2>1, <2>5, <3>1
    <3>3. Paid[n] = PayOne(Paid[n - 1], fines[n])
      BY <2>3, <2>5 DEF PayTurn
    <3>4. fines[n] \in PayFine /\ Exists(fines[n].account) /\ fines[n].amount > 0
      BY <1>1, <3>1 DEF FinesSound
    <3>5. PICK before, fine : before = Paid[n - 1] /\ fine = fines[n]
      OBVIOUS
    <3>6. /\ DoneOK(before) /\ Total(before.book, loan) = Total(book, loan)
          /\ fine \in PayFine /\ Exists(fine.account) /\ fine.amount > 0
          /\ Paid[n] = PayOne(before, fine)
      BY <3>2, <3>3, <3>4, <3>5
    <3>7. /\ DoneOK(PayOne(before, fine))
          /\ Total(PayOne(before, fine).book, loan) = Total(before.book, loan)
      BY <1>1, <3>6, PayOneKeeps
    <3>8. Fits(n)
      BY <3>6, <3>7
    <3> QED BY <2>2, <3>8
  <2> QED BY <2>4, <2>5
<1> QED BY <1>2

\* One step of the recursion of FinesLeft.
LeftTurn(gone, h, i) ==
  IF i = 0 THEN <<>> ELSE IF i \in gone THEN h[i - 1] ELSE Append(h[i - 1], fines[i])

LEMMA LeftTurnReadsLast ==
  ASSUME NEW gone, NEW g, NEW h, NEW i, i # 0 => g[i - 1] = h[i - 1]
  PROVE  LeftTurn(gone, g, i) = LeftTurn(gone, h, i)
BY DEF LeftTurn

LEMMA LeftDefined ==
  ASSUME Len(fines) \in Nat, NEW gone
  PROVE  \E left : /\ FinesLeft(gone) = left[Len(fines)]
                   /\ \A i \in 0..Len(fines) : left[i] = LeftTurn(gone, left, i)
<1> DEFINE UpTo(n) == \E h : h = [i \in 0..n |-> LeftTurn(gone, h, i)]
           B == {n \in Nat : ~UpTo(n)}
<1>1. ASSUME B # {} PROVE FALSE
  <2>1. PICK n \in B : n = 0 \/ n - 1 \notin B
    <3>1. B \subseteq Nat
      OBVIOUS
    <3> HIDE DEF B
    <3> QED BY <1>1, <3>1, LeastNumber
  <2>2. n \in Nat /\ ~UpTo(n)
    OBVIOUS
  <2>3. \E g : \A i \in 0..(n - 1) : g[i] = LeftTurn(gone, g, i)
    <3>1. CASE n = 0
      BY <3>1
    <3>2. CASE n # 0
      <4>1. n - 1 \in Nat /\ UpTo(n - 1)
        BY <2>1, <2>2, <3>2
      <4>2. PICK g : g = [i \in 0..(n - 1) |-> LeftTurn(gone, g, i)]
        BY <4>1
      <4>3. \A i \in 0..(n - 1) : g[i] = LeftTurn(gone, g, i)
        BY <4>2
      <4> QED BY <4>3
    <3> QED BY <3>1, <3>2
  <2>4. PICK g : \A i \in 0..(n - 1) : g[i] = LeftTurn(gone, g, i)
    BY <2>3
  <2> DEFINE h == [i \in 0..n |-> LeftTurn(gone, g, i)]
  <2>5. \A i \in 0..n : h[i] = LeftTurn(gone, g, i)
    OBVIOUS
  <2>6. h = [i \in 0..n |-> h[i]]
    OBVIOUS
  <2> HIDE DEF h
  <2>7. ASSUME NEW i \in 0..n PROVE h[i] = LeftTurn(gone, h, i)
    <3>1. i # 0 => i - 1 \in 0..n /\ i - 1 \in 0..(n - 1)
      BY <2>2
    <3>2. i # 0 => g[i - 1] = h[i - 1]
      BY <2>4, <2>5, <3>1
    <3>3. LeftTurn(gone, g, i) = LeftTurn(gone, h, i)
      BY <3>2, LeftTurnReadsLast
    <3> QED BY <2>5, <3>3
  <2>8. h = [i \in 0..n |-> LeftTurn(gone, h, i)]
    BY <2>6, <2>7
  <2> QED BY <2>2, <2>8
<1>2. UpTo(Len(fines))
  BY <1>1
<1> DEFINE left == CHOOSE h : h = [i \in 0..Len(fines) |-> LeftTurn(gone, h, i)]
<1>3. FinesLeft(gone) = left[Len(fines)]
  BY DEF FinesLeft, LeftTurn
<1>4. left = [i \in 0..Len(fines) |-> LeftTurn(gone, left, i)]
  BY <1>2
<1> HIDE DEF left
<1>5. \A i \in 0..Len(fines) : left[i] = LeftTurn(gone, left, i)
  BY <1>4
<1> QED BY <1>3, <1>5

\* What is left of sound fines are sound fines.
LEMMA LeftKeeps ==
  ASSUME fines \in Seq(PayFine), FinesSound(fines), NEW gone
  PROVE  FinesLeft(gone) \in Seq(PayFine) /\ FinesSound(FinesLeft(gone))
<1>1. Len(fines) \in Nat /\ \A i \in 1..Len(fines) : fines[i] \in PayFine
  OBVIOUS
<1>2. PICK left : /\ FinesLeft(gone) = left[Len(fines)]
                  /\ \A i \in 0..Len(fines) : left[i] = LeftTurn(gone, left, i)
  BY <1>1, LeftDefined
<1> DEFINE Fits(i) == left[i] \in Seq(PayFine) /\ FinesSound(left[i])
           B == {i \in 0..Len(fines) : ~Fits(i)}
<1>3. ASSUME B # {} PROVE FALSE
  <2>1. PICK n \in B : n = 0 \/ n - 1 \notin B
    <3>1. B \subseteq Nat
      BY <1>1
    <3> HIDE DEF B
    <3> QED BY <1>3, <3>1, LeastNumber
  <2>2. n \in 0..Len(fines) /\ ~Fits(n) /\ left[n] = LeftTurn(gone, left, n)
    BY <1>2
  <2>3. CASE n = 0
    <3>1. left[n] = <<>>
      BY <2>2, <2>3 DEF LeftTurn
    <3>2. Fits(n)
      BY <3>1 DEF FinesSound
    <3> QED BY <2>2, <3>2
  <2>4. CASE n # 0
    <3>1. n - 1 \in 0..Len(fines) /\ n \in 1..Len(fines)
      BY <1>1, <2>2, <2>4
    <3>2. Fits(n - 1)
      BY <2>1, <2>4, <3>1
    <3>3. PICK list, fine : list = left[n - 1] /\ fine = fines[n]
      OBVIOUS
    <3>4. /\ list \in Seq(PayFine) /\ FinesSound(list)
          /\ fine \in PayFine /\ Exists(fine.account) /\ fine.amount > 0
      BY <1>1, <3>1, <3>2, <3>3 DEF FinesSound
    <3>5. left[n] = list \/ left[n] = Append(list, fine)
      BY <2>2, <2>4, <3>3 DEF LeftTurn
    <3>6. Append(list, fine) \in Seq(PayFine) /\ FinesSound(Append(list, fine))
      BY <3>4, AppendFine
    <3>7. Fits(n)
      BY <3>4, <3>5, <3>6
    <3> QED BY <2>2, <3>7
  <2> QED BY <2>3, <2>4
<1> QED BY <1>1, <1>2, <1>3

-----------------------------------------------------------------------------
(* Steps.                                                                  *)

\* A book with other balances and more moves made.
LEMMA BookRebalanced ==
  ASSUME NEW b \in Book, NEW y \in Accounts, NEW now \in Int
  PROVE  LET c == [b EXCEPT !.balance[y] = now, !.made = @ + 1]
         IN /\ c \in Book
            /\ c.balance = [b.balance EXCEPT ![y] = now]
            /\ c.logs = b.logs /\ c.robberies = b.robberies /\ c.made = b.made + 1
<1>1. PICK B, L, R, n : b = [balance |-> B, logs |-> L, robberies |-> R, made |-> n]
  BY DEF Book
<1>2. PICK B2 : B2 = [B EXCEPT ![y] = now]
  OBVIOUS
<1>3. PICK c : c = [b EXCEPT !.balance[y] = now, !.made = @ + 1]
  OBVIOUS
<1>4. c = [balance |-> B2, logs |-> L, robberies |-> R, made |-> n + 1]
  <2>1. b.balance = B /\ b.made = n
    BY <1>1
  <2>2. [b EXCEPT !.balance[y] = now] = [balance |-> B2, logs |-> L, robberies |-> R, made |-> n]
    BY <1>1, <1>2
  <2> QED BY <1>3, <2>1, <2>2
<1>5. B \in [Accounts -> Int] /\ L \in [Accounts -> SUBSET Log] /\ R \in SUBSET Robbery /\ n \in Nat
  <2>1. b.balance = B /\ b.logs = L /\ b.robberies = R /\ b.made = n
    BY <1>1
  <2> QED BY <2>1, BookFields
<1>6. B2 \in [Accounts -> Int] /\ n + 1 \in Nat
  BY <1>2, <1>5
<1>7. c \in Book
  BY <1>4, <1>5, <1>6 DEF Book
<1>8. b.balance = B /\ b.logs = L /\ b.robberies = R /\ b.made = n
  BY <1>1
<1>9. c.balance = B2 /\ c.logs = L /\ c.robberies = R /\ c.made = n + 1
  BY <1>4
<1> QED BY <1>2, <1>3, <1>7, <1>8, <1>9

LEMMA SoundStays ==
  ASSUME NEW b, Sound(b), NEW c \in Book, c.logs = b.logs, c.robberies = b.robberies,
         c.made >= b.made
  PROVE  Sound(c)
<1>1. b \in Book
  BY DEF Sound
<1>2. b.made \in Nat /\ c.made \in Nat /\ b.robberies \subseteq Robbery
      /\ \A a \in Accounts : b.logs[a] \subseteq Log
  BY <1>1, BookFields
<1>3. \A r \in b.robberies : r.id \in Nat /\ r.id <= b.made
  BY <1>2 DEF Sound, Linked, Robbery
<1>4. \A a \in Accounts : \A log \in b.logs[a] : log.id \in Nat /\ log.id <= b.made
  BY <1>2 DEF Sound, Linked, Log
<1>5. Linked(c)
  <2>1. \A r \in c.robberies : r.id <= c.made
    BY <1>2, <1>3
  <2>2. \A a \in Accounts : \A log \in c.logs[a] : log.id <= c.made
    BY <1>2, <1>4
  <2>3. \A a \in Accounts : \A log \in c.logs[a] : \A r \in c.robberies : r.id = log.id =>
          /\ log.amount = r.amount
          /\ \/ a = r.source /\ log.type = "TRANSFERTO" /\ log.other = r.target
             \/ a = r.target /\ log.type = "TRANSFERFROM" /\ log.other = r.source
    BY DEF Sound, Linked
  <2> QED BY <2>1, <2>2, <2>3 DEF Linked
<1>6. Answered(c)
  BY DEF Sound, Answered
<1> QED BY <1>5, <1>6 DEF Sound

\* What the invariant says while the game goes on.
LEMMA Facts ==
  ASSUME IInv, ~gameover
  PROVE  /\ book \in Book /\ Sound(book)
         /\ loan \in [Accounts -> Int]
         /\ opened \in 1..Len(Own) /\ Len(Own) \in Nat /\ current \in 1..opened
         /\ fines \in Seq(PayFine) /\ FinesSound(fines)
         /\ failed = FALSE /\ paidin \in Int
         /\ Total(book, loan) = paidin
BY ConstantsAssumption DEF IInv, TypeOK, Sound, RobberyAnswered, Answered, AssertsHold, MoneyKept,
   Total

\* An account that exists goes on existing.
LEMMA ExistStill ==
  ASSUME opened \in 1..Len(Own), opened' \in 1..Len(Own),
         opened' = opened \/ opened' = opened + 1,
         NEW a, Exists(a)
  PROVE  Exists(a)'
<1>1. CASE a \in Others
  BY <1>1 DEF Exists
<1>2. CASE a \in ToSet(accounts)
  <2>1. PICK i \in 1..opened : a = Own[i]
    BY <1>2, PlayerAccounts
  <2>2. Len(Own) \in Nat /\ i \in 1..opened'
    BY ConstantsAssumption
  <2>3. Own[i] \in ToSet(accounts')
    BY <2>2, OpenedAccounts DEF accounts
  <2> QED BY <2>1, <2>3 DEF Exists, IsPlayerAccount
<1> QED BY <1>1, <1>2 DEF Exists, IsPlayerAccount

LEMMA Reassemble ==
  ASSUME IInv, TypeOK', opened' = opened \/ opened' = opened + 1,
         Linked(book'), FinesSound(fines'), gameover' = TRUE \/ Answered(book'),
         failed' = FALSE, Total(book', loan') = paidin'
  PROVE  IInv'
<1>0. opened \in 1..Len(Own) /\ opened' \in 1..Len(Own)
  BY DEF IInv, TypeOK
<1>1. MoneyKept'
  BY DEF MoneyKept, Total
<1>2. RobberyAnswered'
  BY DEF RobberyAnswered, Answered
<1>3. Linked(book)' /\ AssertsHold'
  BY DEF AssertsHold
<1>4. FinesSound(fines)'
  BY <1>0, ExistStill DEF FinesSound
<1> QED BY <1>1, <1>2, <1>3, <1>4 DEF IInv

\* A step that touches neither the money nor the fines.
LEMMA OthersChange ==
  ASSUME IInv, ~gameover, TypeOK',
         opened' = opened \/ opened' = opened + 1,
         UNCHANGED <<book, loan, fines, gameover, paidin, failed>>
  PROVE  IInv'
<1>1. /\ Linked(book') /\ FinesSound(fines') /\ Answered(book') /\ failed' = FALSE
      /\ Total(book', loan') = paidin'
  BY Facts DEF Sound
<1> QED BY <1>1, Reassemble

\* A step that only changes the fines.
LEMMA FinesChange ==
  ASSUME IInv, ~gameover, fines' \in Seq(PayFine), FinesSound(fines'),
         UNCHANGED <<book, loan, opened, current, uplinkrating, creditrating, shares,
                     screen, connected, gameover, paidin, failed>>
  PROVE  IInv'
<1>1. /\ Linked(book') /\ Answered(book') /\ failed' = FALSE
      /\ Total(book', loan') = paidin'
  BY Facts DEF Sound
<1>2. TypeOK'
  BY DEF IInv, TypeOK
<1> QED BY <1>1, <1>2, Reassemble

\* A step that only changes the book, and keeps it sound and its total.
LEMMA BookChange ==
  ASSUME IInv, ~gameover, Sound(book'), Total(book', loan) = Total(book, loan),
         UNCHANGED <<loan, opened, current, fines, uplinkrating, creditrating, shares,
                     screen, connected, gameover, paidin, failed>>
  PROVE  IInv'
<1>1. /\ FinesSound(fines') /\ failed' = FALSE /\ Linked(book') /\ Answered(book')
      /\ Total(book', loan') = paidin'
  BY Facts DEF Sound
<1>2. TypeOK'
  BY DEF IInv, TypeOK, Sound
<1> QED BY <1>1, <1>2, Reassemble

LEMMA TransferStep ==
  ASSUME IInv, ~gameover, NEW pair \in Pairs, NEW amount \in Amounts, NEW byplayer \in BOOLEAN,
         Transfer(pair[1], pair[2], amount, byplayer)
  PROVE  IInv'
<1>1. PICK source, target : source = pair[1] /\ target = pair[2]
  OBVIOUS
<1>2. /\ source \in Accounts /\ target \in Accounts /\ amount \in Int
      /\ Sound(book) /\ loan \in [Accounts -> Int]
  BY <1>1, Facts, ConstantsAssumption
<1>3. LET c == TransferMoney(book, source, target, amount, byplayer)
      IN Sound(c) /\ Total(c, loan) = Total(book, loan)
  BY <1>2, TransferKeeps, Zenon
<1>4. book' = TransferMoney(book, source, target, amount, byplayer)
  BY <1>1 DEF Transfer
<1>5. Sound(book') /\ Total(book', loan) = Total(book, loan)
  BY <1>3, <1>4, Zenon
<1> QED BY <1>5, BookChange DEF Transfer

LEMMA HideLogStep ==
  ASSUME IInv, ~gameover, NEW y \in Accounts, NEW hidden, HideLog(y, hidden)
  PROVE  IInv'
<1>1. PICK B, L, R, n : book = [balance |-> B, logs |-> L, robberies |-> R, made |-> n]
  BY Facts DEF Book
<1>2. PICK L2 : L2 = [L EXCEPT ![y] = @ \ {hidden}]
  OBVIOUS
<1>3. book' = [balance |-> B, logs |-> L2, robberies |-> R, made |-> n]
  BY <1>1, <1>2 DEF HideLog
<1>4. /\ book.balance = B /\ book.logs = L /\ book.robberies = R /\ book.made = n
      /\ book'.balance = B /\ book'.logs = L2 /\ book'.robberies = R /\ book'.made = n
  BY <1>1, <1>3
<1>5. /\ L \in [Accounts -> SUBSET Log] /\ B \in [Accounts -> Int]
      /\ R \in SUBSET Robbery /\ n \in Nat
  BY <1>4, Facts, BookFields
<1>6. \A a \in Accounts : L2[a] \subseteq L[a]
  BY <1>2, <1>5
<1>7. L2 \in [Accounts -> SUBSET Log]
  BY <1>2, <1>5
<1>8. book' \in Book
  BY <1>3, <1>5, <1>7 DEF Book
<1>9. Linked(book') /\ Answered(book')
  BY <1>4, <1>6, Facts DEF Sound, Linked, Answered
<1>10. Total(book', loan) = Total(book, loan)
  BY <1>4 DEF Total
<1> QED BY <1>8, <1>9, <1>10, BookChange DEF Sound, HideLog

\* The log a robbery event looks for is there, if any log of the theft is.
LEMMA RunRobberyStep ==
  ASSUME IInv, ~gameover, NEW r \in book.robberies, RunRobbery(r)
  PROVE  IInv'
<1>1. PICK B, L, R, n : book = [balance |-> B, logs |-> L, robberies |-> R, made |-> n]
  BY Facts DEF Book
<1>2. book' = [balance |-> B, logs |-> L, robberies |-> R \ {r}, made |-> n]
  BY <1>1 DEF RunRobbery
<1>3. /\ book.balance = B /\ book.logs = L /\ book.robberies = R /\ book.made = n
      /\ book'.balance = B /\ book'.logs = L /\ book'.robberies = R \ {r} /\ book'.made = n
  BY <1>1, <1>2
<1>4. /\ L \in [Accounts -> SUBSET Log] /\ B \in [Accounts -> Int]
      /\ R \in SUBSET Robbery /\ n \in Nat
  BY <1>3, Facts, BookFields
<1>5. book' \in Book
  BY <1>2, <1>4 DEF Book
<1>6. Linked(book')
  BY <1>3, Facts DEF Sound, Linked
<1>7. Total(book', loan') = paidin'
  <2>1. Total(book', loan) = Total(book, loan)
    BY <1>3 DEF Total
  <2>2. loan' = loan /\ paidin' = paidin
    BY DEF RunRobbery
  <2> QED BY <2>1, <2>2, Facts
<1>8. gameover' = TRUE \/ Answered(book')
  <2>1. SUFFICES ASSUME gameover' # TRUE PROVE Answered(book')
    OBVIOUS
  <2>2. /\ ~LogOf(book, r.source, "TRANSFERTO", r.target, r.amount)
        /\ ~LogOf(book, r.target, "TRANSFERFROM", r.source, r.amount)
    BY <2>1 DEF RunRobbery
  <2>3. r.source \in Accounts /\ r.target \in Accounts
    BY <1>3, <1>4 DEF Robbery
  <2>4. ASSUME NEW a \in Accounts, NEW log \in book'.logs[a], log.theft
        PROVE  \E q \in book'.robberies : q.id = log.id
    <3>1. log \in book.logs[a]
      BY <1>3
    <3>2. PICK q \in book.robberies : q.id = log.id
      BY <2>4, <3>1, Facts DEF Sound, Answered
    <3>3. q # r
      <4>1. SUFFICES ASSUME q = r PROVE FALSE
        OBVIOUS
      <4>2. /\ log.amount = r.amount
            /\ \/ a = r.source /\ log.type = "TRANSFERTO" /\ log.other = r.target
               \/ a = r.target /\ log.type = "TRANSFERFROM" /\ log.other = r.source
        BY <3>1, <3>2, <4>1, Facts DEF Sound, Linked
      <4>3. <<r.source, r.source>> \in Found /\ <<r.target, r.target>> \in Found
        BY <2>3, ConstantsAssumption
      <4> QED BY <2>2, <3>1, <4>2, <4>3 DEF LogOf
    <3> QED BY <1>3, <3>2, <3>3
  <2> QED BY <2>4 DEF Answered
<1>9. TypeOK'
  <2>1. UNCHANGED <<loan, opened, current, fines, shares, screen, connected, paidin, failed>>
    BY DEF RunRobbery
  <2>2. gameover' \in BOOLEAN /\ uplinkrating' \in 1..MaxRating /\ creditrating' \in Int
    <3>1. CASE gameover' = TRUE /\ UNCHANGED <<uplinkrating, creditrating>>
      BY <3>1 DEF IInv, TypeOK
    <3>2. CASE RatingChanges /\ UNCHANGED gameover
      <4>1. uplinkrating' \in uplinkrating..MaxRating /\ uplinkrating \in 1..MaxRating
        BY <3>2 DEF RatingChanges, IInv, TypeOK
      <4>2. MaxRating \in Nat
        BY ConstantsAssumption
      <4>3. uplinkrating' \in 1..MaxRating
        BY <4>1, <4>2
      <4>4. creditrating' \in Int
        BY <3>2, <4>1, <4>2, <4>3 DEF RatingChanges, IInv, TypeOK
      <4> QED BY <3>2, <4>3, <4>4 DEF IInv, TypeOK
    <3> QED BY <3>1, <3>2 DEF RunRobbery
  <2> QED BY <1>5, <2>1, <2>2 DEF IInv, TypeOK
<1>10. FinesSound(fines') /\ failed' = FALSE /\ opened' = opened
  BY Facts DEF RunRobbery
<1> QED BY <1>6, <1>7, <1>8, <1>9, <1>10, Reassemble

\* A fine given is sound.
LEMMA GivenSound ==
  ASSUME IInv, ~gameover, NEW account \in Payable, NEW amount \in Nat \ {0},
         fines' = Append(fines, Given(account, amount))
  PROVE  fines' \in Seq(PayFine) /\ FinesSound(fines')
<1>1. PICK fine : fine = Given(account, amount)
  OBVIOUS
<1>2. book.made + 1 \in Nat /\ account \in Accounts
  BY Facts, BookFields, ConstantsAssumption DEF Payable
<1>3. fine \in PayFine /\ Exists(fine.account) /\ fine.amount > 0
  BY <1>1, <1>2 DEF Given, PayFine, Payable
<1> QED BY <1>1, <1>3, Facts, AppendFine

\* What comes in or goes out is put on the current account and is accounted for.
LEMMA ChangeBalanceKeeps ==
  ASSUME IInv, ~gameover, NEW amount \in Int, ChangeBalance(amount),
         UNCHANGED <<loan, opened, current, gameover, failed>>
  PROVE  /\ book' \in Book /\ paidin' \in Int
         /\ fines' \in Seq(PayFine) /\ FinesSound(fines')
         /\ Linked(book') /\ Answered(book')
         /\ Total(book', loan') = paidin'
         /\ failed' = FALSE
<1>1. PICK y : y = accounts[current]
  OBVIOUS
<1>2. y \in Accounts
  BY <1>1, Facts, PlayerAccounts
<1>3. PICK now \in Int : now = book.balance[y] + amount
  BY <1>2, Facts, BookFields
<1>4. /\ book' = [book EXCEPT !.balance[y] = now, !.made = @ + 1]
      /\ paidin' = paidin + amount
      /\ \/ UNCHANGED fines
         \/ \E account \in Payable : fines' = Append(fines, Given(account, Fine))
  BY <1>1, <1>3 DEF ChangeBalance
<1>5. /\ book' \in Book
      /\ book'.balance = [book.balance EXCEPT ![y] = now]
      /\ book'.logs = book.logs /\ book'.robberies = book.robberies
      /\ book'.made = book.made + 1
  <2>0. book \in Book /\ y \in Accounts /\ now \in Int
    BY <1>2, Facts
  <2>1. LET c == [book EXCEPT !.balance[y] = now, !.made = @ + 1]
        IN /\ c \in Book
           /\ c.balance = [book.balance EXCEPT ![y] = now]
           /\ c.logs = book.logs /\ c.robberies = book.robberies /\ c.made = book.made + 1
    BY <2>0, BookRebalanced, Zenon
  <2> QED BY <1>4, <2>1, Zenon
<1>6. Sound(book')
  <2>1. book.made \in Nat
    BY Facts, BookFields
  <2> QED BY <1>5, <2>1, Facts, SoundStays
<1>7. Total(book', loan) = Total(book, loan) + amount
  <2>1. book'.balance = [book.balance EXCEPT ![y] = @ + amount]
    BY <1>3, <1>5
  <2> QED BY <1>2, <1>5, <2>1, Facts, TotalCharged
<1>8. fines' \in Seq(PayFine) /\ FinesSound(fines')
  <2>1. CASE UNCHANGED fines
    BY <2>1, Facts
  <2>2. CASE \E account \in Payable : fines' = Append(fines, Given(account, Fine))
    BY <2>2, GivenSound, ConstantsAssumption
  <2> QED BY <1>4, <2>1, <2>2
<1>9. Total(book', loan') = paidin' /\ paidin' \in Int
  BY <1>4, <1>7, Facts
<1> QED BY <1>5, <1>6, <1>8, <1>9, Facts DEF Sound

LEMMA EarnStep ==
  ASSUME IInv, ~gameover, NEW amount \in Sums, Earn(amount)
  PROVE  IInv'
<1>1. amount \in Int
  BY ConstantsAssumption
<1>2. /\ ChangeBalance(amount)
      /\ UNCHANGED <<loan, opened, current, uplinkrating, creditrating, shares, screen,
                     connected, gameover, failed>>
  BY DEF Earn
<1>3. /\ book' \in Book /\ paidin' \in Int
      /\ fines' \in Seq(PayFine) /\ FinesSound(fines')
      /\ Linked(book') /\ Answered(book')
      /\ Total(book', loan') = paidin'
      /\ failed' = FALSE
  BY <1>1, <1>2, ChangeBalanceKeeps
<1>4. TypeOK'
  BY <1>2, <1>3 DEF IInv, TypeOK
<1> QED BY <1>2, <1>3, <1>4, Reassemble

LEMMA ChargeStep ==
  ASSUME IInv, ~gameover, NEW cost \in Sums, NEW asked, Charge(cost, asked)
  PROVE  IInv'
<1>1. PICK amount \in Int : amount = -cost
  BY ConstantsAssumption
<1>2. /\ ChangeBalance(amount)
      /\ UNCHANGED <<loan, opened, current, uplinkrating, creditrating, shares, screen,
                     connected, gameover, failed>>
  BY <1>1 DEF Charge
<1>3. /\ book' \in Book /\ paidin' \in Int
      /\ fines' \in Seq(PayFine) /\ FinesSound(fines')
      /\ Linked(book') /\ Answered(book')
      /\ Total(book', loan') = paidin'
      /\ failed' = FALSE
  BY <1>2, ChangeBalanceKeeps
<1>4. TypeOK'
  BY <1>2, <1>3 DEF IInv, TypeOK
<1> QED BY <1>2, <1>3, <1>4, Reassemble

LEMMA TradeSharesStep ==
  ASSUME IInv, ~gameover, NEW lots \in {-1, 1}, NEW price \in Sums, TradeShares(lots, price)
  PROVE  IInv'
<1>1. PICK amount \in Int : amount = -lots * price
  BY ConstantsAssumption
<1>2. /\ ChangeBalance(amount)
      /\ UNCHANGED <<loan, opened, current, uplinkrating, creditrating, screen,
                     connected, gameover, failed>>
  BY <1>1 DEF TradeShares
<1>3. /\ book' \in Book /\ paidin' \in Int
      /\ fines' \in Seq(PayFine) /\ FinesSound(fines')
      /\ Linked(book') /\ Answered(book')
      /\ Total(book', loan') = paidin'
      /\ failed' = FALSE
  BY <1>2, ChangeBalanceKeeps
<1>4. shares' \in 0..MaxShares
  <2>1. \/ lots = 1 /\ GetBalance(book) >= price /\ shares < MaxShares
        \/ lots = -1 /\ shares > 0
    BY DEF TradeShares
  <2>2. shares' = shares + lots
    BY DEF TradeShares
  <2>3. shares \in 0..MaxShares /\ MaxShares \in Nat
    BY ConstantsAssumption DEF IInv, TypeOK
  <2> QED BY <2>1, <2>2, <2>3
<1>5. TypeOK'
  BY <1>2, <1>3, <1>4 DEF IInv, TypeOK
<1> QED BY <1>2, <1>3, <1>5, Reassemble

LEMMA CaughtHackingStep ==
  ASSUME IInv, ~gameover, NEW amount \in Sums, CaughtHacking(amount)
  PROVE  IInv'
<1>1. fines' \in Seq(PayFine) /\ FinesSound(fines')
  BY GivenSound, ConstantsAssumption DEF CaughtHacking
<1>2. book' = [book EXCEPT !.made = @ + 1]
      /\ UNCHANGED <<loan, opened, current, uplinkrating, creditrating, shares, screen,
                     connected, gameover, paidin, failed>>
  BY DEF CaughtHacking
<1>3. /\ book' \in Book
      /\ book'.balance = book.balance
      /\ book'.logs = book.logs /\ book'.robberies = book.robberies
      /\ book'.made = book.made + 1
  <2>1. PICK B, L, R, n : book = [balance |-> B, logs |-> L, robberies |-> R, made |-> n]
    BY Facts DEF Book
  <2>2. book' = [balance |-> B, logs |-> L, robberies |-> R, made |-> n + 1]
    BY <1>2, <2>1
  <2>3. /\ book.balance = B /\ book.logs = L /\ book.robberies = R /\ book.made = n
        /\ book'.balance = B /\ book'.logs = L /\ book'.robberies = R /\ book'.made = n + 1
    BY <2>1, <2>2
  <2>4. n + 1 \in Nat
    BY <2>3, Facts, BookFields
  <2>5. book' \in Book
    BY <2>2, <2>3, <2>4, Facts, BookFields DEF Book
  <2> QED BY <2>3, <2>5
<1>4. Sound(book')
  <2>1. book.made \in Nat
    BY Facts, BookFields
  <2> QED BY <1>3, <2>1, Facts, SoundStays
<1>5. Total(book', loan) = Total(book, loan)
  BY <1>3 DEF Total
<1>6. TypeOK'
  BY <1>1, <1>2, <1>3 DEF IInv, TypeOK
<1>7. Total(book', loan') = paidin' /\ failed' = FALSE
  BY <1>2, <1>5, Facts
<1> QED BY <1>1, <1>2, <1>4, <1>6, <1>7, Reassemble DEF Sound

LEMMA ClickPayFinesButtonStep ==
  ASSUME IInv, ~gameover, ClickPayFinesButton
  PROVE  IInv'
<1>1. PICK done : done = Paid[Len(fines)]
  OBVIOUS
<1>2. DoneOK(done) /\ Total(done.book, loan) = Total(book, loan)
  BY <1>1, PaidKeeps
<1>3. /\ book' = done.book /\ fines' = done.left /\ failed' = done.failed
      /\ UNCHANGED <<loan, opened, current, uplinkrating, creditrating, shares, screen,
                     connected, gameover, paidin>>
  BY <1>1 DEF ClickPayFinesButton
<1>4. /\ Sound(book') /\ book' \in Book /\ fines' \in Seq(PayFine) /\ FinesSound(fines')
      /\ failed' = FALSE
  BY <1>2, <1>3 DEF DoneOK, Done, Sound
<1>5. TypeOK'
  BY <1>3, <1>4 DEF IInv, TypeOK
<1>6. Total(book', loan') = paidin'
  BY <1>2, <1>3, Facts
<1> QED BY <1>3, <1>4, <1>5, <1>6, Reassemble DEF Sound

LEMMA ConfirmFinesStep ==
  ASSUME IInv, ~gameover, NEW amount, ConfirmFines(amount)
  PROVE  IInv'
<1>1. PICK gone : fines' = FinesLeft(gone)
  BY DEF ConfirmFines
<1>2. UNCHANGED <<book, loan, opened, current, uplinkrating, creditrating, shares,
                  screen, connected, gameover, paidin, failed>>
  BY DEF ConfirmFines
<1>3. fines' \in Seq(PayFine) /\ FinesSound(fines')
  BY <1>1, Facts, LeftKeeps
<1> QED BY <1>2, <1>3, FinesChange

LEMMA CheckMissionDueDatesStep ==
  ASSUME IInv, ~gameover, CheckMissionDueDates
  PROVE  IInv'
<1>1. PICK gone : fines' = FinesLeft(gone)
  BY DEF CheckMissionDueDates
<1>2. fines' \in Seq(PayFine) /\ FinesSound(fines')
  BY <1>1, Facts, LeftKeeps
<1> QED BY <1>2, FinesChange DEF CheckMissionDueDates

LEMMA DueDateComesStep ==
  ASSUME IInv, ~gameover, NEW i \in 1..Len(fines), DueDateComes(i)
  PROVE  IInv'
<1>1. PICK late : late = [fines[i] EXCEPT !.overdue = TRUE]
  OBVIOUS
<1>2. fines' = [fines EXCEPT ![i] = late]
  BY <1>1 DEF DueDateComes
<1>3. fines[i] \in PayFine /\ Exists(fines[i].account) /\ fines[i].amount > 0
  BY Facts DEF FinesSound
<1>4. late \in PayFine /\ Exists(late.account) /\ late.amount > 0
  BY <1>1, <1>3 DEF PayFine
<1>5. /\ fines' \in Seq(PayFine) /\ Len(fines') = Len(fines)
      /\ \A j \in 1..Len(fines) : fines'[j] = IF j = i THEN late ELSE fines[j]
  BY <1>2, <1>4, Facts, ExceptSeq
<1>6. FinesSound(fines')
  BY <1>4, <1>5, Facts DEF FinesSound
<1> QED BY <1>5, <1>6, FinesChange DEF DueDateComes

\* Accounts, the loans screen, hanging up.
LEMMA ScreenStep ==
  ASSUME IInv, ~gameover,
         \/ CreateNewAccount
         \/ \E index \in 1..opened : SetCurrentAccount(index)
         \/ \E a \in Accounts : OpenLoans(a)
         \/ IncreaseLoanClick
         \/ DecreaseLoanClick
         \/ HangUp
         \/ OtherScreen
  PROVE  IInv'
<1>1. /\ opened \in 1..Len(Own) /\ Len(Own) \in Nat /\ LoanStep \in Nat /\ creditrating \in Int
      /\ loan \in [Accounts -> Int]
  BY ConstantsAssumption, Facts DEF IInv, TypeOK
<1>2. CASE CreateNewAccount
  <2>1. opened' \in 1..Len(Own) /\ current' \in 1..opened'
    BY <1>1, <1>2 DEF CreateNewAccount, IInv, TypeOK
  <2>2. TypeOK'
    BY <1>2, <2>1 DEF CreateNewAccount, IInv, TypeOK
  <2> QED BY <1>2, <2>2, OthersChange DEF CreateNewAccount
<1>3. ASSUME NEW index \in 1..opened, SetCurrentAccount(index) PROVE IInv'
  <2>1. TypeOK'
    BY <1>3 DEF SetCurrentAccount, IInv, TypeOK
  <2> QED BY <1>3, <2>1, OthersChange DEF SetCurrentAccount
<1>4. ASSUME NEW a \in Accounts, OpenLoans(a) PROVE IInv'
  <2>1. screen' \in LoansScreen
    BY <1>4 DEF OpenLoans, LoansScreen
  <2>2. TypeOK'
    BY <1>4, <2>1 DEF OpenLoans, IInv, TypeOK
  <2> QED BY <1>4, <2>2, OthersChange DEF OpenLoans
<1>5. CASE IncreaseLoanClick
  <2>1. screen \in LoansScreen
    BY <1>5 DEF IncreaseLoanClick, IInv, TypeOK
  <2>2. PICK change, most : /\ change = screen.loanchange + LoanStep
                            /\ most = creditrating * LoanStep
                            /\ change \in Int /\ most \in Int
    <3>1. creditrating * LoanStep \in Int /\ screen.loanchange + LoanStep \in Int
      BY <1>1, <2>1 DEF LoansScreen
    <3> QED BY <3>1
  <2>3. screen' = [screen EXCEPT !.loanchange = IF change > most THEN most ELSE change]
    BY <1>5, <2>2 DEF IncreaseLoanClick
  <2>4. screen' \in LoansScreen
    BY <2>1, <2>2, <2>3 DEF LoansScreen
  <2>5. TypeOK'
    BY <1>5, <2>4 DEF IncreaseLoanClick, IInv, TypeOK
  <2> QED BY <1>5, <2>5, OthersChange DEF IncreaseLoanClick
<1>6. CASE DecreaseLoanClick
  <2>1. screen \in LoansScreen
    BY <1>6 DEF DecreaseLoanClick, IInv, TypeOK
  <2>2. PICK change, owed : /\ change = screen.loanchange - LoanStep
                            /\ owed = loan[screen.account]
                            /\ change \in Int /\ owed \in Int /\ -owed \in Int
    <3>1. screen.loanchange - LoanStep \in Int /\ loan[screen.account] \in Int
      BY <1>1, <2>1 DEF LoansScreen
    <3> QED BY <3>1
  <2>3. screen' = [screen EXCEPT !.loanchange = IF owed + change < 0 THEN -owed ELSE change]
    BY <1>6, <2>2 DEF DecreaseLoanClick
  <2>4. screen' \in LoansScreen
    BY <2>1, <2>2, <2>3 DEF LoansScreen
  <2>5. TypeOK'
    BY <1>6, <2>4 DEF DecreaseLoanClick, IInv, TypeOK
  <2> QED BY <1>6, <2>5, OthersChange DEF DecreaseLoanClick
<1>7. CASE HangUp
  <2>1. TypeOK'
    BY <1>7 DEF HangUp, IInv, TypeOK
  <2> QED BY <1>7, <2>1, OthersChange DEF HangUp
<1>8. CASE OtherScreen
  <2>1. TypeOK'
    BY <1>8 DEF OtherScreen, IInv, TypeOK
  <2> QED BY <1>8, <2>1, OthersChange DEF OtherScreen
<1> QED BY <1>2, <1>3, <1>4, <1>5, <1>6, <1>7, <1>8

LEMMA InStepsType == ASSUME NEW change \in Int PROVE InSteps(change) \in Int
<1>1. LoanStep \in Nat /\ LoanStep > 0
  BY ConstantsAssumption
<1>2. CASE change >= 0
  <2>1. change \div LoanStep \in Int
    BY <1>1, <1>2
  <2> QED BY <1>2, <2>1 DEF InSteps
<1>3. CASE ~(change >= 0)
  <2>1. PICK back \in Nat : back = -change
    BY <1>3
  <2>2. back \div LoanStep \in Int
    BY <1>1, <2>1
  <2>3. InSteps(change) = -(back \div LoanStep)
    BY <1>3, <2>1 DEF InSteps
  <2> QED BY <2>2, <2>3
<1> QED BY <1>2, <1>3

\* What is borrowed is put on the account and on its loan.
LEMMA CloseClickStep ==
  ASSUME IInv, ~gameover, CloseClick
  PROVE  IInv'
<1>1. screen \in LoansScreen
  BY DEF CloseClick, IInv, TypeOK
<1>2. PICK y \in Accounts, change \in Int : y = screen.account /\ change = screen.loanchange
  BY <1>1 DEF LoansScreen
<1>3. PICK now \in Int : now = book.balance[y] + change
  BY Facts, BookFields
<1>4. /\ loan' = [loan EXCEPT ![y] = @ + change]
      /\ book' = [book EXCEPT !.balance[y] = now, !.made = @ + 1]
      /\ creditrating' = creditrating - InSteps(change)
      /\ screen' = screen \/ screen' = None
      /\ UNCHANGED <<opened, current, fines, uplinkrating, shares, connected, gameover, paidin,
                     failed>>
  BY <1>2, <1>3 DEF CloseClick
<1>5. /\ book' \in Book
      /\ book'.balance = [book.balance EXCEPT ![y] = now]
      /\ book'.logs = book.logs /\ book'.robberies = book.robberies
      /\ book'.made = book.made + 1
  <2>0. book \in Book /\ y \in Accounts /\ now \in Int
    BY Facts
  <2>1. LET c == [book EXCEPT !.balance[y] = now, !.made = @ + 1]
        IN /\ c \in Book
           /\ c.balance = [book.balance EXCEPT ![y] = now]
           /\ c.logs = book.logs /\ c.robberies = book.robberies /\ c.made = book.made + 1
    BY <2>0, BookRebalanced, Zenon
  <2> QED BY <1>4, <2>1, Zenon
<1>6. Sound(book')
  <2>1. book.made \in Nat
    BY Facts, BookFields
  <2> QED BY <1>5, <2>1, Facts, SoundStays
<1>7. loan' \in [Accounts -> Int]
  <2>1. loan \in [Accounts -> Int] /\ loan[y] + change \in Int
    BY Facts
  <2> QED BY <1>4, <2>1
<1>8. Total(book', loan') = Total(book, loan)
  <2>1. book'.balance = [book.balance EXCEPT ![y] = @ + change]
    BY <1>3, <1>5
  <2>2. loan' = [loan EXCEPT ![y] = @ + change]
    BY <1>4
  <2>3. book \in Book /\ book' \in Book /\ loan \in [Accounts -> Int]
    BY <1>5, Facts
  <2>4. \A a \in Accounts : /\ book.balance[a] \in Int /\ loan[a] \in Int
                            /\ book'.balance[a] = IF a = y THEN book.balance[y] + change
                                                  ELSE book.balance[a]
                            /\ loan'[a] = IF a = y THEN loan[y] + change ELSE loan[a]
    BY <2>1, <2>2, <2>3, BookFields
  <2>5. \A a \in Accounts : book'.balance[a] - loan'[a] = book.balance[a] - loan[a]
    BY <2>4
  <2> QED BY <2>5, TotalBorrowed
<1>9. creditrating' \in Int
  <2>1. creditrating \in Int /\ InSteps(change) \in Int
    BY InStepsType DEF IInv, TypeOK
  <2> QED BY <1>4, <2>1
<1>10. TypeOK'
  BY <1>1, <1>4, <1>5, <1>7, <1>9 DEF IInv, TypeOK
<1>11. Total(book', loan') = paidin' /\ failed' = FALSE /\ FinesSound(fines')
  BY <1>4, <1>8, Facts
<1> QED BY <1>4, <1>6, <1>10, <1>11, Reassemble DEF Sound

\* Interest is owed for nothing that came in.
LEMMA AddInterestOnLoansStep ==
  ASSUME IInv, ~gameover, AddInterestOnLoans
  PROVE  IInv'
<1>1. PICK interest \in [ToSet(accounts) -> Interests] :
        LET amountpaid == [a \in Accounts |->
              IF IsPlayerAccount(a) /\ loan[a] > 0 THEN interest[a] ELSE 0]
        IN /\ loan' = [a \in Accounts |-> loan[a] + amountpaid[a]]
           /\ paidin' = paidin - SumFunctionOnSet(amountpaid, Accounts)
  BY DEF AddInterestOnLoans
<1> DEFINE amountpaid == [a \in Accounts |->
              IF IsPlayerAccount(a) /\ loan[a] > 0 THEN interest[a] ELSE 0]
<1>2. amountpaid \in [Accounts -> Int]
  <2>1. Interests \subseteq Int
    BY ConstantsAssumption
  <2>2. \A a \in ToSet(accounts) : interest[a] \in Int
    BY <2>1
  <2> QED BY <2>2 DEF IsPlayerAccount
<1>3. /\ loan' = [a \in Accounts |-> loan[a] + amountpaid[a]]
      /\ paidin' = paidin - SumFunctionOnSet(amountpaid, Accounts)
  BY <1>1
<1> HIDE DEF amountpaid
<1>4. /\ book' = [book EXCEPT !.made = @ + 1]
      /\ UNCHANGED <<opened, current, fines, uplinkrating, creditrating, shares, screen,
                     connected, gameover, failed>>
  BY DEF AddInterestOnLoans
<1>5. /\ book' \in Book
      /\ book'.balance = book.balance
      /\ book'.logs = book.logs /\ book'.robberies = book.robberies
      /\ book'.made = book.made + 1
  <2>1. PICK B, L, R, n : book = [balance |-> B, logs |-> L, robberies |-> R, made |-> n]
    BY Facts DEF Book
  <2>2. book' = [balance |-> B, logs |-> L, robberies |-> R, made |-> n + 1]
    BY <1>4, <2>1
  <2>3. /\ book.balance = B /\ book.logs = L /\ book.robberies = R /\ book.made = n
        /\ book'.balance = B /\ book'.logs = L /\ book'.robberies = R /\ book'.made = n + 1
    BY <2>1, <2>2
  <2>4. n + 1 \in Nat
    BY <2>3, Facts, BookFields
  <2>5. book' \in Book
    BY <2>2, <2>3, <2>4, Facts, BookFields DEF Book
  <2> QED BY <2>3, <2>5
<1>6. Sound(book')
  <2>1. book.made \in Nat
    BY Facts, BookFields
  <2> QED BY <1>5, <2>1, Facts, SoundStays
<1>7. SumFunctionOnSet(amountpaid, Accounts) \in Int
  BY <1>2, AccountsFinite, SumType
<1>8. Total(book', loan') = Total(book, loan) - SumFunctionOnSet(amountpaid, Accounts)
  BY <1>2, <1>3, <1>5, Facts, TotalInterest
<1>9. loan' \in [Accounts -> Int]
  BY <1>2, <1>3, Facts
<1>10. paidin' \in Int /\ Total(book', loan') = paidin'
  BY <1>3, <1>7, <1>8, Facts
<1>11. TypeOK'
  BY <1>4, <1>5, <1>9, <1>10 DEF IInv, TypeOK
<1> QED BY <1>4, <1>6, <1>10, <1>11, Facts, Reassemble DEF Sound

LEMMA InitEstablishes == Init => IInv
<1> SUFFICES ASSUME Init PROVE IInv
  OBVIOUS
<1>1. book = [balance |-> Money, logs |-> [a \in Accounts |-> {}], robberies |-> {}, made |-> 0]
  BY DEF Init
<1>2. /\ book.balance = Money /\ book.logs = [a \in Accounts |-> {}]
      /\ book.robberies = {} /\ book.made = 0
  BY <1>1
<1>3. Money \in [Accounts -> Int] /\ \A a \in Accounts : Money[a] \in Int
  BY ConstantsAssumption
<1>4. book \in Book
  BY <1>1, <1>3 DEF Book
<1>5. /\ loan = [a \in Accounts |-> 0] /\ opened = 1 /\ current = 1 /\ fines = <<>>
      /\ uplinkrating = 1 /\ creditrating = 1 /\ shares = 0 /\ screen = None
      /\ connected = FALSE /\ gameover = FALSE /\ failed = FALSE
      /\ paidin = SumFunctionOnSet(Money, Accounts)
  BY DEF Init
<1>6. paidin \in Int
  BY <1>3, <1>5, AccountsFinite, SumType
<1>7. 1 \in 1..Len(Own) /\ 1 \in 1..MaxRating /\ 0 \in 0..MaxShares
  BY ConstantsAssumption
<1>8. TypeOK
  <2>1. loan \in [Accounts -> Int] /\ fines \in Seq(PayFine) /\ current \in 1..opened
        /\ screen \in LoansScreen \cup {None}
    BY <1>5
  <2>2. opened \in 1..Len(Own) /\ uplinkrating \in 1..MaxRating /\ shares \in 0..MaxShares
        /\ creditrating \in Int
    BY <1>5, <1>7
  <2>3. connected \in BOOLEAN /\ gameover \in BOOLEAN /\ failed \in BOOLEAN
    BY <1>5
  <2> QED BY <1>4, <1>6, <2>1, <2>2, <2>3, Zenon DEF TypeOK
<1>9. Linked(book) /\ RobberyAnswered
  BY <1>2 DEF Linked, RobberyAnswered
<1>10. FinesSound(fines) /\ AssertsHold
  BY <1>5 DEF FinesSound, AssertsHold
<1>11. MoneyKept
  <2> DEFINE net == [a \in Accounts |-> book.balance[a] - loan[a]]
  <2>1. \A a \in Accounts : net[a] = Money[a]
    BY <1>2, <1>3, <1>5
  <2> HIDE DEF net
  <2>2. SumFunctionOnSet(net, Accounts) = SumFunctionOnSet(Money, Accounts)
    BY <2>1, AccountsFinite, SumSame
  <2> QED BY <1>5, <2>2 DEF MoneyKept, net
<1> QED BY <1>8, <1>9, <1>10, <1>11 DEF IInv

\* Every step of the game keeps the invariant.
LEMMA NextKeeps == IInv /\ [Next]_vars => IInv'
<1> SUFFICES ASSUME IInv, [Next]_vars PROVE IInv'
  OBVIOUS
<1>1. CASE UNCHANGED vars
  BY <1>1 DEF vars, IInv, TypeOK, Linked, FinesSound, Exists, IsPlayerAccount, accounts,
              RobberyAnswered, AssertsHold, MoneyKept
<1>2. CASE Next
  <2>1. ~gameover /\ (Player \/ World)
    BY <1>2 DEF Next
  <2>2. CASE Player
    <3>1. ASSUME NEW pair \in Pairs, NEW amount \in Amounts,
                 Transfer(pair[1], pair[2], amount, TRUE)
          PROVE IInv'
      BY <2>1, <3>1, TransferStep
    <3>2. ASSUME NEW a \in Accounts, NEW log \in book.logs[a], HideLog(a, log) PROVE IInv'
      BY <2>1, <3>2, HideLogStep
    <3>3. ASSUME NEW cost \in Sums, Charge(cost, TRUE) PROVE IInv'
      BY <2>1, <3>3, ChargeStep
    <3>4. ASSUME NEW lots \in {-1, 1}, NEW price \in Sums, TradeShares(lots, price) PROVE IInv'
      BY <2>1, <3>4, TradeSharesStep
    <3>5. CASE ClickPayFinesButton
      BY <2>1, <3>5, ClickPayFinesButtonStep
    <3>6. ASSUME NEW amount, ConfirmFines(amount) PROVE IInv'
      BY <2>1, <3>6, ConfirmFinesStep
    <3>7. CASE \/ CreateNewAccount
               \/ \E index \in 1..opened : SetCurrentAccount(index)
               \/ \E a \in Accounts : OpenLoans(a)
               \/ IncreaseLoanClick
               \/ DecreaseLoanClick
               \/ HangUp
               \/ OtherScreen
      BY <2>1, <3>7, ScreenStep
    <3>8. CASE CloseClick
      BY <2>1, <3>8, CloseClickStep
    <3> QED BY <2>2, <3>1, <3>2, <3>3, <3>4, <3>5, <3>6, <3>7, <3>8, Zenon DEF Player
  <2>3. CASE World
    <3>1. ASSUME NEW pair \in Pairs, NEW amount \in Amounts,
                 Transfer(pair[1], pair[2], amount, FALSE)
          PROVE IInv'
      BY <2>1, <3>1, TransferStep
    <3>2. ASSUME NEW r \in book.robberies, RunRobbery(r) PROVE IInv'
      BY <2>1, <3>2, RunRobberyStep
    <3>3. ASSUME NEW amount \in Sums, Earn(amount) PROVE IInv'
      BY <2>1, <3>3, EarnStep
    <3>4. ASSUME NEW amount \in Sums, Charge(amount, FALSE) PROVE IInv'
      BY <2>1, <3>4, ChargeStep
    <3>5. ASSUME NEW amount \in Sums, CaughtHacking(amount) PROVE IInv'
      BY <2>1, <3>5, CaughtHackingStep
    <3>6. ASSUME NEW i \in 1..Len(fines), DueDateComes(i) PROVE IInv'
      BY <2>1, <3>6, DueDateComesStep
    <3>7. CASE CheckMissionDueDates
      BY <2>1, <3>7, CheckMissionDueDatesStep
    <3>8. CASE AddInterestOnLoans
      BY <2>1, <3>8, AddInterestOnLoansStep
    <3> QED BY <2>3, <3>1, <3>2, <3>3, <3>4, <3>5, <3>6, <3>7, <3>8, Zenon DEF World
  <2> QED BY <2>1, <2>2, <2>3
<1> QED BY <1>1, <1>2

-----------------------------------------------------------------------------
(* What becomes of fines.                                                  *)

\* g is the fine f, by now perhaps overdue.
SameFine(f, g) ==
  /\ g.account = f.account /\ g.amount = f.amount /\ g.since = f.since
  /\ f.overdue => g.overdue

\* What a step may do to fines: one stays until it is paid, or until it is overdue
\* on a day on which that is looked at, and one that comes is new.
Duly ==
  /\ \A j \in 1..Len(fines) :
       \/ \E i \in 1..Len(fines') : SameFine(fines[j], fines'[i])
       \/ IsMissionComplete(book', fines[j])
       \/ fines[j].overdue /\ CheckMissionDueDates
  /\ \A i \in 1..Len(fines') :
       \/ \E j \in 1..Len(fines) : SameFine(fines[j], fines'[i])
       \/ fines'[i].since = book.made + 1 /\ ~fines'[i].overdue

NoneOverdue == \A i \in 1..Len(fines) : ~fines[i].overdue

\* No fine is lost, none comes from nowhere, none gets younger; and none that is
\* overdue outlasts the day.
FinesGoDuly == [][Duly /\ (CheckMissionDueDates => NoneOverdue')]_vars

\* The fines of a list.
InList(list) == {list[i] : i \in 1..Len(list)}

LEMMA InAppended ==
  ASSUME NEW list \in Seq(PayFine), NEW fine \in PayFine
  PROVE  InList(Append(list, fine)) = InList(list) \cup {fine}
<1>1. /\ Len(Append(list, fine)) = Len(list) + 1 /\ Len(list) \in Nat
      /\ \A i \in 1..Len(list) : Append(list, fine)[i] = list[i]
      /\ Append(list, fine)[Len(list) + 1] = fine
  BY AppendProperties
<1>2. \A i \in 1..(Len(list) + 1) : i \in 1..Len(list) \/ i = Len(list) + 1
  BY <1>1
<1>3. InList(Append(list, fine)) \subseteq InList(list) \cup {fine}
  BY <1>1, <1>2 DEF InList
<1>4. \A i \in 1..Len(list) : i \in 1..(Len(list) + 1)
  BY <1>1
<1>5. Len(list) + 1 \in 1..(Len(list) + 1)
  BY <1>1
<1>6. InList(list) \cup {fine} \subseteq InList(Append(list, fine))
  BY <1>1, <1>4, <1>5 DEF InList
<1> QED BY <1>3, <1>6

\* FinesLeft leaves out the fines it is told to and no other.
LEMMA LeftAre ==
  ASSUME fines \in Seq(PayFine), NEW gone
  PROVE  InList(FinesLeft(gone)) = {fines[j] : j \in (1..Len(fines)) \ gone}
<1>1. Len(fines) \in Nat /\ \A i \in 1..Len(fines) : fines[i] \in PayFine
  OBVIOUS
<1>2. PICK left : /\ FinesLeft(gone) = left[Len(fines)]
                  /\ \A i \in 0..Len(fines) : left[i] = LeftTurn(gone, left, i)
  BY <1>1, LeftDefined
<1> DEFINE Fits(n) == /\ left[n] \in Seq(PayFine)
                      /\ InList(left[n]) = {fines[j] : j \in (1..n) \ gone}
           B == {n \in 0..Len(fines) : ~Fits(n)}
<1>3. ASSUME B # {} PROVE FALSE
  <2>1. PICK n \in B : n = 0 \/ n - 1 \notin B
    <3>1. B \subseteq Nat
      BY <1>1
    <3> HIDE DEF B
    <3> QED BY <1>3, <3>1, LeastNumber
  <2>2. n \in 0..Len(fines) /\ ~Fits(n) /\ left[n] = LeftTurn(gone, left, n)
    BY <1>2
  <2>3. CASE n = 0
    <3>1. left[n] = <<>>
      BY <2>2, <2>3 DEF LeftTurn
    <3>2. Fits(n)
      BY <2>3, <3>1 DEF InList
    <3> QED BY <2>2, <3>2
  <2>4. CASE n # 0
    <3>1. n - 1 \in 0..Len(fines) /\ n \in 1..Len(fines)
      BY <1>1, <2>2, <2>4
    <3>2. Fits(n - 1)
      BY <2>1, <2>4, <3>1
    <3>3. PICK list, fine : list = left[n - 1] /\ fine = fines[n]
      OBVIOUS
    <3>4. list \in Seq(PayFine) /\ fine \in PayFine
      BY <1>1, <3>1, <3>2, <3>3
    <3>5. InList(list) = {fines[j] : j \in (1..(n - 1)) \ gone}
      BY <3>2, <3>3
    <3>6. \A j : j \in 1..n <=> j \in 1..(n - 1) \/ j = n
      BY <3>1
    <3>7. CASE n \in gone
      <4>1. left[n] = list
        BY <2>2, <2>4, <3>3, <3>7 DEF LeftTurn
      <4>2. (1..n) \ gone = (1..(n - 1)) \ gone
        BY <3>6, <3>7
      <4> QED BY <2>2, <3>4, <3>5, <4>1, <4>2
    <3>8. CASE n \notin gone
      <4>1. left[n] = Append(list, fine)
        BY <2>2, <2>4, <3>3, <3>8 DEF LeftTurn
      <4>2. (1..n) \ gone = ((1..(n - 1)) \ gone) \cup {n}
        BY <3>6, <3>8
      <4>3. InList(left[n]) = InList(list) \cup {fine} /\ left[n] \in Seq(PayFine)
        BY <3>4, <4>1, InAppended
      <4>4. {fines[j] : j \in (1..n) \ gone} = InList(list) \cup {fine}
        BY <3>3, <3>5, <4>2
      <4> QED BY <2>2, <4>3, <4>4
    <3> QED BY <3>7, <3>8
  <2> QED BY <2>3, <2>4
<1> HIDE DEF Fits
<1>4. Len(fines) \in 0..Len(fines)
  BY <1>1
<1>5. B = {}
  <2> HIDE DEF B
  <2> QED BY <1>3
<1>6. Fits(Len(fines))
  BY <1>4, <1>5
<1>7. InList(left[Len(fines)]) = {fines[j] : j \in (1..Len(fines)) \ gone}
  BY <1>6 DEF Fits
<1> QED BY <1>2, <1>7

\* A fine that is found to be paid is so as long as no log goes.
LEMMA StaysComplete ==
  ASSUME NEW b, NEW c, NEW fine, IsMissionComplete(b, fine),
         b.logs[fine.account] \subseteq c.logs[fine.account]
  PROVE  IsMissionComplete(c, fine)
BY DEF IsMissionComplete

\* The pay button leaves every fine it has not paid.
LEMMA PaidDeals ==
  ASSUME IInv, ~gameover
  PROVE  LET done == Paid[Len(fines)]
         IN /\ InList(done.left) \subseteq InList(fines)
            /\ \A j \in 1..Len(fines) :
                 fines[j] \in InList(done.left) \/ IsMissionComplete(done.book, fines[j])
<1>1. /\ opened \in 1..Len(Own) /\ fines \in Seq(PayFine) /\ Len(fines) \in Nat
      /\ FinesSound(fines) /\ loan \in [Accounts -> Int]
      /\ \A i \in 1..Len(fines) : fines[i] \in PayFine /\ fines[i].account \in Accounts
  <2>1. \A i \in 1..Len(fines) : fines[i] \in PayFine
    BY Facts
  <2> QED BY <2>1, Facts DEF PayFine, IInv, TypeOK
<1>2. \A i \in 0..Len(fines) : DoneOK(Paid[i])
  BY PaidKeeps
<1> DEFINE Fits(n) ==
      /\ InList(Paid[n].left) \subseteq InList(fines)
      /\ \A j \in 1..n :
           fines[j] \in InList(Paid[n].left) \/ IsMissionComplete(Paid[n].book, fines[j])
           B == {n \in 0..Len(fines) : ~Fits(n)}
<1>3. ASSUME B # {} PROVE FALSE
  <2>1. PICK n \in B : n = 0 \/ n - 1 \notin B
    <3>1. B \subseteq Nat
      BY <1>1
    <3> HIDE DEF B
    <3> QED BY <1>3, <3>1, LeastNumber
  <2>2. n \in 0..Len(fines) /\ ~Fits(n)
    OBVIOUS
  <2>3. Paid[n] = PayTurn(Paid, n)
    BY <1>1, <2>2, PaidDefined
  <2>4. CASE n = 0
    <3>1. Paid[n].left = <<>>
      BY <2>3, <2>4 DEF PayTurn
    <3>2. InList(<<>>) = {}
      BY DEF InList
    <3>3. Fits(n)
      BY <2>4, <3>1, <3>2
    <3> QED BY <2>2, <3>3
  <2>5. CASE n # 0
    <3>1. n - 1 \in 0..Len(fines) /\ n \in 1..Len(fines)
      BY <1>1, <2>2, <2>5
    <3>2. Fits(n - 1)
      BY <2>1, <2>5, <3>1
    <3>3. PICK before, next, fine : before = Paid[n - 1] /\ next = Paid[n] /\ fine = fines[n]
      OBVIOUS
    <3>4. /\ next = PayOne(before, fine) /\ DoneOK(before)
          /\ fine \in PayFine /\ Exists(fine.account) /\ fine.amount > 0
      BY <1>1, <1>2, <2>3, <2>5, <3>1, <3>3 DEF PayTurn, FinesSound
    <3>5. Dealt(before, next, fine) /\ before.left \in Seq(PayFine)
      BY <1>1, <3>4, PayOneKeeps DEF DoneOK, Done
    <3>6. fine \in InList(fines)
      BY <3>1, <3>3 DEF InList
    <3>7. /\ InList(before.left) \subseteq InList(fines)
          /\ \A j \in 1..(n - 1) :
               fines[j] \in InList(before.left) \/ IsMissionComplete(before.book, fines[j])
      BY <3>2, <3>3
    <3>8. \A j \in 1..n : j \in 1..(n - 1) \/ j = n
      BY <3>1
    <3>9. CASE next.left = Append(before.left, fine) /\ next.book = before.book
      <4>1. InList(next.left) = InList(before.left) \cup {fine}
        BY <3>4, <3>5, <3>9, InAppended
      <4>2. Fits(n)
        BY <3>3, <3>6, <3>7, <3>8, <3>9, <4>1
      <4> QED BY <2>2, <4>2
    <3>10. CASE /\ next.left = before.left
                /\ IsMissionComplete(next.book, fine)
                /\ \A a \in Accounts : before.book.logs[a] \subseteq next.book.logs[a]
      <4>1. ASSUME NEW j \in 1..(n - 1), IsMissionComplete(before.book, fines[j])
            PROVE  IsMissionComplete(next.book, fines[j])
        <5>1. fines[j].account \in Accounts
          BY <1>1, <3>1
        <5> QED BY <3>10, <4>1, <5>1, StaysComplete
      <4>2. Fits(n)
        BY <3>3, <3>7, <3>8, <3>10, <4>1
      <4> QED BY <2>2, <4>2
    <3> QED BY <3>5, <3>9, <3>10 DEF Dealt
  <2> QED BY <2>4, <2>5
<1> HIDE DEF Fits
<1>4. Len(fines) \in 0..Len(fines)
  BY <1>1
<1>5. B = {}
  <2> HIDE DEF B
  <2> QED BY <1>3
<1>6. Fits(Len(fines))
  BY <1>4, <1>5
<1>7. /\ InList(Paid[Len(fines)].left) \subseteq InList(fines)
      /\ \A j \in 1..Len(fines) : \/ fines[j] \in InList(Paid[Len(fines)].left)
                                  \/ IsMissionComplete(Paid[Len(fines)].book, fines[j])
  BY <1>6, Zenon DEF Fits
<1> QED BY <1>7, Zenon

\* One step of the recursion of ConfirmFines.
RemovedTurn(amount, h, i) ==
  /\ i > 0
  /\ ~h[i - 1]
  /\ fines[i].amount = amount
  /\ IsMissionComplete(book, fines[i])

LEMMA RemovedTurnReadsLast ==
  ASSUME NEW amount, NEW g, NEW h, NEW i, i # 0 => g[i - 1] = h[i - 1], i \in Nat
  PROVE  RemovedTurn(amount, g, i) = RemovedTurn(amount, h, i)
BY DEF RemovedTurn

LEMMA RemovedDefined ==
  ASSUME Len(fines) \in Nat, NEW amount, ConfirmFines(amount)
  PROVE  \E removed : /\ fines' = FinesLeft({i \in 1..Len(fines) : removed[i]})
                      /\ \A i \in 0..Len(fines) : removed[i] = RemovedTurn(amount, removed, i)
<1> DEFINE UpTo(n) == \E h : h = [i \in 0..n |-> RemovedTurn(amount, h, i)]
           B == {n \in Nat : ~UpTo(n)}
<1>1. ASSUME B # {} PROVE FALSE
  <2>1. PICK n \in B : n = 0 \/ n - 1 \notin B
    <3>1. B \subseteq Nat
      OBVIOUS
    <3> HIDE DEF B
    <3> QED BY <1>1, <3>1, LeastNumber
  <2>2. n \in Nat /\ ~UpTo(n)
    OBVIOUS
  <2>3. \E g : \A i \in 0..(n - 1) : g[i] = RemovedTurn(amount, g, i)
    <3>1. CASE n = 0
      BY <3>1
    <3>2. CASE n # 0
      <4>1. n - 1 \in Nat /\ UpTo(n - 1)
        BY <2>1, <2>2, <3>2
      <4>2. PICK g : g = [i \in 0..(n - 1) |-> RemovedTurn(amount, g, i)]
        BY <4>1
      <4>3. \A i \in 0..(n - 1) : g[i] = RemovedTurn(amount, g, i)
        BY <4>2
      <4> QED BY <4>3
    <3> QED BY <3>1, <3>2
  <2>4. PICK g : \A i \in 0..(n - 1) : g[i] = RemovedTurn(amount, g, i)
    BY <2>3
  <2> DEFINE h == [i \in 0..n |-> RemovedTurn(amount, g, i)]
  <2>5. \A i \in 0..n : h[i] = RemovedTurn(amount, g, i)
    OBVIOUS
  <2>6. h = [i \in 0..n |-> h[i]]
    OBVIOUS
  <2> HIDE DEF h
  <2>7. ASSUME NEW i \in 0..n PROVE h[i] = RemovedTurn(amount, h, i)
    <3>1. i # 0 => i - 1 \in 0..n /\ i - 1 \in 0..(n - 1)
      BY <2>2
    <3>2. i # 0 => g[i - 1] = h[i - 1]
      BY <2>4, <2>5, <3>1
    <3>3. RemovedTurn(amount, g, i) = RemovedTurn(amount, h, i)
      BY <3>2, RemovedTurnReadsLast
    <3> QED BY <2>5, <3>3
  <2>8. h = [i \in 0..n |-> RemovedTurn(amount, h, i)]
    BY <2>6, <2>7
  <2> QED BY <2>2, <2>8
<1>2. UpTo(Len(fines))
  BY <1>1
<1> DEFINE removed == CHOOSE h : h = [i \in 0..Len(fines) |-> RemovedTurn(amount, h, i)]
<1>3. fines' = FinesLeft({i \in 1..Len(fines) : removed[i]})
  BY DEF ConfirmFines, RemovedTurn
<1>4. removed = [i \in 0..Len(fines) |-> RemovedTurn(amount, removed, i)]
  BY <1>2
<1> HIDE DEF removed
<1>5. \A i \in 0..Len(fines) : removed[i] = RemovedTurn(amount, removed, i)
  BY <1>4
<1> QED BY <1>3, <1>5

\* A step that lets fines go, each for a reason.
LEMMA SomeGo ==
  ASSUME InList(fines') \subseteq InList(fines),
         \A j \in 1..Len(fines) : \/ fines[j] \in InList(fines')
                                  \/ IsMissionComplete(book', fines[j])
                                  \/ fines[j].overdue /\ CheckMissionDueDates
  PROVE  Duly
<1>1. ASSUME NEW j \in 1..Len(fines), fines[j] \in InList(fines')
      PROVE  \E i \in 1..Len(fines') : SameFine(fines[j], fines'[i])
  <2>1. PICK i \in 1..Len(fines') : fines[j] = fines'[i]
    BY <1>1 DEF InList
  <2> QED BY <2>1 DEF SameFine
<1>2. ASSUME NEW i \in 1..Len(fines')
      PROVE  \E j \in 1..Len(fines) : SameFine(fines[j], fines'[i])
  <2>1. fines'[i] \in InList(fines)
    BY DEF InList
  <2>2. PICK j \in 1..Len(fines) : fines'[i] = fines[j]
    BY <2>1 DEF InList
  <2> QED BY <2>2 DEF SameFine
<1> QED BY <1>1, <1>2 DEF Duly

LEMMA NoneGoes ==
  ASSUME UNCHANGED fines
  PROVE  Duly
<1>1. \A j \in 1..Len(fines) : fines[j] \in InList(fines)
  BY DEF InList
<1>2. InList(fines') = InList(fines)
  BY DEF InList
<1> QED BY <1>1, <1>2, SomeGo

LEMMA OneComes ==
  ASSUME IInv, ~gameover, NEW account \in Payable, NEW amount \in Nat \ {0},
         fines' = Append(fines, Given(account, amount))
  PROVE  Duly
<1>1. PICK fine : fine = Given(account, amount)
  OBVIOUS
<1>2. fine.since = book.made + 1 /\ ~fine.overdue
  BY <1>1 DEF Given
<1>3. fine \in PayFine
  <2>1. book.made + 1 \in Nat /\ account \in Accounts
    BY Facts, BookFields, ConstantsAssumption DEF Payable
  <2> QED BY <1>1, <2>1 DEF Given, PayFine
<1>4. /\ Len(fines') = Len(fines) + 1 /\ Len(fines) \in Nat
      /\ \A i \in 1..Len(fines) : fines'[i] = fines[i]
      /\ fines'[Len(fines) + 1] = fine
  BY <1>1, <1>3, Facts, AppendProperties
<1>5. \A j \in 1..Len(fines) : j \in 1..Len(fines') /\ SameFine(fines[j], fines'[j])
  BY <1>4 DEF SameFine
<1>6. ASSUME NEW i \in 1..Len(fines')
      PROVE  \/ i \in 1..Len(fines)
             \/ fines'[i].since = book.made + 1 /\ ~fines'[i].overdue
  <2>1. i \in 1..Len(fines) \/ i = Len(fines) + 1
    BY <1>4
  <2> QED BY <1>2, <1>4, <2>1
<1> QED BY <1>5, <1>6 DEF Duly

LEMMA ChangeBalanceDuly ==
  ASSUME IInv, ~gameover, NEW amount, ChangeBalance(amount)
  PROVE  Duly
<1>1. UNCHANGED fines \/ \E account \in Payable : fines' = Append(fines, Given(account, Fine))
  BY DEF ChangeBalance
<1> QED BY <1>1, NoneGoes, OneComes, ConstantsAssumption

LEMMA ConfirmFinesDuly ==
  ASSUME IInv, ~gameover, NEW amount, ConfirmFines(amount)
  PROVE  Duly
<1>1. fines \in Seq(PayFine) /\ Len(fines) \in Nat
  BY Facts
<1>2. PICK removed : /\ fines' = FinesLeft({i \in 1..Len(fines) : removed[i]})
                     /\ \A i \in 0..Len(fines) : removed[i] = RemovedTurn(amount, removed, i)
  BY <1>1, RemovedDefined
<1>3. PICK gone : gone = {i \in 1..Len(fines) : removed[i]}
  OBVIOUS
<1>4. InList(fines') = {fines[j] : j \in (1..Len(fines)) \ gone}
  BY <1>1, <1>2, <1>3, LeftAre
<1>5. ASSUME NEW j \in gone PROVE IsMissionComplete(book', fines[j])
  <2>1. j \in 0..Len(fines) /\ removed[j]
    BY <1>1, <1>3
  <2>2. RemovedTurn(amount, removed, j)
    BY <1>2, <2>1
  <2> QED BY <2>2 DEF RemovedTurn, ConfirmFines
<1>6. InList(fines') \subseteq InList(fines)
  BY <1>4 DEF InList
<1> QED BY <1>4, <1>5, <1>6, SomeGo

LEMMA CheckMissionDueDatesDuly ==
  ASSUME IInv, ~gameover, CheckMissionDueDates
  PROVE  Duly /\ NoneOverdue'
<1>1. fines \in Seq(PayFine)
  BY Facts
<1>2. PICK gone : gone = {i \in 1..Len(fines) : fines[i].overdue}
  OBVIOUS
<1>3. fines' = FinesLeft(gone)
  BY <1>2 DEF CheckMissionDueDates
<1>4. InList(fines') = {fines[j] : j \in (1..Len(fines)) \ gone}
  BY <1>1, <1>3, LeftAre
<1>5. InList(fines') \subseteq InList(fines)
  BY <1>4 DEF InList
<1>6. Duly
  BY <1>2, <1>4, <1>5, SomeGo
<1>7. ASSUME NEW i \in 1..Len(fines') PROVE ~fines'[i].overdue
  <2>1. fines'[i] \in InList(fines')
    BY DEF InList
  <2>2. PICK j \in (1..Len(fines)) \ gone : fines'[i] = fines[j]
    BY <1>4, <2>1
  <2> QED BY <1>2, <2>2
<1> QED BY <1>6, <1>7 DEF NoneOverdue

LEMMA DueDateComesDuly ==
  ASSUME IInv, ~gameover, NEW i \in 1..Len(fines), DueDateComes(i)
  PROVE  Duly
<1>1. PICK late : late = [fines[i] EXCEPT !.overdue = TRUE]
  OBVIOUS
<1>2. fines' = [fines EXCEPT ![i] = late]
  BY <1>1 DEF DueDateComes
<1>3. fines[i] \in PayFine
  BY Facts
<1>4. late \in PayFine /\ SameFine(fines[i], late)
  BY <1>1, <1>3 DEF PayFine, SameFine
<1>5. /\ Len(fines') = Len(fines)
      /\ \A j \in 1..Len(fines) : fines'[j] = IF j = i THEN late ELSE fines[j]
  BY <1>2, <1>4, Facts, ExceptSeq
<1>6. \A j \in 1..Len(fines) : SameFine(fines[j], fines'[j])
  BY <1>4, <1>5 DEF SameFine
<1> QED BY <1>5, <1>6 DEF Duly

LEMMA ClickPayFinesButtonDuly ==
  ASSUME IInv, ~gameover, ClickPayFinesButton
  PROVE  Duly
<1>1. PICK done : done = Paid[Len(fines)]
  OBVIOUS
<1>2. book' = done.book /\ fines' = done.left
  BY <1>1 DEF ClickPayFinesButton
<1>3. /\ InList(done.left) \subseteq InList(fines)
      /\ \A j \in 1..Len(fines) :
           fines[j] \in InList(done.left) \/ IsMissionComplete(done.book, fines[j])
  BY <1>1, PaidDeals
<1>4. InList(fines') = InList(done.left)
  BY <1>2 DEF InList
<1> QED BY <1>2, <1>3, <1>4, SomeGo

\* Every step treats fines duly.
LEMMA NextDuly ==
  ASSUME IInv, Next
  PROVE  Duly
<1>1. ~gameover /\ (Player \/ World)
  BY DEF Next
<1>2. CASE UNCHANGED fines
  BY <1>2, NoneGoes
<1>3. CASE Player
  <2>1. ASSUME NEW cost \in Sums, Charge(cost, TRUE) PROVE Duly
    BY <1>1, <2>1, ChangeBalanceDuly DEF Charge
  <2>2. ASSUME NEW lots \in {-1, 1}, NEW price \in Sums, TradeShares(lots, price) PROVE Duly
    BY <1>1, <2>2, ChangeBalanceDuly DEF TradeShares
  <2>3. CASE ClickPayFinesButton
    BY <1>1, <2>3, ClickPayFinesButtonDuly
  <2>4. ASSUME NEW amount, ConfirmFines(amount) PROVE Duly
    BY <1>1, <2>4, ConfirmFinesDuly
  <2>5. CASE \/ \E pair \in Pairs, amount \in Amounts : Transfer(pair[1], pair[2], amount, TRUE)
             \/ \E a \in Accounts : \E log \in book.logs[a] : HideLog(a, log)
             \/ CreateNewAccount
             \/ \E index \in 1..opened : SetCurrentAccount(index)
             \/ \E a \in Accounts : OpenLoans(a)
             \/ IncreaseLoanClick
             \/ DecreaseLoanClick
             \/ CloseClick
             \/ HangUp
             \/ OtherScreen
    <3>1. UNCHANGED fines
      BY <2>5 DEF Transfer, HideLog, CreateNewAccount, SetCurrentAccount, OpenLoans,
         IncreaseLoanClick, DecreaseLoanClick, CloseClick, HangUp, OtherScreen
    <3> QED BY <1>2, <3>1
  <2> QED BY <1>3, <2>1, <2>2, <2>3, <2>4, <2>5, Zenon DEF Player
<1>4. CASE World
  <2>1. ASSUME NEW amount \in Sums, Earn(amount) PROVE Duly
    BY <1>1, <2>1, ChangeBalanceDuly DEF Earn
  <2>2. ASSUME NEW amount \in Sums, Charge(amount, FALSE) PROVE Duly
    BY <1>1, <2>2, ChangeBalanceDuly DEF Charge
  <2>3. ASSUME NEW amount \in Sums, CaughtHacking(amount) PROVE Duly
    BY <1>1, <2>3, OneComes, ConstantsAssumption DEF CaughtHacking
  <2>4. ASSUME NEW i \in 1..Len(fines), DueDateComes(i) PROVE Duly
    BY <1>1, <2>4, DueDateComesDuly
  <2>5. CASE CheckMissionDueDates
    BY <1>1, <2>5, CheckMissionDueDatesDuly
  <2>6. CASE \/ \E pair \in Pairs, amount \in Amounts : Transfer(pair[1], pair[2], amount, FALSE)
             \/ \E r \in book.robberies : RunRobbery(r)
             \/ AddInterestOnLoans
    <3>1. UNCHANGED fines
      BY <2>6 DEF Transfer, RunRobbery, AddInterestOnLoans
    <3> QED BY <1>2, <3>1
  <2> QED BY <1>4, <2>1, <2>2, <2>3, <2>4, <2>5, <2>6, Zenon DEF World
<1> QED BY <1>1, <1>3, <1>4

-----------------------------------------------------------------------------
(* Theorems.                                                               *)

LEMMA Invariance == Spec => []IInv
BY InitEstablishes, NextKeeps, PTL DEF Spec

\* The accounts, logs, fines, loans and shares keep their types: of shares, that
\* no more are sold than are owned.
THEOREM TypesKept == Spec => []TypeOK
<1>1. IInv => TypeOK
  BY DEF IInv
<1> QED BY <1>1, Invariance, PTL

\* TransferMoney, ChangeBalance and the loans make no money and lose none: the
\* sum of all balances less all loans is what came in from outside.
THEOREM NoMoneyMade == Spec => []MoneyKept
<1>1. IInv => MoneyKept
  BY DEF IInv
<1> QED BY <1>1, Invariance, PTL

\* BankRobberyEvent::Run answers every theft of which either bank still has a
\* log, whatever other transfers are like it and whatever logs are hidden.
THEOREM TheftsAreAnswered == Spec => []RobberyAnswered
<1>1. IInv => RobberyAnswered
  BY DEF IInv
<1> QED BY <1>1, Invariance, PTL

\* The two assertions of FinanceInterface::ClickPayFinesButton never fail: its
\* transfers succeed, and IsMissionComplete_PayFine sees that the fine is paid.
THEOREM PayButtonAssertsHold == Spec => []AssertsHold
<1>1. IInv => AssertsHold
  BY DEF IInv
<1> QED BY <1>1, Invariance, PTL

\* Whatever is paid, confirmed or overdue, and in whatever order: a fine leaves the
\* player's missions only when it is paid or its day has come, and then it does.
THEOREM FinesOnlyGoDuly == Spec => FinesGoDuly
<1>1. IInv /\ [Next]_vars => [Duly /\ (CheckMissionDueDates => NoneOverdue')]_vars
  <2> SUFFICES ASSUME IInv, Next
               PROVE  Duly /\ (CheckMissionDueDates => NoneOverdue')
    OBVIOUS
  <2>1. ~gameover
    BY DEF Next
  <2> QED BY <2>1, NextDuly, CheckMissionDueDatesDuly
<1> QED BY <1>1, Invariance, PTL DEF Spec, FinesGoDuly

=============================================================================
