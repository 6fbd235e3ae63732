----------------------------- MODULE UpgradeProofs -----------------------------
(***************************************************************************)
(* The delinquent upgrade, for every list it can find and every number of  *)
(* accounts and validators: what each stage has counted is right, and when *)
(* it is done the books are those of a program that needed no upgrade.     *)
(*                                                                         *)
(* The invariant has one part for each stage.  The first stage works on    *)
(* FirstLoop, what it knows of the accounts and their sums; the second, on *)
(* SecondLoop; from then on the invariant is Books of BooksProofs.         *)
(***************************************************************************)
EXTENDS Upgrade, BooksProofs

-----------------------------------------------------------------------------
(* The invariant.                                                          *)

VisitedStakes == {s \in Stake : Is(s, "Active")}

\* What account s counts for among the accounts visited, and among those that
\* are not: the old ones cooling down in emergency, and the others.
VisitedIn(s) == IF Is(s, "Active") THEN Recorded(s) ELSE 0

UnknownIn(is_emergency, s) ==
  IF Is(s, "Unknown") /\ stake[s].is_emergency_unstaking = is_emergency
  THEN Recorded(s) ELSE 0

VisitedLamports == [s \in Stake |-> VisitedIn(s)]

UnknownLamports(is_emergency) == [s \in Stake |-> UnknownIn(is_emergency, s)]

\* An account during the upgrade: one that was visited is active and stays so.
Awaited(s) ==
  \/ /\ Is(s, "None") /\ Recorded(s) = 0 /\ account[s].activation = "none"
  \/ /\ Is(s, "Unknown")
     /\ Voter(s) \in Validator
     /\ account[s].activation # "none"
     /\ stake[s].is_emergency_unstaking => account[s].activation \in CoolingActivation
  \/ /\ Is(s, "Active") /\ ~stake[s].is_emergency_unstaking
     /\ Voter(s) \in Validator /\ validator[Voter(s)].listed
     /\ account[s].activation \in {"activating", "active"}

\* The first stage, but for its own counters: the active total is too high by
\* what delayed_unstake_cooling_down is too low.
FirstLoop ==
  /\ \A s \in Stake : Awaited(s)
  /\ \A v \in Validator :
       /\ validator[v].delinquent_upgrader_active_balance = Sum(ActiveLamports(v))
       /\ validator[v].delinquent_upgrader_active_balance <= validator[v].active_balance
  /\ total_active_balance + delayed_unstake_cooling_down
       = Sum(VisitedLamports) + Sum(UnknownLamports(FALSE))
  /\ emergency_cooling_down = Sum(UnknownLamports(TRUE))

\* Its counters.
FirstCounters ==
  LET up == delinquent_upgrader
  IN /\ up.stage = "IteratingStakes"
     /\ up.visited = {}
     /\ up.visited_count = Cardinality(VisitedStakes)
     /\ up.total_active_balance = Sum(VisitedLamports)
     /\ Sum(Balance) = total_active_balance + up.total_delinquent_balance

\* The second stage: nothing cools down, and the validators' balances are too
\* high by what is left of the delinquent balance.
SecondLoop ==
  /\ \A s \in Stake : Awaited(s) /\ ~Is(s, "Unknown")
  /\ delayed_unstake_cooling_down = 0
  /\ emergency_cooling_down = 0
  /\ total_active_balance = Sum(VisitedLamports)

SecondCounters ==
  LET up == delinquent_upgrader
  IN /\ up.stage = "IteratingValidators"
     /\ \A v \in up.visited : validator[v].active_balance = Sum(ActiveLamports(v))
     /\ \A v \in ListedValidators \ up.visited :
          /\ validator[v].delinquent_upgrader_active_balance = Sum(ActiveLamports(v))
          /\ validator[v].delinquent_upgrader_active_balance <= validator[v].active_balance
     /\ Sum(Balance) = total_active_balance + up.delinquent_balance_left

UpgradeInv ==
  /\ TypeOK
  /\ ScoreBooks
  /\ \/ FirstLoop /\ FirstCounters
     \/ SecondLoop /\ SecondCounters
     \/ Upgraded /\ Matched /\ Accounting

-----------------------------------------------------------------------------
(* The sums, entry by entry.                                               *)

(* The entries are naturals, and there are finitely many.                  *)
LEMMA VisitedType ==
  ASSUME TypeOK
  PROVE  /\ VisitedLamports \in [Stake -> Nat]
         /\ \A e : UnknownLamports(e) \in [Stake -> Nat]
         /\ Sum(VisitedLamports) \in Nat
         /\ \A e : Sum(UnknownLamports(e)) \in Nat
         /\ \A v : Sum(ActiveLamports(v)) \in Nat
         /\ Sum(Balance) \in Nat
         /\ \A v \in Validator : validator[v].delinquent_upgrader_active_balance \in Nat
<1>1. /\ VisitedLamports \in [Stake -> Nat]
      /\ \A e : UnknownLamports(e) \in [Stake -> Nat]
  BY RecordFields DEF VisitedLamports, VisitedIn, UnknownLamports, UnknownIn
<1>2. /\ \A v : ActiveLamports(v) \in [Stake -> Nat]
      /\ Balance \in [Validator -> Nat]
  BY EntriesType
<1>3. \A v \in Validator : validator[v].delinquent_upgrader_active_balance \in Nat
  BY RecordFields DEF ValidatorRecord
<1> QED
  BY <1>1, <1>2, <1>3, SumType, StakeAssumption, ValidatorAssumption

(* So they are after a step.                                               *)
LEMMA VisitedTypeAfter ==
  ASSUME TypeOK'
  PROVE  /\ VisitedLamports' \in [Stake -> Nat]
         /\ \A e : UnknownLamports(e)' \in [Stake -> Nat]
         /\ Sum(VisitedLamports') \in Nat
         /\ \A e : Sum(UnknownLamports(e)') \in Nat
         /\ \A v : Sum(ActiveLamports(v)') \in Nat
         /\ Sum(Balance') \in Nat
<1>1. \A s \in Stake : Recorded(s)' \in Nat
  BY DEF TypeOK, StakeRecord, Recorded
<1>2. /\ VisitedLamports' \in [Stake -> Nat]
      /\ \A e : UnknownLamports(e)' \in [Stake -> Nat]
  BY <1>1 DEF VisitedLamports, VisitedIn, UnknownLamports, UnknownIn
<1>3. /\ \A v : ActiveLamports(v)' \in [Stake -> Nat]
      /\ Balance' \in [Validator -> Nat]
  BY EntriesTypeAfter
<1> QED
  BY <1>2, <1>3, SumType, StakeAssumption, ValidatorAssumption

\* A step that changes no record, and no account, but those of s.
OthersSame(s) == \A u \in Stake \ {s} : stake'[u] = stake[u] /\ account'[u] = account[u]

(* One account changes: each sum changes by what its entry does.           *)
LEMMA VisitedEntry ==
  ASSUME TypeOK, TypeOK', NEW s \in Stake, OthersSame(s)
  PROVE  /\ Sum(VisitedLamports') = Sum(VisitedLamports) - VisitedIn(s) + VisitedIn(s)'
         /\ \A e : Sum(UnknownLamports(e)')
                     = Sum(UnknownLamports(e)) - UnknownIn(e, s) + UnknownIn(e, s)'
         /\ \A v : Sum(ActiveLamports(v)')
                     = Sum(ActiveLamports(v)) - ActiveIn(v, s) + ActiveIn(v, s)'
<1>1. \A u \in Stake \ {s} : stake'[u] = stake[u] /\ account'[u] = account[u]
  BY DEF OthersSame
<1>2. \A a, b, c, d \in Nat : a - c = b - d => a = b - d + c
  OBVIOUS
<1>3. /\ VisitedLamports \in [Stake -> Nat] /\ VisitedLamports' \in [Stake -> Nat]
      /\ \A e : UnknownLamports(e) \in [Stake -> Nat] /\ UnknownLamports(e)' \in [Stake -> Nat]
      /\ \A v : ActiveLamports(v) \in [Stake -> Nat] /\ ActiveLamports(v)' \in [Stake -> Nat]
  BY VisitedType, VisitedTypeAfter, EntriesType, EntriesTypeAfter
<1>4. Sum(VisitedLamports') = Sum(VisitedLamports) - VisitedIn(s) + VisitedIn(s)'
  <2>1. /\ VisitedLamports[s] = VisitedIn(s) /\ VisitedLamports'[s] = VisitedIn(s)'
        /\ \A u \in Stake \ {s} : VisitedLamports'[u] = VisitedLamports[u]
    BY <1>1 DEF VisitedLamports, VisitedIn, Is, Recorded
  <2>2. Sum(VisitedLamports') - VisitedIn(s)' = Sum(VisitedLamports) - VisitedIn(s)
    BY <1>3, <2>1, StakeAssumption, SumUpdate
  <2>3. VisitedIn(s) \in Nat /\ VisitedIn(s)' \in Nat
    BY <1>3, <2>1
  <2> QED
    BY <1>2, <2>2, <2>3, VisitedType, VisitedTypeAfter
<1>5. ASSUME NEW e
      PROVE  Sum(UnknownLamports(e)')
               = Sum(UnknownLamports(e)) - UnknownIn(e, s) + UnknownIn(e, s)'
  <2>1. /\ UnknownLamports(e)[s] = UnknownIn(e, s) /\ UnknownLamports(e)'[s] = UnknownIn(e, s)'
        /\ \A u \in Stake \ {s} : UnknownLamports(e)'[u] = UnknownLamports(e)[u]
    BY <1>1 DEF UnknownLamports, UnknownIn, Is, Recorded
  <2>2. Sum(UnknownLamports(e)') - UnknownIn(e, s)' = Sum(UnknownLamports(e)) - UnknownIn(e, s)
    BY <1>3, <2>1, StakeAssumption, SumUpdate
  <2>3. UnknownIn(e, s) \in Nat /\ UnknownIn(e, s)' \in Nat
    BY <1>3, <2>1
  <2> QED
    BY <1>2, <2>2, <2>3, VisitedType, VisitedTypeAfter
<1>6. ASSUME NEW v
      PROVE  Sum(ActiveLamports(v)')
               = Sum(ActiveLamports(v)) - ActiveIn(v, s) + ActiveIn(v, s)'
  <2>1. /\ ActiveLamports(v)[s] = ActiveIn(v, s) /\ ActiveLamports(v)'[s] = ActiveIn(v, s)'
        /\ \A u \in Stake \ {s} : ActiveLamports(v)'[u] = ActiveLamports(v)[u]
    BY <1>1 DEF ActiveLamports, ActiveIn, Is, Recorded, Voter
  <2>2. Sum(ActiveLamports(v)') - ActiveIn(v, s)' = Sum(ActiveLamports(v)) - ActiveIn(v, s)
    BY <1>3, <2>1, StakeAssumption, SumUpdate
  <2>3. ActiveIn(v, s) \in Nat /\ ActiveIn(v, s)' \in Nat
    BY <1>3, <2>1
  <2> QED
    BY <1>2, <2>2, <2>3, VisitedType, VisitedTypeAfter
<1> QED
  BY <1>4, <1>5, <1>6

(* The balance of one validator changes, and the sum of all with it.       *)
LEMMA BalanceEntry ==
  ASSUME TypeOK, TypeOK', NEW v \in Validator,
         \A w \in Validator \ {v} : validator'[w] = validator[w]
  PROVE  Sum(Balance')
           = Sum(Balance) - validator[v].active_balance + validator'[v].active_balance
<1>1. /\ Balance[v] = validator[v].active_balance
      /\ Balance'[v] = validator'[v].active_balance
      /\ \A w \in Validator \ {v} : Balance'[w] = Balance[w]
  BY DEF Balance
<1>2. Balance \in [Validator -> Nat] /\ Balance' \in [Validator -> Nat]
  BY EntriesType, EntriesTypeAfter
<1>3. Sum(Balance') - Balance'[v] = Sum(Balance) - Balance[v]
  BY <1>1, <1>2, ValidatorAssumption, SumUpdate
<1>4. \A a, b, c, d \in Nat : a - c = b - d => a = b - d + c
  OBVIOUS
<1>5. Balance[v] \in Nat /\ Balance'[v] \in Nat
  BY <1>2
<1> QED
  BY <1>1, <1>3, <1>4, <1>5, VisitedType, VisitedTypeAfter

-----------------------------------------------------------------------------
(* The first stage: an account is visited, again or for the first time, or *)
(* deposited, or collected.                                                *)

\* Account s of validator v counts for amount lamports from now on; counted is
\* what it did among the visited, old what it did as one of the unknown.
CountedAs(s, v, amount, counted, old) ==
  /\ OthersSame(s)
  /\ amount \in Nat /\ counted = VisitedIn(s) /\ old = UnknownIn(FALSE, s)
  /\ stake'[s].last_update_status = "Active" /\ ~stake'[s].is_emergency_unstaking
  /\ stake'[s].last_update_delegated_lamports = amount
  /\ account'[s].voter = v /\ account'[s].activation \in {"activating", "active"}
  /\ Is(s, "None") \/ Voter(s) = v
  /\ Is(s, "Unknown") => ~stake[s].is_emergency_unstaking
  /\ Is(s, "Unknown") =>
       validator[v].delinquent_upgrader_active_balance + old <= validator[v].active_balance
  /\ validator[v].listed
  /\ \A w \in Validator : validator'[w].listed = validator[w].listed
  /\ \A w \in Validator \ {v} : validator'[w] = validator[w]
  /\ validator'[v].active_balance = validator[v].active_balance + amount - counted - old
  /\ validator'[v].delinquent_upgrader_active_balance
       = validator[v].delinquent_upgrader_active_balance + amount - counted
  /\ total_active_balance' = total_active_balance + amount - counted - old
  /\ UNCHANGED coolingVars

\* What it does to the sums.
SumsCountedAs(s, v, amount, counted, old) ==
  /\ amount \in Nat /\ counted \in Nat /\ old \in Nat
  /\ counted = 0 \/ old = 0
  /\ Sum(VisitedLamports') = Sum(VisitedLamports) + amount - counted
  /\ Sum(UnknownLamports(FALSE)') = Sum(UnknownLamports(FALSE)) - old
  /\ Sum(UnknownLamports(TRUE)') = Sum(UnknownLamports(TRUE))
  /\ Sum(ActiveLamports(v)') = Sum(ActiveLamports(v)) + amount - counted
  /\ \A w \in Validator \ {v} : Sum(ActiveLamports(w)') = Sum(ActiveLamports(w))
  /\ Sum(Balance') = Sum(Balance) + amount - counted - old
  /\ VisitedStakes' = VisitedStakes \cup {s}

(* The sums change as the totals do.                                       *)
LEMMA CountedAsSums ==
  ASSUME TypeOK, TypeOK', NEW s \in Stake, NEW v \in Validator, NEW amount, NEW counted, NEW old,
         \A u \in Stake : Awaited(u), CountedAs(s, v, amount, counted, old)
  PROVE  SumsCountedAs(s, v, amount, counted, old)
<1>1. /\ OthersSame(s) /\ amount \in Nat /\ Awaited(s)
      /\ counted = VisitedIn(s) /\ old = UnknownIn(FALSE, s)
      /\ Is(s, "None") \/ Voter(s) = v
      /\ Is(s, "Unknown") => ~stake[s].is_emergency_unstaking
      /\ stake[s] \in StakeRecord /\ Recorded(s) \in Nat
  BY RecordFields DEF CountedAs
<1>2. counted \in Nat /\ old \in Nat /\ (counted = 0 \/ old = 0)
  BY <1>1 DEF VisitedIn, UnknownIn, Is
<1>3. VisitedIn(s)' = amount /\ UnknownIn(FALSE, s)' = 0 /\ UnknownIn(TRUE, s)' = 0
  BY DEF CountedAs, VisitedIn, UnknownIn, Is, Recorded
<1>4. UnknownIn(TRUE, s) = 0
  BY <1>1 DEF UnknownIn
<1>5. ActiveIn(v, s) = counted /\ ActiveIn(v, s)' = amount
  BY <1>1 DEF CountedAs, ActiveIn, VisitedIn, Is, Recorded, Voter
<1>6. \A w \in Validator \ {v} : ActiveIn(w, s) = 0 /\ ActiveIn(w, s)' = 0
  BY <1>1 DEF CountedAs, ActiveIn, Is, Recorded, Voter
<1>7. /\ Sum(VisitedLamports') = Sum(VisitedLamports) - VisitedIn(s) + VisitedIn(s)'
      /\ \A e : Sum(UnknownLamports(e)')
                  = Sum(UnknownLamports(e)) - UnknownIn(e, s) + UnknownIn(e, s)'
      /\ \A w : Sum(ActiveLamports(w)')
                  = Sum(ActiveLamports(w)) - ActiveIn(w, s) + ActiveIn(w, s)'
  BY <1>1, VisitedEntry
<1>8. Sum(Balance') = Sum(Balance) + amount - counted - old
  <2>1. /\ \A w \in Validator \ {v} : validator'[w] = validator[w]
        /\ validator'[v].active_balance = validator[v].active_balance + amount - counted - old
    BY DEF CountedAs
  <2>2. Sum(Balance')
          = Sum(Balance) - validator[v].active_balance + validator'[v].active_balance
    BY <2>1, BalanceEntry
  <2>3. validator[v].active_balance \in Nat /\ Sum(Balance) \in Nat
    BY RecordFields, VisitedType
  <2>4. amount \in Nat /\ counted \in Nat /\ old \in Nat
    BY <1>1, <1>2
  <2> QED
    BY <2>1, <2>2, <2>3, <2>4
<1>9. VisitedStakes' = VisitedStakes \cup {s}
  BY <1>1 DEF VisitedStakes, OthersSame, CountedAs, Is
<1>10. /\ Sum(VisitedLamports) \in Nat
       /\ \A e : Sum(UnknownLamports(e)) \in Nat
       /\ \A w : Sum(ActiveLamports(w)) \in Nat
  BY VisitedType
<1>11. /\ Sum(VisitedLamports') = Sum(VisitedLamports) + amount - counted
       /\ Sum(ActiveLamports(v)') = Sum(ActiveLamports(v)) + amount - counted
  <2>1. \A a, b, c \in Nat : a - c + b = a + b - c
    OBVIOUS
  <2>2. /\ Sum(VisitedLamports') = Sum(VisitedLamports) - counted + amount
        /\ Sum(ActiveLamports(v)') = Sum(ActiveLamports(v)) - counted + amount
    BY <1>1, <1>3, <1>5, <1>7, Zenon
  <2>3. /\ Sum(VisitedLamports) - counted + amount = Sum(VisitedLamports) + amount - counted
        /\ Sum(ActiveLamports(v)) - counted + amount = Sum(ActiveLamports(v)) + amount - counted
    BY <1>1, <1>2, <1>10, <2>1
  <2> QED
    BY <2>2, <2>3, Zenon
<1>12. /\ Sum(UnknownLamports(FALSE)') = Sum(UnknownLamports(FALSE)) - old
       /\ Sum(UnknownLamports(TRUE)') = Sum(UnknownLamports(TRUE))
       /\ \A w \in Validator \ {v} : Sum(ActiveLamports(w)') = Sum(ActiveLamports(w))
  <2>1. \A a, b \in Nat : a - b + 0 = a - b /\ a - 0 + 0 = a
    OBVIOUS
  <2>2. /\ Sum(UnknownLamports(FALSE)') = Sum(UnknownLamports(FALSE)) - old + 0
        /\ Sum(UnknownLamports(TRUE)') = Sum(UnknownLamports(TRUE)) - 0 + 0
        /\ \A w \in Validator \ {v} : Sum(ActiveLamports(w)') = Sum(ActiveLamports(w)) - 0 + 0
    BY <1>1, <1>3, <1>4, <1>6, <1>7, Zenon
  <2> QED
    BY <1>2, <1>10, <2>1, <2>2, Zenon
<1> QED
  BY <1>1, <1>2, <1>8, <1>9, <1>11, <1>12 DEF SumsCountedAs

(* An account awaits as before when nothing about it has changed.          *)
LEMMA SameAwaited ==
  ASSUME NEW s \in Stake, Awaited(s), stake'[s] = stake[s], account'[s] = account[s],
         \A w \in Validator : validator'[w].listed = validator[w].listed
  PROVE  Awaited(s)'
BY DEF Awaited, Is, Recorded, Voter

(* The first stage goes on.                                                *)
LEMMA CountedAsFirstLoop ==
  ASSUME TypeOK, TypeOK', FirstLoop, NEW s \in Stake, NEW v \in Validator,
         NEW amount, NEW counted, NEW old, CountedAs(s, v, amount, counted, old)
  PROVE  FirstLoop'
<1>1. \A u \in Stake : Awaited(u)
  BY DEF FirstLoop
<1>2. \A u \in Stake : Awaited(u)'
  <2>1. \A u \in Stake \ {s} : Awaited(u)'
    BY <1>1, SameAwaited DEF CountedAs, OthersSame
  <2>2. Awaited(s)'
    BY DEF Awaited, CountedAs, Is, Voter, Recorded
  <2> QED
    BY <2>1, <2>2
<1>11. SumsCountedAs(s, v, amount, counted, old)
  BY <1>1, CountedAsSums
<1>3. /\ amount \in Nat /\ counted \in Nat /\ old \in Nat
      /\ counted = 0 \/ old = 0
      /\ Sum(VisitedLamports') = Sum(VisitedLamports) + amount - counted
      /\ Sum(UnknownLamports(FALSE)') = Sum(UnknownLamports(FALSE)) - old
      /\ Sum(UnknownLamports(TRUE)') = Sum(UnknownLamports(TRUE))
      /\ Sum(ActiveLamports(v)') = Sum(ActiveLamports(v)) + amount - counted
      /\ \A w \in Validator \ {v} : Sum(ActiveLamports(w)') = Sum(ActiveLamports(w))
  BY <1>11 DEF SumsCountedAs
<1>4. /\ Sum(VisitedLamports) \in Nat
      /\ \A e : Sum(UnknownLamports(e)) \in Nat
      /\ \A w : Sum(ActiveLamports(w)) \in Nat
      /\ \A w \in Validator : /\ validator[w].delinquent_upgrader_active_balance \in Nat
                              /\ validator[w].active_balance \in Nat
      /\ total_active_balance \in Nat /\ delayed_unstake_cooling_down \in Nat
  BY VisitedType, RecordFields
<1>5. /\ \A w \in Validator \ {v} : validator'[w] = validator[w]
      /\ validator'[v].active_balance = validator[v].active_balance + amount - counted - old
      /\ validator'[v].delinquent_upgrader_active_balance
           = validator[v].delinquent_upgrader_active_balance + amount - counted
      /\ total_active_balance' = total_active_balance + amount - counted - old
      /\ delayed_unstake_cooling_down' = delayed_unstake_cooling_down
      /\ emergency_cooling_down' = emergency_cooling_down
  BY DEF CountedAs, coolingVars
<1>6. /\ \A w \in Validator :
           /\ validator[w].delinquent_upgrader_active_balance = Sum(ActiveLamports(w))
           /\ validator[w].delinquent_upgrader_active_balance <= validator[w].active_balance
      /\ total_active_balance + delayed_unstake_cooling_down
           = Sum(VisitedLamports) + Sum(UnknownLamports(FALSE))
      /\ emergency_cooling_down = Sum(UnknownLamports(TRUE))
  BY DEF FirstLoop
<1>7. validator'[v].delinquent_upgrader_active_balance <= validator'[v].active_balance
  <2>1. old = 0 \/ validator[v].delinquent_upgrader_active_balance + old <= validator[v].active_balance
    BY DEF CountedAs, UnknownIn
  <2>2. \A d, a, x, c, o \in Nat : d <= a /\ (o = 0 \/ d + o <= a) => d + x - c <= a + x - c - o
    OBVIOUS
  <2> QED
    BY <1>3, <1>4, <1>5, <1>6, <2>1, <2>2
<1>8. \A w \in Validator :
        /\ validator'[w].delinquent_upgrader_active_balance = Sum(ActiveLamports(w)')
        /\ validator'[w].delinquent_upgrader_active_balance <= validator'[w].active_balance
  BY <1>3, <1>5, <1>6, <1>7, Zenon
<1>9. total_active_balance' + delayed_unstake_cooling_down'
        = Sum(VisitedLamports') + Sum(UnknownLamports(FALSE)')
  <2>1. total_active_balance + delayed_unstake_cooling_down
          = Sum(VisitedLamports) + Sum(UnknownLamports(FALSE))
    BY <1>6
  <2>2. /\ Sum(VisitedLamports) \in Nat /\ Sum(UnknownLamports(FALSE)) \in Nat
        /\ total_active_balance \in Nat /\ delayed_unstake_cooling_down \in Nat
    BY <1>4
  <2>3. /\ amount \in Nat /\ counted \in Nat /\ old \in Nat
        /\ Sum(VisitedLamports') = Sum(VisitedLamports) + amount - counted
        /\ Sum(UnknownLamports(FALSE)') = Sum(UnknownLamports(FALSE)) - old
    BY <1>3
  <2>4. /\ total_active_balance' = total_active_balance + amount - counted - old
        /\ delayed_unstake_cooling_down' = delayed_unstake_cooling_down
    BY <1>5
  <2> DEFINE visited == Sum(VisitedLamports)
             unknown == Sum(UnknownLamports(FALSE))
             total   == total_active_balance
             delayed == delayed_unstake_cooling_down
  <2>5. /\ visited \in Nat /\ unknown \in Nat /\ total \in Nat /\ delayed \in Nat
        /\ amount \in Nat /\ counted \in Nat /\ old \in Nat
        /\ total + delayed = visited + unknown
    BY <2>1, <2>2, <2>3
  <2>6. /\ total_active_balance' + delayed_unstake_cooling_down'
             = (total + amount - counted - old) + delayed
        /\ Sum(VisitedLamports') + Sum(UnknownLamports(FALSE)')
             = (visited + amount - counted) + (unknown - old)
    BY <2>3, <2>4, Zenon
  <2> HIDE DEF visited, unknown, total, delayed
  <2>7. (total + amount - counted - old) + delayed = (visited + amount - counted) + (unknown - old)
    BY <2>5
  <2> QED
    BY <2>6, <2>7, Zenon
<1>10. emergency_cooling_down' = Sum(UnknownLamports(TRUE)')
  BY <1>3, <1>5, <1>6
<1> QED
  BY <1>2, <1>8, <1>9, <1>10 DEF FirstLoop

\* Account s, that was not visited, is collected.  What it released was cooling
\* down; the rest was missing there, and leaves the active total.
Collected(s, released) ==
  /\ OthersSame(s)
  /\ Is(s, "Unknown")
  /\ stake'[s] = NoRecord /\ account'[s] = NoAccount
  /\ released \in Nat /\ released <= Recorded(s)
  /\ \A w \in Validator : validator'[w] = validator[w]
  /\ total_active_balance' = total_active_balance - (Recorded(s) - released)
  /\ IF stake[s].is_emergency_unstaking
     THEN /\ released = Recorded(s)
          /\ emergency_cooling_down' = emergency_cooling_down - released
          /\ UNCHANGED delayed_unstake_cooling_down
     ELSE /\ delayed_unstake_cooling_down' = delayed_unstake_cooling_down - released
          /\ UNCHANGED emergency_cooling_down

(* The first stage goes on, and the visited are the same.                  *)
LEMMA CollectedFirstLoop ==
  ASSUME TypeOK, TypeOK', FirstLoop, NEW s \in Stake, NEW released, Collected(s, released)
  PROVE  /\ FirstLoop'
         /\ VisitedStakes' = VisitedStakes
         /\ Sum(VisitedLamports') = Sum(VisitedLamports)
         /\ Sum(Balance') = Sum(Balance)
<1> DEFINE lamports == Recorded(s)
           is_emergency == stake[s].is_emergency_unstaking
<1>1. /\ OthersSame(s) /\ Is(s, "Unknown") /\ \A u \in Stake : Awaited(u)
      /\ stake'[s] = NoRecord /\ account'[s] = NoAccount
      /\ \A w \in Validator : validator'[w] = validator[w]
      /\ lamports \in Nat /\ is_emergency \in BOOLEAN
  BY RecordFields DEF Collected, FirstLoop, StakeRecord
<1>2. \A u \in Stake : Awaited(u)'
  <2>1. \A u \in Stake \ {s} : Awaited(u)'
    BY <1>1, SameAwaited DEF OthersSame
  <2>2. Awaited(s)'
    BY <1>1 DEF Awaited, Is, Recorded, NoRecord, NoAccount
  <2> QED
    BY <2>1, <2>2
<1>3. /\ VisitedIn(s) = 0 /\ VisitedIn(s)' = 0
      /\ \A v : ActiveIn(v, s) = 0 /\ ActiveIn(v, s)' = 0
      /\ \A e : UnknownIn(e, s)' = 0
      /\ \A e : e = is_emergency => UnknownIn(e, s) = lamports
      /\ \A e : e # is_emergency => UnknownIn(e, s) = 0
  BY <1>1 DEF VisitedIn, ActiveIn, UnknownIn, Is, NoRecord
<1>4. /\ Sum(VisitedLamports') = Sum(VisitedLamports) - VisitedIn(s) + VisitedIn(s)'
      /\ \A e : Sum(UnknownLamports(e)')
                  = Sum(UnknownLamports(e)) - UnknownIn(e, s) + UnknownIn(e, s)'
      /\ \A v : Sum(ActiveLamports(v)')
                  = Sum(ActiveLamports(v)) - ActiveIn(v, s) + ActiveIn(v, s)'
  BY <1>1, VisitedEntry
<1>5. /\ Sum(VisitedLamports) \in Nat
      /\ \A e : Sum(UnknownLamports(e)) \in Nat
      /\ \A w : Sum(ActiveLamports(w)) \in Nat
  BY VisitedType
<1>6. \A a, b \in Nat : a - b + 0 = a - b /\ a - 0 + 0 = a
  OBVIOUS
<1> HIDE DEF is_emergency, lamports
<1>7. /\ Sum(VisitedLamports') = Sum(VisitedLamports)
      /\ \A v : Sum(ActiveLamports(v)') = Sum(ActiveLamports(v))
      /\ \A e : e # is_emergency => Sum(UnknownLamports(e)') = Sum(UnknownLamports(e))
  <2>1. \A a : a \in Nat => a - 0 + 0 = a
    BY <1>6
  <2>2. Sum(VisitedLamports') = Sum(VisitedLamports)
    BY <1>3, <1>4, <1>5, <2>1, Zenon
  <2>3. \A v : Sum(ActiveLamports(v)') = Sum(ActiveLamports(v))
    BY <1>3, <1>4, <1>5, <2>1, Zenon
  <2>4. ASSUME NEW e, e # is_emergency
        PROVE  Sum(UnknownLamports(e)') = Sum(UnknownLamports(e))
    <3>1. UnknownIn(e, s) = 0 /\ UnknownIn(e, s)' = 0
      BY <1>3, <2>4, Zenon
    <3>2. Sum(UnknownLamports(e)') = Sum(UnknownLamports(e)) - 0 + 0
      BY <1>4, <3>1, Zenon
    <3> QED
      BY <1>5, <2>1, <3>2, Zenon
  <2> QED
    BY <2>2, <2>3, <2>4, Zenon
<1>8. \A e : e = is_emergency =>
             Sum(UnknownLamports(e)') = Sum(UnknownLamports(e)) - lamports
  <2> SUFFICES ASSUME NEW e, e = is_emergency
               PROVE  Sum(UnknownLamports(e)') = Sum(UnknownLamports(e)) - lamports
    OBVIOUS
  <2>1. UnknownIn(e, s) = lamports /\ UnknownIn(e, s)' = 0
    BY <1>3, Zenon
  <2>2. Sum(UnknownLamports(e)') = Sum(UnknownLamports(e)) - lamports + 0
    BY <1>4, <2>1, Zenon
  <2> QED
    BY <1>1, <1>5, <1>6, <2>2, Zenon
<1>9. Balance' = Balance
  BY <1>1 DEF Balance
<1>10. VisitedStakes' = VisitedStakes
  BY <1>1 DEF VisitedStakes, OthersSame, Is, NoRecord
<1>11. \A w \in Validator :
         /\ validator'[w].delinquent_upgrader_active_balance = Sum(ActiveLamports(w)')
         /\ validator'[w].delinquent_upgrader_active_balance <= validator'[w].active_balance
  BY <1>1, <1>7, Zenon DEF FirstLoop
<1>12. /\ total_active_balance' + delayed_unstake_cooling_down'
            = Sum(VisitedLamports') + Sum(UnknownLamports(FALSE)')
       /\ emergency_cooling_down' = Sum(UnknownLamports(TRUE)')
  <2> DEFINE visited == Sum(VisitedLamports)
             unknown == Sum(UnknownLamports(FALSE))
             total   == total_active_balance
             delayed == delayed_unstake_cooling_down
  <2>1. /\ visited \in Nat /\ unknown \in Nat /\ total \in Nat /\ delayed \in Nat
        /\ lamports \in Nat /\ released \in Nat
        /\ total + delayed = visited + unknown
        /\ emergency_cooling_down = Sum(UnknownLamports(TRUE))
    BY <1>1, <1>5, RecordFields DEF FirstLoop, Collected, lamports
  <2>2. CASE is_emergency
    <3>1. TRUE = is_emergency /\ FALSE # is_emergency
      BY <1>1, <2>2
    <3>2. /\ released = lamports
          /\ emergency_cooling_down' = emergency_cooling_down - released
          /\ delayed_unstake_cooling_down' = delayed
          /\ total_active_balance' = total - (lamports - released)
      BY <2>2 DEF Collected, is_emergency, lamports
    <3>3. /\ Sum(UnknownLamports(TRUE)') = Sum(UnknownLamports(TRUE)) - lamports
          /\ Sum(UnknownLamports(FALSE)') = unknown
          /\ Sum(VisitedLamports') = visited
      BY <1>7, <1>8, <3>1, Zenon
    <3> HIDE DEF visited, unknown, total, delayed
    <3>4. total - (lamports - lamports) = total
      BY <2>1
    <3>5. total_active_balance' = total
      BY <3>2, <3>4, Zenon
    <3>6. emergency_cooling_down' = Sum(UnknownLamports(TRUE)) - lamports
      BY <2>1, <3>2, Zenon
    <3> QED
      BY <2>1, <3>2, <3>3, <3>5, <3>6, Zenon
  <2>3. CASE ~is_emergency
    <3>1. FALSE = is_emergency /\ TRUE # is_emergency
      BY <1>1, <2>3
    <3>2. /\ delayed_unstake_cooling_down' = delayed - released
          /\ emergency_cooling_down' = emergency_cooling_down
          /\ total_active_balance' = total - (lamports - released)
      BY <2>3 DEF Collected, is_emergency, lamports
    <3>3. /\ Sum(UnknownLamports(TRUE)') = Sum(UnknownLamports(TRUE))
          /\ Sum(UnknownLamports(FALSE)') = unknown - lamports
          /\ Sum(VisitedLamports') = visited
      BY <1>7, <1>8, <3>1, Zenon
    <3> HIDE DEF visited, unknown, total, delayed
    <3>4. (total - (lamports - released)) + (delayed - released) = visited + (unknown - lamports)
      BY <2>1
    <3>5. total_active_balance' + delayed_unstake_cooling_down'
            = (total - (lamports - released)) + (delayed - released)
      BY <3>2, Zenon
    <3>6. Sum(VisitedLamports') + Sum(UnknownLamports(FALSE)') = visited + (unknown - lamports)
      BY <3>3, Zenon
    <3>7. emergency_cooling_down' = Sum(UnknownLamports(TRUE)')
      BY <2>1, <3>2, <3>3, Zenon
    <3> QED
      BY <3>4, <3>5, <3>6, <3>7, Zenon
  <2> QED
    BY <2>2, <2>3
<1> QED
  BY <1>2, <1>7, <1>9, <1>10, <1>11, <1>12 DEF FirstLoop

\* The counters up are right for the lists after the step.
CountersAfter(up) ==
  /\ up.stage = "IteratingStakes"
  /\ up.visited = {}
  /\ up.visited_count = Cardinality(VisitedStakes')
  /\ up.total_active_balance = Sum(VisitedLamports')
  /\ Sum(Balance') = total_active_balance' + up.total_delinquent_balance

(* check_delinquent_upgrade_state_progression: when all accounts in the    *)
(* list have been visited, none is unknown, and nothing cools down.        *)
LEMMA ProgressionStages ==
  ASSUME TypeOK', FirstLoop', NEW up, CountersAfter(up),
         Progression(up, Cardinality(Listed'), total_active_balance')
  PROVE  (FirstLoop /\ FirstCounters)' \/ (SecondLoop /\ SecondCounters)'
<1>1. CASE ~AllVisited(up, Cardinality(Listed'))
  <2>1. delinquent_upgrader' = up
    BY <1>1 DEF Progression
  <2> QED
    BY <2>1 DEF CountersAfter, FirstCounters
<1>2. CASE AllVisited(up, Cardinality(Listed'))
  <2>1. /\ up.visited_count = Cardinality(Listed')
        /\ up.total_active_balance = total_active_balance'
    BY <1>2 DEF AllVisited, Progression
  <2>2. VisitedStakes' \subseteq Listed' /\ IsFiniteSet(Listed')
    BY StakeAssumption, FS_Subset DEF VisitedStakes, Listed, Is
  <2>3. VisitedStakes' = Listed'
    BY <2>1, <2>2, FS_Subset DEF CountersAfter
  <2>4. \A s \in Stake : ~Is(s, "Unknown")'
    BY <2>3 DEF VisitedStakes, Listed, Is
  <2>5. \A e : Sum(UnknownLamports(e)') = 0
    <3>1. \A e : \A s \in Stake : UnknownLamports(e)'[s] = 0
      BY <2>4 DEF UnknownLamports, UnknownIn
    <3> QED
      BY <3>1, VisitedTypeAfter, SumZero
  <2>6. /\ \A s \in Stake : Awaited(s)'
        /\ total_active_balance' + delayed_unstake_cooling_down'
             = Sum(VisitedLamports') + Sum(UnknownLamports(FALSE)')
        /\ emergency_cooling_down' = Sum(UnknownLamports(TRUE)')
        /\ \A v \in Validator :
             /\ validator'[v].delinquent_upgrader_active_balance = Sum(ActiveLamports(v)')
             /\ validator'[v].delinquent_upgrader_active_balance <= validator'[v].active_balance
    BY DEF FirstLoop
  <2>7. total_active_balance' = Sum(VisitedLamports')
    BY <2>1 DEF CountersAfter
  <2>8. delayed_unstake_cooling_down' = 0 /\ emergency_cooling_down' = 0
    <3>1. delayed_unstake_cooling_down' \in Nat /\ total_active_balance' \in Nat
      BY DEF TypeOK
    <3>2. total_active_balance' + delayed_unstake_cooling_down' = total_active_balance' + 0
      BY <2>5, <2>6, <2>7, Zenon
    <3>3. \A a, b \in Nat : b + a = b + 0 => a = 0
      OBVIOUS
    <3>4. delayed_unstake_cooling_down' = 0
      BY <3>1, <3>2, <3>3, Zenon
    <3> QED
      BY <2>5, <2>6, <3>4, Zenon
  <2>9. SecondLoop'
    BY <2>4, <2>6, <2>7, <2>8 DEF SecondLoop
  <2>10. /\ delinquent_upgrader'.stage = "IteratingValidators"
         /\ delinquent_upgrader'.visited = {}
         /\ delinquent_upgrader'.delinquent_balance_left = up.total_delinquent_balance
    BY <1>2 DEF Progression, UpgradeDone
  <2>11. SecondCounters'
    BY <2>6, <2>10 DEF SecondCounters, CountersAfter, ListedValidators
  <2> QED
    BY <2>9, <2>11
<1> QED
  BY <1>1, <1>2

-----------------------------------------------------------------------------
(* The instructions of the first stage.                                    *)

(* One more account is visited, or the same ones.                          *)
LEMMA OneMoreVisited ==
  ASSUME NEW s \in Stake, VisitedStakes' = VisitedStakes \cup {s}
  PROVE  /\ Cardinality(VisitedStakes) \in Nat
         /\ Cardinality(VisitedStakes')
              = Cardinality(VisitedStakes) + IF Is(s, "Active") THEN 0 ELSE 1
<1>1. IsFiniteSet(VisitedStakes)
  BY StakeAssumption, FS_Subset DEF VisitedStakes
<1>2. Cardinality(VisitedStakes) \in Nat
  BY <1>1, FS_CardinalityType
<1>3. s \in VisitedStakes <=> Is(s, "Active")
  BY DEF VisitedStakes
<1>4. Cardinality(VisitedStakes \cup {s})
        = IF s \in VisitedStakes THEN Cardinality(VisitedStakes)
                                 ELSE Cardinality(VisitedStakes) + 1
  BY <1>1, FS_AddElement
<1>5. CASE Is(s, "Active")
  BY <1>2, <1>3, <1>4, <1>5
<1>6. CASE ~Is(s, "Active")
  BY <1>2, <1>3, <1>4, <1>6
<1> QED
  BY <1>2, <1>5, <1>6

(* update_active: what it counts.                                          *)
LEMMA UpdateActiveCounts ==
  ASSUME TypeOK, FirstLoop, FirstCounters, NEW s \in Stake, UpdateActive(s)
  PROVE  /\ Voter(s) \in Validator
         /\ Is(s, "Active") \/ Is(s, "Unknown")
         /\ CountedAs(s, Voter(s), account[s].delegated, VisitedIn(s), UnknownIn(FALSE, s))
         /\ \E up : /\ Progression(up, Cardinality(Listed'), total_active_balance')
                    /\ up = [delinquent_upgrader EXCEPT
                               !.visited_count = @ + IF Is(s, "Active") THEN 0 ELSE 1,
                               !.total_active_balance =
                                  @ + (account[s].delegated - VisitedIn(s))]
<1> DEFINE v       == Voter(s)
           amount  == account[s].delegated
           rewards == Monus(amount, Recorded(s))
           slashed == Monus(Recorded(s), amount)
           grown   == UpgradeGrowth(s, rewards)
           lost    == IF delinquent_upgrader.stage = "IteratingStakes" THEN slashed ELSE 0
           one     == IF Is(s, "Unknown") THEN 1 ELSE 0
           up      == [delinquent_upgrader EXCEPT
                         !.visited_count = @ + one,
                         !.total_active_balance = @ + grown - lost]
<1>1. /\ s \in Listed /\ v \in Validator /\ validator[v].listed
      /\ account[s].activation \in {"activating", "active"}
      /\ ~Is(s, "Deactivating")
      /\ Is(s, "Unknown") =>
           validator[v].delinquent_upgrader_active_balance + Recorded(s)
             <= validator[v].active_balance
      /\ account' = [account EXCEPT ![s].extra = 0]
      /\ stake' = [stake EXCEPT ![s].last_update_delegated_lamports = amount,
                                ![s].last_update_status = "Active"]
      /\ total_active_balance' = total_active_balance + rewards - slashed
      /\ UNCHANGED coolingVars
  BY DEF UpdateActive, Begin
<1>2. validator' = [validator EXCEPT
             ![v].active_balance = @ + rewards - slashed,
             ![v].delinquent_upgrader_active_balance = @ + grown - lost]
  BY DEF UpdateActive
<1>3. Progression(up, Cardinality(Listed), total_active_balance')
  BY DEF UpdateActive
<1>4. /\ account[s] \in Account /\ stake[s] \in StakeRecord
      /\ amount \in Nat /\ Recorded(s) \in Nat
      /\ validator[v] \in ValidatorRecord /\ validator[v].active_balance \in Nat
      /\ validator[v].delinquent_upgrader_active_balance \in Nat
      /\ total_active_balance \in Nat
      /\ delinquent_upgrader \in Upgrader
  BY <1>1, RecordFields, VisitedType DEF TypeOK
<1>5. /\ Awaited(s)
      /\ Is(s, "Active") \/ Is(s, "Unknown")
      /\ ~stake[s].is_emergency_unstaking
      /\ delinquent_upgrader.stage = "IteratingStakes"
  <2>1. Awaited(s) /\ delinquent_upgrader.stage = "IteratingStakes"
    BY DEF FirstLoop, FirstCounters
  <2> QED
    BY <1>1, <1>4, <2>1 DEF Awaited, Is, Listed, CoolingActivation
<1>6. /\ Is(s, "Active") => VisitedIn(s) = Recorded(s) /\ UnknownIn(FALSE, s) = 0 /\ one = 0
      /\ Is(s, "Unknown") => VisitedIn(s) = 0 /\ UnknownIn(FALSE, s) = Recorded(s) /\ one = 1
  BY <1>5 DEF VisitedIn, UnknownIn, Is
<1>7. rewards \in Nat /\ slashed \in Nat /\ rewards - slashed = amount - Recorded(s)
  <2> HIDE DEF amount
  <2> QED
    BY <1>4 DEF Monus
<1>8. /\ lost = slashed
      /\ grown = rewards + UnknownIn(FALSE, s)
  <2> HIDE DEF rewards, slashed
  <2>1. Is(s, "Active") => ~Is(s, "Unknown")
    BY DEF Is
  <2> QED
    BY <1>5, <1>6, <1>7, <2>1 DEF UpgradeGrowth
<1> HIDE DEF amount, rewards, slashed, grown, lost, one
<1> DEFINE recorded == Recorded(s)
           counted  == VisitedIn(s)
           old      == UnknownIn(FALSE, s)
<1>9. /\ recorded \in Nat /\ amount \in Nat
      /\ (counted = recorded /\ old = 0) \/ (counted = 0 /\ old = recorded)
  BY <1>4, <1>5, <1>6
<1>10. \A b \in Nat : /\ b + rewards - slashed = b + amount - counted - old
                      /\ b + grown - lost = b + amount - counted
  <2>1. /\ rewards \in Nat /\ slashed \in Nat /\ rewards - slashed = amount - recorded
        /\ lost = slashed /\ grown = rewards + old
    BY <1>7, <1>8
  <2> HIDE DEF recorded, counted, old
  <2> QED
    BY <1>9, <2>1
<1>11. /\ validator'[v].listed = validator[v].listed
       /\ validator'[v].active_balance = validator[v].active_balance + rewards - slashed
       /\ validator'[v].delinquent_upgrader_active_balance
            = validator[v].delinquent_upgrader_active_balance + grown - lost
       /\ \A w \in Validator \ {v} : validator'[w] = validator[w]
  BY <1>1, <1>2, <1>4 DEF ValidatorRecord, TypeOK
<1>12. /\ validator'[v].active_balance
            = validator[v].active_balance + amount - counted - old
       /\ validator'[v].delinquent_upgrader_active_balance
            = validator[v].delinquent_upgrader_active_balance + amount - counted
       /\ total_active_balance' = total_active_balance + amount - counted - old
  BY <1>1, <1>4, <1>10, <1>11, Zenon
<1>13. /\ OthersSame(s)
       /\ stake'[s].last_update_status = "Active" /\ ~stake'[s].is_emergency_unstaking
       /\ stake'[s].last_update_delegated_lamports = amount
       /\ account'[s].voter = v /\ account'[s].activation \in {"activating", "active"}
  <2>1. /\ account'[s] = [account[s] EXCEPT !.extra = 0]
        /\ stake'[s] = [stake[s] EXCEPT !.last_update_delegated_lamports = amount,
                                        !.last_update_status = "Active"]
        /\ OthersSame(s)
    BY <1>1 DEF TypeOK, OthersSame
  <2>2. /\ stake[s] \in StakeRecord /\ ~stake[s].is_emergency_unstaking
        /\ account[s] \in Account /\ account[s].activation \in {"activating", "active"}
    BY <1>1, <1>4, <1>5
  <2>3. /\ stake'[s].last_update_status = "Active" /\ ~stake'[s].is_emergency_unstaking
        /\ stake'[s].last_update_delegated_lamports = amount
    BY <2>1, <2>2 DEF StakeRecord
  <2>4. account'[s].voter = v /\ account'[s].activation \in {"activating", "active"}
    BY <2>1, <2>2 DEF Account, Voter
  <2> QED
    BY <2>1, <2>3, <2>4
<1>14. \A w \in Validator : validator'[w].listed = validator[w].listed
  BY <1>11
<1>15. CountedAs(s, v, amount, counted, old)
  BY <1>1, <1>4, <1>5, <1>6, <1>11, <1>12, <1>13, <1>14, Zenon DEF CountedAs, v
<1>16. Listed' = Listed
  BY <1>1, <1>13 DEF Listed, OthersSame
<1>17. up = [delinquent_upgrader EXCEPT
               !.visited_count = @ + IF Is(s, "Active") THEN 0 ELSE 1,
               !.total_active_balance = @ + (amount - counted)]
  <2>1. one = IF Is(s, "Active") THEN 0 ELSE 1
    BY <1>5, <1>6 DEF Is
  <2>2. delinquent_upgrader.total_active_balance \in Nat
    BY <1>4 DEF Upgrader
  <2>3. delinquent_upgrader.total_active_balance + grown - lost
          = delinquent_upgrader.total_active_balance + (amount - counted)
    BY <1>10, <2>2
  <2> QED
    BY <2>1, <2>3
<1> HIDE DEF up
<1>18. Progression(up, Cardinality(Listed'), total_active_balance')
  BY <1>3, <1>16
<1> QED
  BY <1>1, <1>5, <1>15, <1>17, <1>18 DEF amount, v

\* The counters when account s counts for amount lamports.
CountsUp(s, amount) ==
  [delinquent_upgrader EXCEPT
     !.visited_count = @ + IF Is(s, "Active") THEN 0 ELSE 1,
     !.total_active_balance = @ + (amount - VisitedIn(s))]

(* They are right after the step.                                          *)
LEMMA CountedAsCounters ==
  ASSUME TypeOK, TypeOK', FirstLoop, FirstCounters, NEW s \in Stake, NEW v \in Validator,
         NEW amount, NEW counted, NEW old, CountedAs(s, v, amount, counted, old)
  PROVE  CountersAfter(CountsUp(s, amount))
<1> DEFINE up == CountsUp(s, amount)
<1>1. SumsCountedAs(s, v, amount, counted, old) /\ counted = VisitedIn(s)
  BY CountedAsSums DEF FirstLoop, CountedAs
<1>2. /\ amount \in Nat /\ counted \in Nat /\ old \in Nat
      /\ Sum(VisitedLamports') = Sum(VisitedLamports) + amount - counted
      /\ Sum(Balance') = Sum(Balance) + amount - counted - old
      /\ VisitedStakes' = VisitedStakes \cup {s}
  BY <1>1 DEF SumsCountedAs
<1>3. /\ delinquent_upgrader \in Upgrader
      /\ delinquent_upgrader.stage = "IteratingStakes"
      /\ delinquent_upgrader.visited = {}
      /\ delinquent_upgrader.visited_count = Cardinality(VisitedStakes)
      /\ delinquent_upgrader.total_active_balance = Sum(VisitedLamports)
      /\ Sum(Balance) = total_active_balance + delinquent_upgrader.total_delinquent_balance
  BY DEF TypeOK, FirstCounters
<1>4. /\ up.stage = "IteratingStakes" /\ up.visited = {}
      /\ up.visited_count = delinquent_upgrader.visited_count
                              + IF Is(s, "Active") THEN 0 ELSE 1
      /\ up.total_active_balance = delinquent_upgrader.total_active_balance
                                     + (amount - VisitedIn(s))
      /\ up.total_delinquent_balance = delinquent_upgrader.total_delinquent_balance
  BY <1>3 DEF Upgrader, CountsUp
<1> HIDE DEF up
<1>5. up.visited_count = Cardinality(VisitedStakes')
  BY <1>2, <1>3, <1>4, OneMoreVisited
<1>6. up.total_active_balance = Sum(VisitedLamports')
  BY <1>1, <1>2, <1>3, <1>4, Zenon
<1>7. Sum(Balance') = total_active_balance' + up.total_delinquent_balance
  <2> DEFINE total == total_active_balance
             delinquent == delinquent_upgrader.total_delinquent_balance
  <2>1. /\ total \in Nat /\ delinquent \in Nat
        /\ amount \in Nat /\ counted \in Nat /\ old \in Nat
    BY <1>2, <1>3, RecordFields DEF Upgrader
  <2>2. total_active_balance' = total + amount - counted - old
    BY DEF CountedAs
  <2>3. /\ Sum(Balance') = (total + delinquent) + amount - counted - old
        /\ up.total_delinquent_balance = delinquent
    BY <1>2, <1>3, <1>4, Zenon
  <2> HIDE DEF total, delinquent
  <2>4. (total + delinquent) + amount - counted - old
          = (total + amount - counted - old) + delinquent
    BY <2>1
  <2> QED
    BY <2>2, <2>3, <2>4, Zenon
<1> QED
  BY <1>4, <1>5, <1>6, <1>7 DEF CountersAfter, up

\* What the invariant says during the upgrade.
InStages == (FirstLoop /\ FirstCounters) \/ (SecondLoop /\ SecondCounters)

(* update_active in the first stage.                                       *)
LEMMA UpdateActiveFirst ==
  ASSUME TypeOK, TypeOK', FirstLoop, FirstCounters, NEW s \in Stake, UpdateActive(s)
  PROVE  InStages'
<1> DEFINE amount  == account[s].delegated
           counted == VisitedIn(s)
           old     == UnknownIn(FALSE, s)
<1>1. /\ Voter(s) \in Validator
      /\ CountedAs(s, Voter(s), amount, counted, old)
      /\ Progression(CountsUp(s, amount), Cardinality(Listed'), total_active_balance')
  BY UpdateActiveCounts DEF CountsUp
<1> HIDE DEF amount, counted, old
<1>2. FirstLoop'
  BY <1>1, CountedAsFirstLoop
<1>3. CountersAfter(CountsUp(s, amount))
  BY <1>1, CountedAsCounters
<1> QED
  BY <1>1, <1>2, <1>3, ProgressionStages DEF InStages

(* deposit_stake_account: the account counts as visited.                   *)
LEMMA DepositStakeAccountFirst ==
  ASSUME TypeOK, TypeOK', FirstLoop, FirstCounters, NEW s \in Stake, NEW v \in Validator,
         NEW delegated \in UserStakes, NEW activation \in Activation,
         DepositStakeAccount(s, v, delegated, activation)
  PROVE  InStages'
<1>1. /\ validator[v].listed /\ s \in Keypair
      /\ activation \in {"activating", "active"}
      /\ account' = [account EXCEPT ![s] =
           [activation |-> activation, voter |-> v, delegated |-> delegated, extra |-> 0]]
      /\ stake' = [stake EXCEPT ![s] = NewStakeRecord(delegated, FALSE, TRUE)]
      /\ total_active_balance' = total_active_balance + delegated
      /\ UNCHANGED coolingVars
      /\ CountDeposited(v, delegated)
  BY DEF DepositStakeAccount, TakeOver, CountDeposited
<1>2. delinquent_upgrader.stage = "IteratingStakes"
  BY DEF FirstCounters
<1>3. /\ validator' = [validator EXCEPT
           ![v].active_balance = @ + delegated,
           ![v].delinquent_upgrader_active_balance = @ + delegated]
      /\ delinquent_upgrader' = [delinquent_upgrader EXCEPT
           !.visited_count = @ + 1, !.total_active_balance = @ + delegated]
  BY <1>1, <1>2 DEF CountDeposited
<1>4. delegated \in Nat /\ Is(s, "None")
  BY <1>1, UsersAssumption DEF Keypair, FreshStake, Listed, Is
<1>5. /\ VisitedIn(s) = 0 /\ UnknownIn(FALSE, s) = 0
      /\ ~Is(s, "Active") /\ ~Is(s, "Unknown")
  BY <1>4 DEF VisitedIn, UnknownIn, Is
<1>6. /\ validator[v] \in ValidatorRecord
      /\ validator[v].active_balance \in Nat
      /\ validator[v].delinquent_upgrader_active_balance \in Nat
      /\ total_active_balance \in Nat
      /\ delinquent_upgrader \in Upgrader
      /\ delinquent_upgrader.total_active_balance \in Nat
  BY RecordFields, VisitedType DEF TypeOK, Upgrader
<1>7. /\ validator'[v].listed = validator[v].listed
      /\ validator'[v].active_balance = validator[v].active_balance + delegated
      /\ validator'[v].delinquent_upgrader_active_balance
           = validator[v].delinquent_upgrader_active_balance + delegated
      /\ \A w \in Validator \ {v} : validator'[w] = validator[w]
  BY <1>3, <1>6 DEF ValidatorRecord, TypeOK
<1>8. /\ OthersSame(s)
      /\ account'[s].voter = v /\ account'[s].activation = activation
      /\ stake'[s] = NewStakeRecord(delegated, FALSE, TRUE)
  BY <1>1 DEF TypeOK, OthersSame
<1>9. \A b \in Nat : b + delegated = b + delegated - 0 - 0 /\ b + delegated = b + delegated - 0
  BY <1>4
<1>10. /\ validator'[v].active_balance = validator[v].active_balance + delegated - 0 - 0
       /\ validator'[v].delinquent_upgrader_active_balance
            = validator[v].delinquent_upgrader_active_balance + delegated - 0
       /\ total_active_balance' = total_active_balance + delegated - 0 - 0
  BY <1>1, <1>6, <1>7, <1>9, Zenon
<1>11. \A w \in Validator : validator'[w].listed = validator[w].listed
  BY <1>7
<1>12. CountedAs(s, v, delegated, 0, 0)
  <2>1. /\ stake'[s].last_update_status = "Active" /\ ~stake'[s].is_emergency_unstaking
        /\ stake'[s].last_update_delegated_lamports = delegated
    BY <1>8 DEF NewStakeRecord
  <2>2. account'[s].voter = v /\ account'[s].activation \in {"activating", "active"}
    BY <1>1, <1>8, Zenon
  <2> QED
    BY <1>1, <1>4, <1>5, <1>7, <1>8, <1>10, <1>11, <2>1, <2>2, Zenon DEF CountedAs
<1>13. CountersAfter(CountsUp(s, delegated))
  BY <1>12, CountedAsCounters
<1>14. CountsUp(s, delegated) = delinquent_upgrader'
  <2>1. delegated - 0 = delegated
    BY <1>4
  <2> QED
    BY <1>3, <1>5, <2>1 DEF CountsUp
<1>15. FirstLoop'
  BY <1>12, CountedAsFirstLoop
<1>16. FirstCounters'
  BY <1>13, <1>14 DEF CountersAfter, FirstCounters
<1> QED
  BY <1>15, <1>16 DEF InStages

(* One record less is in the list.                                         *)
LEMMA OneRecordLess ==
  ASSUME NEW s \in Stake, s \in Listed, OthersSame(s), stake'[s] = NoRecord
  PROVE  Cardinality(Listed') = Cardinality(Listed) - 1
<1>1. Listed' = Listed \ {s}
  BY DEF Listed, OthersSame, NoRecord
<1>2. IsFiniteSet(Listed)
  BY StakeAssumption, FS_Subset DEF Listed
<1> QED
  BY <1>1, <1>2, FS_RemoveElement

(* update_deactivated in the first stage: it takes out an account that was *)
(* not visited, and books as delinquent what did not cool down.            *)
LEMMA UpdateDeactivatedCollects ==
  ASSUME TypeOK, FirstLoop, FirstCounters, NEW s \in Stake, UpdateDeactivated(s)
  PROVE  \E released :
           /\ Collected(s, released)
           /\ Progression([delinquent_upgrader EXCEPT
                             !.total_delinquent_balance = @ + (Recorded(s) - released)],
                          Cardinality(Listed'), total_active_balance')
<1> DEFINE v         == Voter(s)
           lamports  == Recorded(s)
           detected  == IF Is(s, "Active") THEN Recorded(s) ELSE 0
           emergency == stake[s].is_emergency_unstaking \/ Is(s, "Active")
           cooling   == IF emergency THEN emergency_cooling_down + detected
                                     ELSE delayed_unstake_cooling_down
           released  == Released(s, cooling)
<1>1. /\ s \in Listed /\ v \in Validator
      /\ account[s].activation = "inactive"
      /\ validator' = [validator EXCEPT ![v].active_balance = @ - detected]
      /\ total_active_balance' = total_active_balance - detected - (Recorded(s) - released)
      /\ released <= cooling
      /\ IF emergency
         THEN /\ emergency_cooling_down' = cooling - released
              /\ UNCHANGED delayed_unstake_cooling_down
         ELSE /\ delayed_unstake_cooling_down' = cooling - released
              /\ UNCHANGED emergency_cooling_down
      /\ account' = [account EXCEPT ![s] = NoAccount]
      /\ stake' = [stake EXCEPT ![s] = NoRecord]
  BY DEF UpdateDeactivated, Begin
<1>2. Progression([delinquent_upgrader EXCEPT
                     !.total_delinquent_balance = @ + (Recorded(s) - released)],
                  Cardinality(Listed) - 1, total_active_balance')
  BY DEF UpdateDeactivated
<1>3. /\ lamports \in Nat /\ stake[s] \in StakeRecord
      /\ validator[v] \in ValidatorRecord /\ validator[v].active_balance \in Nat
      /\ total_active_balance \in Nat
      /\ delayed_unstake_cooling_down \in Nat /\ emergency_cooling_down \in Nat
  BY <1>1, RecordFields
<1>4. /\ Is(s, "Unknown") /\ ~Is(s, "Active")
      /\ delinquent_upgrader.stage = "IteratingStakes"
      /\ emergency_cooling_down = Sum(UnknownLamports(TRUE))
  <2>1. /\ Awaited(s) /\ delinquent_upgrader.stage = "IteratingStakes"
        /\ emergency_cooling_down = Sum(UnknownLamports(TRUE))
    BY DEF FirstLoop, FirstCounters
  <2> QED
    BY <1>1, <2>1 DEF Awaited, Is, Listed
<1>5. detected = 0 /\ (emergency <=> stake[s].is_emergency_unstaking)
  BY <1>3, <1>4 DEF StakeRecord
<1>6. released = Lesser(cooling, lamports)
  <2> HIDE DEF cooling
  <2> QED
    BY <1>4 DEF Released
<1>7. stake[s].is_emergency_unstaking => lamports <= emergency_cooling_down
  <2> SUFFICES ASSUME stake[s].is_emergency_unstaking
               PROVE  lamports <= emergency_cooling_down
    OBVIOUS
  <2>1. UnknownLamports(TRUE)[s] = lamports
    BY <1>3, <1>4 DEF UnknownLamports, UnknownIn, StakeRecord
  <2>2. UnknownLamports(TRUE)[s] <= Sum(UnknownLamports(TRUE))
    BY VisitedType, StakeAssumption, SumMember
  <2> QED
    BY <1>4, <2>1, <2>2
<1> HIDE DEF released, detected, emergency, lamports
<1>8. IF stake[s].is_emergency_unstaking
      THEN cooling = emergency_cooling_down
      ELSE cooling = delayed_unstake_cooling_down
  BY <1>3, <1>5 DEF cooling
<1> HIDE DEF cooling
<1>9. /\ released \in Nat /\ released <= lamports
      /\ stake[s].is_emergency_unstaking => released = lamports
  BY <1>3, <1>6, <1>7, <1>8 DEF Lesser
<1>10. \A w \in Validator : validator'[w] = validator[w]
  <2>1. validator[v].active_balance - 0 = validator[v].active_balance
    BY <1>3
  <2>2. validator' = [validator EXCEPT ![v].active_balance = validator[v].active_balance]
    BY <1>1, <1>5, <2>1
  <2> QED
    BY <1>1, <1>3, <2>2 DEF TypeOK, ValidatorRecord
<1>11. total_active_balance' = total_active_balance - (lamports - released)
  <2>1. total_active_balance - 0 = total_active_balance
    BY <1>3
  <2> QED
    BY <1>1, <1>5, <2>1, Zenon DEF lamports
<1>12. OthersSame(s) /\ stake'[s] = NoRecord /\ account'[s] = NoAccount
  BY <1>1 DEF TypeOK, OthersSame
<1>13. IF stake[s].is_emergency_unstaking
       THEN /\ emergency_cooling_down' = emergency_cooling_down - released
            /\ UNCHANGED delayed_unstake_cooling_down
       ELSE /\ delayed_unstake_cooling_down' = delayed_unstake_cooling_down - released
            /\ UNCHANGED emergency_cooling_down
  BY <1>1, <1>5, <1>8, Zenon
<1>14. Collected(s, released)
  BY <1>4, <1>9, <1>10, <1>11, <1>12, <1>13, Zenon DEF Collected, lamports
<1>15. Cardinality(Listed') = Cardinality(Listed) - 1
  BY <1>1, <1>12, OneRecordLess
<1> QED
  BY <1>2, <1>14, <1>15

(* So the first stage goes on, or ends.                                    *)
LEMMA UpdateDeactivatedFirst ==
  ASSUME TypeOK, TypeOK', FirstLoop, FirstCounters, NEW s \in Stake, UpdateDeactivated(s)
  PROVE  InStages'
<1>1. PICK released :
        /\ Collected(s, released)
        /\ Progression([delinquent_upgrader EXCEPT
                          !.total_delinquent_balance = @ + (Recorded(s) - released)],
                       Cardinality(Listed'), total_active_balance')
  BY UpdateDeactivatedCollects
<1> DEFINE up == [delinquent_upgrader EXCEPT
                    !.total_delinquent_balance = @ + (Recorded(s) - released)]
<1>2. /\ FirstLoop'
      /\ VisitedStakes' = VisitedStakes
      /\ Sum(VisitedLamports') = Sum(VisitedLamports)
      /\ Sum(Balance') = Sum(Balance)
  BY <1>1, CollectedFirstLoop
<1>3. /\ delinquent_upgrader \in Upgrader
      /\ delinquent_upgrader.stage = "IteratingStakes"
      /\ delinquent_upgrader.visited = {}
      /\ delinquent_upgrader.visited_count = Cardinality(VisitedStakes)
      /\ delinquent_upgrader.total_active_balance = Sum(VisitedLamports)
      /\ Sum(Balance) = total_active_balance + delinquent_upgrader.total_delinquent_balance
  BY DEF TypeOK, FirstCounters
<1>4. /\ up.stage = "IteratingStakes" /\ up.visited = {}
      /\ up.visited_count = delinquent_upgrader.visited_count
      /\ up.total_active_balance = delinquent_upgrader.total_active_balance
      /\ up.total_delinquent_balance
           = delinquent_upgrader.total_delinquent_balance + (Recorded(s) - released)
  BY <1>3 DEF Upgrader
<1>5. Sum(Balance') = total_active_balance' + up.total_delinquent_balance
  <2> DEFINE total == total_active_balance
             delinquent == delinquent_upgrader.total_delinquent_balance
             lamports == Recorded(s)
  <2>1. /\ total \in Nat /\ delinquent \in Nat /\ lamports \in Nat /\ released \in Nat
    BY <1>1, <1>3, RecordFields DEF Upgrader, Collected
  <2>2. total_active_balance' = total - (lamports - released)
    BY <1>1 DEF Collected
  <2>3. /\ Sum(Balance') = total + delinquent
        /\ up.total_delinquent_balance = delinquent + (lamports - released)
    BY <1>2, <1>3, <1>4, Zenon
  <2> HIDE DEF total, delinquent, lamports, up
  <2>4. total + delinquent = (total - (lamports - released)) + (delinquent + (lamports - released))
    BY <2>1
  <2> QED
    BY <2>2, <2>3, <2>4, Zenon
<1>6. Progression(up, Cardinality(Listed'), total_active_balance')
  BY <1>1
<1> HIDE DEF up
<1>7. CountersAfter(up)
  BY <1>2, <1>3, <1>4, <1>5, Zenon DEF CountersAfter
<1> QED
  BY <1>2, <1>6, <1>7, ProgressionStages DEF InStages

-----------------------------------------------------------------------------
(* The instructions of the second stage.                                   *)

(* update_deactivated finds no account to collect: none cools down.        *)
LEMMA NoneToCollect ==
  ASSUME SecondLoop, NEW s \in Stake, UpdateDeactivated(s) PROVE FALSE
<1>1. s \in Listed /\ account[s].activation = "inactive"
  BY DEF UpdateDeactivated, Begin
<1>2. Awaited(s) /\ ~Is(s, "Unknown")
  BY DEF SecondLoop
<1> QED
  BY <1>1, <1>2 DEF Awaited, Listed, Is

(* deposit_stake_account, with a validator that was visited or was not.    *)
LEMMA DepositStakeAccountSecond ==
  ASSUME TypeOK, TypeOK', SecondLoop, SecondCounters, NEW s \in Stake, NEW v \in Validator,
         NEW delegated \in UserStakes, NEW activation \in Activation,
         DepositStakeAccount(s, v, delegated, activation)
  PROVE  InStages'
<1> DEFINE up == delinquent_upgrader
           pending == v \notin up.visited
           counted == IF pending THEN delegated ELSE 0
<1>1. /\ validator[v].listed /\ s \in Keypair
      /\ activation \in {"activating", "active"}
      /\ account' = [account EXCEPT ![s] =
           [activation |-> activation, voter |-> v, delegated |-> delegated, extra |-> 0]]
      /\ stake' = [stake EXCEPT ![s] = NewStakeRecord(delegated, FALSE, TRUE)]
      /\ total_active_balance' = total_active_balance + delegated
      /\ UNCHANGED coolingVars
      /\ CountDeposited(v, delegated)
  BY DEF DepositStakeAccount, TakeOver, CountDeposited
<1>2. /\ up.stage = "IteratingValidators"
      /\ \A w \in up.visited : validator[w].active_balance = Sum(ActiveLamports(w))
      /\ \A w \in ListedValidators \ up.visited :
           /\ validator[w].delinquent_upgrader_active_balance = Sum(ActiveLamports(w))
           /\ validator[w].delinquent_upgrader_active_balance <= validator[w].active_balance
      /\ Sum(Balance) = total_active_balance + up.delinquent_balance_left
  BY DEF SecondCounters
<1>3. /\ validator' = [validator EXCEPT
           ![v].active_balance = @ + delegated,
           ![v].delinquent_upgrader_active_balance = @ + counted]
      /\ delinquent_upgrader' = up
  BY <1>1, <1>2 DEF CountDeposited
<1>4. delegated \in Nat /\ Is(s, "None") /\ counted \in Nat
  BY <1>1, UsersAssumption DEF Keypair, FreshStake, Listed, Is
<1>5. /\ validator[v] \in ValidatorRecord
      /\ validator[v].active_balance \in Nat
      /\ validator[v].delinquent_upgrader_active_balance \in Nat
      /\ total_active_balance \in Nat
      /\ up \in Upgrader /\ up.visited \subseteq Validator /\ up.delinquent_balance_left \in Nat
  BY RecordFields, VisitedType DEF TypeOK, Upgrader
<1> HIDE DEF counted
<1>6. /\ validator'[v].listed = validator[v].listed
      /\ validator'[v].active_balance = validator[v].active_balance + delegated
      /\ validator'[v].delinquent_upgrader_active_balance
           = validator[v].delinquent_upgrader_active_balance + counted
      /\ \A w \in Validator \ {v} : validator'[w] = validator[w]
  BY <1>3, <1>5 DEF ValidatorRecord, TypeOK
<1>7. /\ OthersSame(s)
      /\ account'[s].voter = v /\ account'[s].activation \in {"activating", "active"}
      /\ stake'[s].last_update_status = "Active" /\ ~stake'[s].is_emergency_unstaking
      /\ stake'[s].last_update_delegated_lamports = delegated
  BY <1>1 DEF TypeOK, OthersSame, NewStakeRecord
<1>8. /\ VisitedIn(s) = 0 /\ VisitedIn(s)' = delegated
      /\ ActiveIn(v, s) = 0 /\ ActiveIn(v, s)' = delegated
      /\ \A w \in Validator \ {v} : ActiveIn(w, s) = 0 /\ ActiveIn(w, s)' = 0
  BY <1>4, <1>7 DEF VisitedIn, ActiveIn, Is, Recorded, Voter
<1>9. /\ Sum(VisitedLamports') = Sum(VisitedLamports) - VisitedIn(s) + VisitedIn(s)'
      /\ \A w : Sum(ActiveLamports(w)')
                  = Sum(ActiveLamports(w)) - ActiveIn(w, s) + ActiveIn(w, s)'
  BY <1>7, VisitedEntry
<1>10. /\ Sum(VisitedLamports) \in Nat /\ Sum(Balance) \in Nat
       /\ \A w : Sum(ActiveLamports(w)) \in Nat
  BY VisitedType
<1>11. \A a \in Nat : a - 0 + delegated = a + delegated /\ a - 0 + 0 = a
  BY <1>4
<1>12. /\ Sum(VisitedLamports') = Sum(VisitedLamports) + delegated
       /\ Sum(ActiveLamports(v)') = Sum(ActiveLamports(v)) + delegated
       /\ \A w \in Validator \ {v} : Sum(ActiveLamports(w)') = Sum(ActiveLamports(w))
  <2>1. /\ Sum(VisitedLamports') = Sum(VisitedLamports) - 0 + delegated
        /\ Sum(ActiveLamports(v)') = Sum(ActiveLamports(v)) - 0 + delegated
        /\ \A w \in Validator \ {v} : Sum(ActiveLamports(w)') = Sum(ActiveLamports(w)) - 0 + 0
    BY <1>8, <1>9, Zenon
  <2> QED
    BY <1>10, <1>11, <2>1, Zenon
<1>13. Sum(Balance') = Sum(Balance) + delegated
  <2>1. Sum(Balance')
          = Sum(Balance) - validator[v].active_balance + (validator[v].active_balance + delegated)
    BY <1>6, BalanceEntry
  <2>2. \A a, b \in Nat : a - b + (b + delegated) = a + delegated
    BY <1>4
  <2> QED
    BY <1>5, <1>10, <2>1, <2>2, Zenon
<1>14. \A w \in Validator : validator'[w].listed = validator[w].listed
  BY <1>6
<1>15. SecondLoop'
  <2>1. \A u \in Stake \ {s} : Awaited(u)' /\ ~Is(u, "Unknown")'
    BY <1>7, <1>14, SameAwaited DEF SecondLoop, OthersSame, Is
  <2>2. Awaited(s)' /\ ~Is(s, "Unknown")'
    BY <1>1, <1>7, <1>14 DEF Awaited, Is, Voter
  <2> QED
    BY <1>1, <1>12, <2>1, <2>2 DEF SecondLoop, coolingVars
<1>16. \A w \in up.visited : validator'[w].active_balance = Sum(ActiveLamports(w)')
  BY <1>2, <1>5, <1>6, <1>12
<1>17. ASSUME NEW w \in ListedValidators' \ up.visited
       PROVE  /\ validator'[w].delinquent_upgrader_active_balance = Sum(ActiveLamports(w)')
              /\ validator'[w].delinquent_upgrader_active_balance <= validator'[w].active_balance
  <2>1. w \in ListedValidators \ up.visited /\ w \in Validator
    BY <1>14 DEF ListedValidators
  <2>2. CASE w = v
    <3>1. counted = delegated
      BY <2>1, <2>2 DEF counted
    <3> QED
      BY <1>2, <1>4, <1>5, <1>6, <1>12, <2>1, <2>2, <3>1
  <2>3. CASE w # v
    BY <1>2, <1>6, <1>12, <2>1, <2>3
  <2> QED
    BY <2>2, <2>3
<1>18. Sum(Balance') = total_active_balance' + up.delinquent_balance_left
  <2>1. \A a, b \in Nat : (a + b) + delegated = (a + delegated) + b
    BY <1>4
  <2>2. Sum(Balance') = (total_active_balance + up.delinquent_balance_left) + delegated
    BY <1>2, <1>13, Zenon
  <2>3. Sum(Balance') = (total_active_balance + delegated) + up.delinquent_balance_left
    BY <1>5, <2>1, <2>2, Zenon
  <2> QED
    BY <1>1, <2>3, Zenon
<1>19. SecondCounters'
  BY <1>2, <1>3, <1>16, <1>17, <1>18 DEF SecondCounters
<1> QED
  BY <1>15, <1>19 DEF InStages

(* A batch of validators is visited: their balances are put right, and the *)
(* sum of all balances falls by their excess.                              *)
LEMMA FinalizePutsRight ==
  ASSUME TypeOK, TypeOK', SecondLoop, SecondCounters, NEW batch \in SUBSET Validator,
         FinalizeDelinquentUpgrade(batch)
  PROVE  /\ SecondLoop'
         /\ UNCHANGED <<stakeVars, total_active_balance>>
         /\ batch \subseteq ListedValidators \ delinquent_upgrader.visited
         /\ ListedValidators' = ListedValidators
         /\ \A v \in batch : validator'[v].active_balance = Sum(ActiveLamports(v)')
         /\ \A v \in Validator \ batch : validator'[v] = validator[v]
         /\ \A v : Sum(ActiveLamports(v)') = Sum(ActiveLamports(v))
         /\ \E left \in Nat :
              /\ Sum(Balance') = total_active_balance' + left
              /\ IF delinquent_upgrader.visited \cup batch = ListedValidators
                 THEN left = 0 /\ delinquent_upgrader' = UpgradeDone
                 ELSE delinquent_upgrader' =
                        [delinquent_upgrader EXCEPT !.visited = @ \cup batch,
                                                    !.delinquent_balance_left = left]
<1> DEFINE up     == delinquent_upgrader
           excess == [v \in batch |-> validator[v].active_balance
                                        - validator[v].delinquent_upgrader_active_balance]
           left   == up.delinquent_balance_left - Sum(excess)
<1>1. /\ batch \subseteq ListedValidators \ up.visited
      /\ \A v \in batch : excess[v] >= 0
      /\ Sum(excess) <= up.delinquent_balance_left
      /\ validator' = [v \in Validator |->
           IF v \in batch
           THEN [validator[v] EXCEPT
                   !.active_balance = validator[v].delinquent_upgrader_active_balance,
                   !.delinquent_upgrader_active_balance = 0]
           ELSE validator[v]]
      /\ UNCHANGED <<account, stake, total_active_balance, coolingVars>>
  BY DEF FinalizeDelinquentUpgrade, stakeVars
<1>2. IF up.visited \cup batch = ListedValidators
      THEN left = 0 /\ delinquent_upgrader' = UpgradeDone
      ELSE delinquent_upgrader' = [up EXCEPT !.visited = @ \cup batch,
                                             !.delinquent_balance_left = left]
  BY DEF FinalizeDelinquentUpgrade
<1>3. /\ \A v \in Validator : /\ validator[v] \in ValidatorRecord
                              /\ validator[v].active_balance \in Nat
                              /\ validator[v].delinquent_upgrader_active_balance \in Nat
      /\ up.delinquent_balance_left \in Nat
      /\ total_active_balance \in Nat
  BY RecordFields, VisitedType DEF TypeOK, Upgrader
<1>4. /\ \A v \in batch :
           /\ validator'[v].active_balance = validator[v].delinquent_upgrader_active_balance
           /\ validator'[v].listed = validator[v].listed
      /\ \A v \in Validator \ batch : validator'[v] = validator[v]
  BY <1>1, <1>3 DEF ValidatorRecord
<1>5. \A v \in Validator : validator'[v].listed = validator[v].listed
  BY <1>4
<1>6. /\ VisitedLamports' = VisitedLamports
      /\ \A v : ActiveLamports(v)' = ActiveLamports(v)
  BY <1>1 DEF VisitedLamports, VisitedIn, ActiveLamports, ActiveIn, Is, Recorded, Voter
<1>7. SecondLoop'
  <2>1. \A s \in Stake : Awaited(s)' /\ ~Is(s, "Unknown")'
    BY <1>1, <1>5, SameAwaited DEF SecondLoop, Is
  <2> QED
    BY <1>1, <1>6, <2>1 DEF SecondLoop, coolingVars
<1>8. \A v \in batch : validator'[v].active_balance = Sum(ActiveLamports(v)')
  BY <1>1, <1>4, <1>6 DEF SecondCounters
<1>9. excess \in [batch -> Nat]
  <2>1. \A a, b \in Nat : a - b >= 0 => a - b \in Nat
    OBVIOUS
  <2>2. ASSUME NEW v \in batch PROVE excess[v] \in Nat
    <3>1. excess[v] = validator[v].active_balance
                        - validator[v].delinquent_upgrader_active_balance
      OBVIOUS
    <3>2. excess[v] >= 0 /\ v \in Validator
      BY <1>1
    <3> HIDE DEF excess
    <3> QED
      BY <1>3, <2>1, <3>1, <3>2
  <2>3. excess = [v \in batch |-> excess[v]]
    OBVIOUS
  <2> HIDE DEF excess
  <2> QED
    BY <2>2, <2>3
<1> DEFINE all == [v \in Validator |-> IF v \in batch THEN excess[v] ELSE 0]
<1>10. /\ all \in [Validator -> Nat]
       /\ \A v \in batch : all[v] = excess[v]
       /\ \A v \in Validator \ batch : all[v] = 0
  BY <1>9
<1>11. \A v \in Validator : Balance[v] = Balance'[v] + all[v]
  <2>1. ASSUME NEW v \in batch PROVE Balance[v] = Balance'[v] + all[v]
    <3>1. /\ Balance[v] = validator[v].active_balance
          /\ Balance'[v] = validator[v].delinquent_upgrader_active_balance
          /\ all[v] = validator[v].active_balance
                        - validator[v].delinquent_upgrader_active_balance
      BY <1>4 DEF Balance
    <3> HIDE DEF all
    <3> QED
      BY <1>3, <3>1
  <2>2. ASSUME NEW v \in Validator \ batch PROVE Balance[v] = Balance'[v] + all[v]
    BY <1>3, <1>4, <1>10 DEF Balance
  <2> QED
    BY <2>1, <2>2
<1> HIDE DEF all
<1>12. Balance \in [Validator -> Nat] /\ Balance' \in [Validator -> Nat]
  BY EntriesType, EntriesTypeAfter
<1>13. Sum(Balance) = Sum(Balance') + Sum(all)
  BY <1>10, <1>11, <1>12, ValidatorAssumption, SumAdd
<1> HIDE DEF excess
<1>14. Sum(all) = Sum(excess)
  BY <1>9, <1>10, SumExtend
<1>15. Sum(all) \in Nat /\ Sum(Balance') \in Nat
  BY <1>10, <1>12, ValidatorAssumption, SumType
<1>16. left \in Nat /\ Sum(Balance') = total_active_balance' + left
  <2> DEFINE a == Sum(Balance')
             b == Sum(all)
             t == total_active_balance
             l == up.delinquent_balance_left
  <2>1. /\ a \in Nat /\ b \in Nat /\ t \in Nat /\ l \in Nat
        /\ left = l - b
    BY <1>3, <1>14, <1>15, Zenon
  <2>2. a + b = t + l
    BY <1>13 DEF SecondCounters
  <2>3. b <= l
    BY <1>1, <1>14, Zenon
  <2>4. total_active_balance' = t
    BY <1>1
  <2> HIDE DEF a, b, t, l, left
  <2>5. left \in Nat /\ a = t + left
    BY <2>1, <2>2, <2>3
  <2> QED
    BY <2>4, <2>5, Zenon DEF a
<1>17. ListedValidators' = ListedValidators
  BY <1>5 DEF ListedValidators
<1> HIDE DEF left
<1> QED
  BY <1>1, <1>2, <1>4, <1>6, <1>7, <1>8, <1>16, <1>17 DEF stakeVars

(* finalize_delinquent_upgrade: the next batch, or the last.               *)
LEMMA FinalizeSecond ==
  ASSUME TypeOK, TypeOK', ScoreBooks, SecondLoop, SecondCounters,
         NEW batch \in SUBSET Validator, FinalizeDelinquentUpgrade(batch)
  PROVE  InStages' \/ (Upgraded /\ Matched /\ Accounting)'
<1> DEFINE visited == delinquent_upgrader.visited
<1>1. /\ SecondLoop'
      /\ UNCHANGED <<stakeVars, total_active_balance>>
      /\ batch \subseteq ListedValidators \ visited
      /\ ListedValidators' = ListedValidators
      /\ \A v \in batch : validator'[v].active_balance = Sum(ActiveLamports(v)')
      /\ \A v \in Validator \ batch : validator'[v] = validator[v]
      /\ \A v : Sum(ActiveLamports(v)') = Sum(ActiveLamports(v))
  BY FinalizePutsRight
<1>2. PICK left \in Nat :
        /\ Sum(Balance') = total_active_balance' + left
        /\ IF visited \cup batch = ListedValidators
           THEN left = 0 /\ delinquent_upgrader' = UpgradeDone
           ELSE delinquent_upgrader' =
                  [delinquent_upgrader EXCEPT !.visited = @ \cup batch,
                                              !.delinquent_balance_left = left]
  BY FinalizePutsRight
<1>3. /\ delinquent_upgrader.stage = "IteratingValidators"
      /\ \A v \in visited : validator[v].active_balance = Sum(ActiveLamports(v))
      /\ \A v \in ListedValidators \ visited :
           /\ validator[v].delinquent_upgrader_active_balance = Sum(ActiveLamports(v))
           /\ validator[v].delinquent_upgrader_active_balance <= validator[v].active_balance
      /\ delinquent_upgrader \in Upgrader /\ visited \subseteq Validator
  BY DEF SecondCounters, TypeOK, Upgrader
<1>4. \A v \in visited \cup batch : validator'[v].active_balance = Sum(ActiveLamports(v)')
  BY <1>1, <1>3
<1>5. CASE visited \cup batch # ListedValidators
  <2>1. /\ delinquent_upgrader'.stage = "IteratingValidators"
        /\ delinquent_upgrader'.visited = visited \cup batch
        /\ delinquent_upgrader'.delinquent_balance_left = left
    BY <1>2, <1>3, <1>5 DEF Upgrader
  <2>2. \A v \in ListedValidators' \ (visited \cup batch) :
          /\ validator'[v].delinquent_upgrader_active_balance = Sum(ActiveLamports(v)')
          /\ validator'[v].delinquent_upgrader_active_balance <= validator'[v].active_balance
    BY <1>1, <1>3 DEF ListedValidators
  <2>3. SecondCounters'
    BY <1>2, <1>4, <2>1, <2>2 DEF SecondCounters
  <2> QED
    BY <1>1, <2>3 DEF InStages
<1>6. CASE visited \cup batch = ListedValidators
  <2>1. left = 0 /\ delinquent_upgrader' = UpgradeDone
    BY <1>2, <1>6
  <2>2. /\ \A s \in Stake : Awaited(s)' /\ ~Is(s, "Unknown")'
        /\ delayed_unstake_cooling_down' = 0 /\ emergency_cooling_down' = 0
        /\ total_active_balance' = Sum(VisitedLamports')
    BY <1>1 DEF SecondLoop
  <2>3. Upgraded'
    BY <2>1, <2>2 DEF Upgraded
  <2>4. Matched'
    <3>1. ASSUME NEW s \in Stake PROVE Matches(s)'
      BY <2>2 DEF Awaited, Matches
    <3> QED
      BY <2>3, <3>1 DEF Matches, Matched, Is, Listed, Voter, Recorded, CoolingActivation
  <2>5. /\ total_active_balance' \in Nat /\ Sum(Balance') \in Nat
        /\ VisitedLamports' \in [Stake -> Nat] /\ RecordedLamports' \in [Stake -> Nat]
        /\ \A v : ActiveLamports(v)' \in [Stake -> Nat]
        /\ \A e : CoolingLamports(e)' \in [Stake -> Nat]
    BY VisitedTypeAfter, EntriesTypeAfter DEF TypeOK
  <2>6. total_active_balance' = Sum(Balance')
    BY <1>2, <2>1, <2>5
  <2>7. \A e : Sum(CoolingLamports(e)') = 0
    <3>1. \A e : \A s \in Stake : CoolingLamports(e)'[s] = 0
      BY <2>2 DEF CoolingLamports, CoolingIn, Awaited, Is
    <3> QED
      BY <2>5, <3>1, SumZero
  <2>8. RecordedLamports' = VisitedLamports'
    BY <2>2 DEF RecordedLamports, VisitedLamports, VisitedIn, Awaited, Is, Recorded
  <2>9. \A v \in Validator : validator'[v].active_balance = Sum(ActiveLamports(v)')
    <3>1. ASSUME NEW v \in Validator, v \notin visited \cup batch
          PROVE  validator'[v].active_balance = Sum(ActiveLamports(v)')
      <4>1. ~validator[v].listed /\ validator'[v] = validator[v]
        BY <1>1, <1>6, <3>1 DEF ListedValidators
      <4>2. validator'[v].active_balance = 0 /\ ~validator'[v].listed
        BY <4>1 DEF ScoreBooks, Unlisted, NewValidatorRecord
      <4>3. \A s \in Stake : ActiveLamports(v)'[s] = 0
        BY <2>2, <4>2 DEF ActiveLamports, ActiveIn, Awaited, Is, Voter
      <4> QED
        BY <2>5, <4>2, <4>3, SumZero
    <3> QED
      BY <1>4, <3>1
  <2>10. Kept'
    <3>1. \A a \in Nat : a + (0 + 0) = a
      OBVIOUS
    <3>2. total_active_balance' + (delayed_unstake_cooling_down' + emergency_cooling_down')
            = Sum(RecordedLamports')
      BY <2>2, <2>5, <2>8, <3>1, Zenon
    <3> QED
      BY <3>2 DEF Kept, TotalCoolingDown
  <2>11. Accounting'
    BY <2>2, <2>6, <2>7, <2>9, <2>10, Zenon DEF Accounting
  <2> QED
    BY <2>3, <2>4, <2>11
<1> QED
  BY <1>5, <1>6

-----------------------------------------------------------------------------
(* The other steps: before the upgrade is done, no instruction but these   *)
(* four changes what it counts.                                            *)

\* The accounts wait, the balances and what the upgrade has counted stay.
Waits ==
  /\ OthersUntouched({})
  /\ \A v \in Validator :
       /\ validator'[v].listed = validator[v].listed
       /\ validator'[v].active_balance = validator[v].active_balance
       /\ validator'[v].delinquent_upgrader_active_balance
            = validator[v].delinquent_upgrader_active_balance
  /\ UNCHANGED <<total_active_balance, coolingVars, delinquent_upgrader>>

(* An account that waits does so in the same way, unless somebody          *)
(* deactivates it although it was visited.                                 *)
LEMMA WaitsAwaited ==
  ASSUME TypeOK, NEW s \in Stake, Awaited(s), Waits, ~IsDone, NoneStruckOnceVisited
  PROVE  Awaited(s)'
<1>1. /\ Untouched(s)
      /\ \A v \in Validator : validator'[v].listed = validator[v].listed
  BY DEF Waits, OthersUntouched
<1>2. Is(s, "Active") /\ account[s].activation \in {"activating", "active"}
        => account'[s].activation \in {"activating", "active"}
  BY DEF NoneStruckOnceVisited, CanDeactivate
<1> QED
  BY <1>1, <1>2 DEF Awaited, Untouched, Is, Recorded, Voter

(* A step that lets everything wait leaves the stage as it is.             *)
LEMMA WaitsStages ==
  ASSUME TypeOK, InStages, Waits, ~IsDone, NoneStruckOnceVisited
  PROVE  InStages'
<1>1. /\ \A s \in Stake : Untouched(s)
      /\ \A v \in Validator :
           /\ validator'[v].listed = validator[v].listed
           /\ validator'[v].active_balance = validator[v].active_balance
           /\ validator'[v].delinquent_upgrader_active_balance
                = validator[v].delinquent_upgrader_active_balance
      /\ UNCHANGED <<total_active_balance, delayed_unstake_cooling_down, emergency_cooling_down,
                     delinquent_upgrader>>
  BY DEF Waits, OthersUntouched, coolingVars
<1>2. /\ VisitedStakes' = VisitedStakes
      /\ \A s \in Stake : Is(s, "Unknown")' = Is(s, "Unknown")
  BY <1>1 DEF VisitedStakes, Untouched, Is
<1>3. /\ VisitedLamports' = VisitedLamports
      /\ \A e : UnknownLamports(e)' = UnknownLamports(e)
      /\ \A v : ActiveLamports(v)' = ActiveLamports(v)
  BY <1>1 DEF VisitedLamports, VisitedIn, UnknownLamports, UnknownIn, ActiveLamports, ActiveIn,
              Untouched, Is, Recorded, Voter
<1>4. Balance' = Balance /\ ListedValidators' = ListedValidators
  BY <1>1 DEF Balance, ListedValidators
<1>5. ASSUME \A s \in Stake : Awaited(s) PROVE \A s \in Stake : Awaited(s)'
  BY <1>5, WaitsAwaited
<1>6. CASE FirstLoop /\ FirstCounters
  <2>1. FirstLoop'
    BY <1>1, <1>3, <1>5, <1>6 DEF FirstLoop
  <2>2. FirstCounters'
    BY <1>1, <1>2, <1>3, <1>4, <1>6 DEF FirstCounters
  <2> QED
    BY <2>1, <2>2 DEF InStages
<1>7. CASE SecondLoop /\ SecondCounters
  <2>1. SecondLoop'
    BY <1>1, <1>2, <1>3, <1>5, <1>7 DEF SecondLoop
  <2>2. delinquent_upgrader.visited \subseteq Validator
    BY DEF TypeOK, Upgrader
  <2>3. SecondCounters'
    BY <1>1, <1>3, <1>4, <1>7, <2>2 DEF SecondCounters, ListedValidators
  <2> QED
    BY <2>1, <2>3 DEF InStages
<1> QED
  BY <1>6, <1>7 DEF InStages

(* Whatever leaves the lists, the accounts and the totals alone.           *)
LEMMA StillWaits ==
  ASSUME TypeOK, UNCHANGED <<stakeVars, validatorVars, coolingVars, delinquent_upgrader>>
  PROVE  Waits
BY SameIsUntouched DEF Waits, OthersUntouched, stakeVars, validatorVars

(* The environment.                                                        *)
LEMMA EnvironmentWaits == TypeOK /\ Environment => Waits
<1> SUFFICES ASSUME TypeOK, Environment PROVE Waits
  OBVIOUS
<1>1. UNCHANGED <<validatorVars, coolingVars, delinquent_upgrader>>
  <2>1. Tick \/ NewEpoch => UNCHANGED <<validatorVars, coolingVars, delinquent_upgrader>>
    BY DEF Tick, NewEpoch
  <2>2. ASSUME NEW s \in Stake, NEW lamports
        PROVE  DeactivateDelinquent(s) \/ Tip(s, lamports) \/ Slash(s, lamports)
                 => UNCHANGED <<validatorVars, coolingVars, delinquent_upgrader>>
    BY DEF DeactivateDelinquent, Tip, Slash, ChangeAccount
  <2>3. ASSUME NEW lamports
        PROVE  Donate(lamports) \/ BurnMsol(lamports)
                 => UNCHANGED <<validatorVars, coolingVars, delinquent_upgrader>>
    BY DEF Donate, BurnMsol
  <2> QED
    BY <2>1, <2>2, <2>3 DEF Environment, ClusterStep, OutsideStep
<1> QED
  BY <1>1, EnvironmentRests DEF Rests, Waits, validatorVars

(* The crank's other instructions ask for the upgrade to be done.          *)
LEMMA CrankStages ==
  ASSUME TypeOK, TypeOK', ScoreBooks, InStages, ~IsDone, CrankStep
  PROVE  InStages' \/ (Upgraded /\ Matched /\ Accounting)'
<1>1. ASSUME NEW v, NEW s,
             \/ SpendExtraRun(v) \/ StakeReserve(v, s)
             \/ MergeStakes(v, s) \/ CreateCanonicalStake(v, s)
      PROVE  IsDone
  BY <1>1 DEF SpendExtraRun, StakeReserve, CanStakeReserve, MergeStakes, CreateCanonicalStake
<1>2. ASSUME NEW s, NEW new, DeactivateStake(s, new) PROVE IsDone
  BY <1>2 DEF DeactivateStake
<1>3. ASSUME NEW s \in Stake, UpdateActive(s) PROVE InStages'
  <2>1. delinquent_upgrader.stage # "IteratingValidators"
    BY <1>3 DEF UpdateActive
  <2> QED
    BY <1>3, <2>1, UpdateActiveFirst DEF InStages, SecondCounters
<1>4. ASSUME NEW s \in Stake, UpdateDeactivated(s) PROVE InStages'
  BY <1>4, UpdateDeactivatedFirst, NoneToCollect DEF InStages
<1>5. ASSUME NEW batch \in SUBSET Validator, FinalizeDelinquentUpgrade(batch)
      PROVE  InStages' \/ (Upgraded /\ Matched /\ Accounting)'
  <2>1. delinquent_upgrader.stage = "IteratingValidators"
    BY <1>5 DEF FinalizeDelinquentUpgrade
  <2> QED
    BY <1>5, <2>1, FinalizeSecond DEF InStages, FirstCounters
<1> QED
  BY <1>1, <1>2, <1>3, <1>4, <1>5 DEF CrankStep

(* The users' instructions.                                                *)
LEMMA UserStages ==
  ASSUME TypeOK, TypeOK', InStages, ~IsDone, UserStep
  PROVE  InStages' \/ Waits
<1>1. ASSUME NEW lamports \in DepositAmounts, Deposit(lamports) PROVE Waits
  BY <1>1, DepositEffect, StillWaits
<1>2. ASSUME NEW s \in Stake, NEW v \in Validator, NEW delegated \in UserStakes,
             NEW activation \in Activation, DepositStakeAccount(s, v, delegated, activation)
      PROVE  InStages'
  BY <1>2, DepositStakeAccountFirst, DepositStakeAccountSecond DEF InStages
<1>3. ASSUME NEW s, NEW msol_amount, WithdrawStakeAccount(s, msol_amount) PROVE IsDone
  BY <1>3 DEF WithdrawStakeAccount
<1>4. ASSUME NEW t, NEW msol_amount, OrderUnstake(t, msol_amount) \/ Claim(t) PROVE Waits
  BY <1>4, StillWaits DEF OrderUnstake, Claim
<1> QED
  BY <1>1, <1>2, <1>3, <1>4 DEF UserStep

(* The manager gives scores, and does nothing else to the lists.           *)
LEMMA ManagerWaits == TypeOK /\ ~IsDone /\ ManagerStep => Waits
<1> SUFFICES ASSUME TypeOK, ~IsDone, ManagerStep PROVE Waits
  OBVIOUS
<1>1. ASSUME NEW v, NEW score PROVE ~AddValidator(v, score) /\ ~RemoveValidator(v)
  BY DEF AddValidator, RemoveValidator
<1>2. ASSUME NEW s, NEW new, NEW amount PROVE ~EmergencyUnstake(s) /\ ~PartialUnstake(s, new, amount)
  BY DEF EmergencyUnstake, PartialUnstake
<1>3. ASSUME NEW extra_runs, ConfigValidatorSystem(extra_runs) PROVE Waits
  BY <1>3, StillWaits DEF ConfigValidatorSystem
<1>4. ASSUME NEW v \in Validator, NEW score, SetValidatorScore(v, score) PROVE Waits
  <2>1. /\ validator' = [validator EXCEPT ![v] = [validator[v] EXCEPT !.score = score]]
        /\ UNCHANGED <<account, stake, total_active_balance, coolingVars, delinquent_upgrader>>
    BY <1>4 DEF SetValidatorScore, ChangeValidators, stakeVars
  <2>2. \A w \in Validator :
          /\ validator'[w].listed = validator[w].listed
          /\ validator'[w].active_balance = validator[w].active_balance
          /\ validator'[w].delinquent_upgrader_active_balance
               = validator[w].delinquent_upgrader_active_balance
    BY <2>1 DEF TypeOK, ValidatorRecord
  <2> QED
    BY <2>1, <2>2, SameIsUntouched DEF Waits, OthersUntouched
<1> QED
  BY <1>1, <1>2, <1>3, <1>4 DEF ManagerStep

(* Before the upgrade is done, a step stays in the stages or ends them.    *)
LEMMA StagesStep ==
  ASSUME TypeOK, TypeOK', ScoreBooks, InStages, ~IsDone, [UpgradeNext]_vars
  PROVE  InStages' \/ (Upgraded /\ Matched /\ Accounting)'
<1>1. CASE UNCHANGED vars
  <2>1. UNCHANGED <<stakeVars, validatorVars, coolingVars, delinquent_upgrader>>
    BY <1>1 DEF vars
  <2>2. NoneStruckOnceVisited
    BY <2>1 DEF NoneStruckOnceVisited, CanDeactivate, stakeVars
  <2> QED
    BY <2>1, <2>2, StillWaits, WaitsStages
<1>2. CASE Next /\ NoneStruckOnceVisited
  <2>1. CASE PoolStep
    BY <1>2, <2>1, StillWaits, WaitsStages
       DEF PoolStep, AddLiquidity, RemoveLiquidity, LiquidUnstake, BurnLp, DonateSolLeg,
           stakingVars
  <2>2. CASE AdminStep
    BY <1>2, <2>2, StillWaits, WaitsStages
       DEF AdminStep, ConfigMarinade, ConfigLp, Pause, Resume, adminUnchanged
  <2> QED
    BY <1>2, <2>1, <2>2, EnvironmentWaits, CrankStages, UserStages, ManagerWaits, WaitsStages
       DEF Next
<1> QED
  BY <1>1, <1>2 DEF UpgradeNext

(* The invariant is inductive.                                             *)
LEMMA UpgradeInvStep == UpgradeInv /\ [UpgradeNext]_vars => UpgradeInv'
<1> SUFFICES ASSUME UpgradeInv, [UpgradeNext]_vars PROVE UpgradeInv'
  OBVIOUS
<1>1. TypeOK /\ ScoreBooks /\ [Next]_vars
  BY DEF UpgradeInv, UpgradeNext
<1>2. TypeOK' /\ ScoreBooks'
  BY <1>1, StepType, ScoreBooksStep
<1>3. CASE Upgraded /\ Matched /\ Accounting
  BY <1>1, <1>2, <1>3, UpgradedStep, BooksStep DEF Books, UpgradeInv
<1>4. CASE InStages
  <2>1. ~IsDone
    BY <1>4 DEF InStages, FirstCounters, SecondCounters, IsDone
  <2>2. InStages' \/ (Upgraded /\ Matched /\ Accounting)'
    BY <1>1, <1>2, <1>4, <2>1, StagesStep
  <2> QED
    BY <1>2, <2>2 DEF InStages, UpgradeInv
<1> QED
  BY <1>3, <1>4 DEF UpgradeInv, InStages

-----------------------------------------------------------------------------
(* The list the upgrade finds.                                             *)

(* What old accounts hold is a natural amount.                             *)
LEMMA HeldType ==
  ASSUME NEW S, NEW lamports \in [OldStake -> OldAmounts]
  PROVE  /\ [s \in OldStake |-> IF s \in S THEN lamports[s] ELSE 0] \in [OldStake -> Nat]
         /\ HeldBy(S, lamports) \in Nat
<1>1. IsFiniteSet(OldStake) /\ \A s \in OldStake : lamports[s] \in Nat
  BY OldAssumption, StakeAssumption, FS_Subset
<1> QED
  BY <1>1, SumType DEF HeldBy

(* Two parts of the old accounts hold what they hold together.             *)
LEMMA HeldTogether ==
  ASSUME NEW S, NEW T, S \cap T = {}, NEW lamports \in [OldStake -> OldAmounts]
  PROVE  HeldBy(S \cup T, lamports) = HeldBy(S, lamports) + HeldBy(T, lamports)
<1> DEFINE f == [s \in OldStake |-> IF s \in S THEN lamports[s] ELSE 0]
           g == [s \in OldStake |-> IF s \in T THEN lamports[s] ELSE 0]
           h == [s \in OldStake |-> IF s \in S \cup T THEN lamports[s] ELSE 0]
<1>1. /\ IsFiniteSet(OldStake) /\ \A s \in OldStake : lamports[s] \in Nat
      /\ f \in [OldStake -> Nat] /\ g \in [OldStake -> Nat] /\ h \in [OldStake -> Nat]
  BY OldAssumption, StakeAssumption, FS_Subset
<1>2. \A s \in OldStake : h[s] = f[s] + g[s]
  BY <1>1
<1> HIDE DEF f, g, h
<1>3. Sum(h) = Sum(f) + Sum(g)
  BY <1>1, <1>2, SumAdd
<1> QED
  BY <1>3 DEF f, g, h, HeldBy

(* What the validators' old accounts hold is what they hold together.      *)
LEMMA HeldByVoter ==
  ASSUME NEW S, NEW lamports \in [OldStake -> OldAmounts],
         NEW voter \in [OldStake -> Validator], NEW held \in [Validator -> Nat],
         \A v \in Validator : held[v] = HeldBy({s \in S : voter[s] = v}, lamports)
  PROVE  Sum(held) = HeldBy(S, lamports)
<1> DEFINE f == [s \in OldStake |-> IF s \in S THEN lamports[s] ELSE 0]
<1>1. IsFiniteSet(OldStake) /\ f \in [OldStake -> Nat]
  BY OldAssumption, StakeAssumption, FS_Subset, HeldType
<1>2. ASSUME NEW v \in Validator
      PROVE  held[v] = Sum([s \in OldStake |-> IF voter[s] = v THEN f[s] ELSE 0])
  <2>1. [s \in OldStake |-> IF s \in {u \in S : voter[u] = v} THEN lamports[s] ELSE 0]
          = [s \in OldStake |-> IF voter[s] = v THEN f[s] ELSE 0]
    OBVIOUS
  <2> QED
    BY <2>1 DEF HeldBy
<1> HIDE DEF f
<1>3. Sum(held) = Sum(f)
  BY <1>1, <1>2, ValidatorAssumption, SumPartition
<1> QED
  BY <1>3 DEF f, HeldBy

\* The parts of the list that UpgradeInit speaks of.
OldOf(kind, k) == {s \in OldStake : kind[s] = k}

OldStaked(kind) == OldOf(kind, "active") \cup OldOf(kind, "outside")

\* The active stake of the old books.
OldActive(kind, voter, lamports, missing) ==
  [v \in Validator |-> HeldBy({s \in OldStaked(kind) : voter[s] = v}, lamports) + missing[v]]

(* It is too high by what is missing elsewhere.                            *)
LEMMA OldActiveSum ==
  ASSUME NEW kind, NEW voter \in [OldStake -> Validator],
         NEW lamports \in [OldStake -> OldAmounts], NEW missing \in OldMissing
  PROVE  /\ OldActive(kind, voter, lamports, missing) \in [Validator -> Nat]
         /\ Sum(missing) \in Nat
         /\ Sum(OldActive(kind, voter, lamports, missing))
              = HeldBy(OldStaked(kind), lamports) + Sum(missing)
<1> DEFINE held == [v \in Validator |-> HeldBy({s \in OldStaked(kind) : voter[s] = v}, lamports)]
           active == OldActive(kind, voter, lamports, missing)
<1>1. missing \in [Validator -> Nat]
  BY OldAssumption
<1>2. /\ held \in [Validator -> Nat]
      /\ \A v \in Validator :
           held[v] = HeldBy({s \in OldStaked(kind) : voter[s] = v}, lamports)
  BY HeldType
<1>3. /\ active \in [Validator -> Nat]
      /\ \A v \in Validator : active[v] = held[v] + missing[v]
  BY <1>1, <1>2 DEF OldActive
<1> HIDE DEF active, held
<1>4. Sum(active) = Sum(held) + Sum(missing)
  BY <1>1, <1>2, <1>3, ValidatorAssumption, SumAdd
<1>5. Sum(held) = HeldBy(OldStaked(kind), lamports)
  BY <1>2, HeldByVoter
<1>6. Sum(missing) \in Nat
  BY <1>1, ValidatorAssumption, SumType
<1> QED
  BY <1>3, <1>4, <1>5, <1>6 DEF active

(* The lists and the totals of an old state.                               *)
LEMMA OldLists ==
  ASSUME NEW kind \in [OldStake -> Kind], NEW voter \in [OldStake -> Validator],
         NEW lamports \in [OldStake -> OldAmounts], NEW missing \in OldMissing,
         OldState(kind, voter, lamports, missing)
  PROVE  /\ \A s \in OldStake :
              /\ stake[s] = [last_update_delegated_lamports |-> lamports[s],
                             is_emergency_unstaking |-> kind[s] = "emergency",
                             last_update_status |-> "Unknown"]
              /\ account[s].activation \in OldActivation(kind[s])
              /\ account[s].voter = voter[s]
              /\ account[s] \in Account
         /\ \A s \in Stake \ OldStake : stake[s] = NoRecord /\ account[s] = NoAccount
         /\ \A v \in Validator :
              validator[v] = [NewValidatorRecord(1) EXCEPT
                                !.active_balance = OldActive(kind, voter, lamports, missing)[v]]
         /\ Sum(missing) <= HeldBy(OldOf(kind, "tickets"), lamports)
         /\ delayed_unstake_cooling_down
              = HeldBy(OldOf(kind, "tickets"), lamports) - Sum(missing)
         /\ emergency_cooling_down = HeldBy(OldOf(kind, "emergency"), lamports)
         /\ total_active_balance = Sum(OldActive(kind, voter, lamports, missing))
         /\ total_validator_score = Cardinality(Validator)
         /\ delinquent_upgrader = [UpgradeDone EXCEPT !.stage = "IteratingStakes"]
         /\ stake = [s \in Stake |-> stake[s]] /\ account = [s \in Stake |-> account[s]]
         /\ validator = [v \in Validator |-> validator[v]]
<1>1. /\ OldStake \subseteq Stake
      /\ \A s \in OldStake : lamports[s] \in Nat /\ voter[s] \in Validator /\ kind[s] \in Kind
  BY OldAssumption
<1>2. /\ stake = [s \in Stake |->
            IF s \in OldStake
            THEN [last_update_delegated_lamports |-> lamports[s],
                  is_emergency_unstaking |-> kind[s] = "emergency",
                  last_update_status |-> "Unknown"]
            ELSE NoRecord]
      /\ total_validator_score = Cardinality(Validator)
      /\ delinquent_upgrader = [UpgradeDone EXCEPT !.stage = "IteratingStakes"]
  BY DEF OldState
<1>3. PICK a \in [OldStake -> Activation] :
        /\ \A s \in OldStake : a[s] \in OldActivation(kind[s])
        /\ account = [s \in Stake |->
             IF s \in OldStake
             THEN [activation |-> a[s], voter |-> voter[s],
                   delegated |-> lamports[s], extra |-> 0]
             ELSE NoAccount]
  BY DEF OldState
<1>4. /\ Sum(missing) <= HeldBy(OldOf(kind, "tickets"), lamports)
      /\ delayed_unstake_cooling_down
           = HeldBy(OldOf(kind, "tickets"), lamports) - Sum(missing)
      /\ emergency_cooling_down = HeldBy(OldOf(kind, "emergency"), lamports)
  BY DEF OldState, OldOf
<1>5. /\ validator = [v \in Validator |-> [NewValidatorRecord(1) EXCEPT
            !.active_balance = OldActive(kind, voter, lamports, missing)[v]]]
      /\ total_active_balance = Sum(OldActive(kind, voter, lamports, missing))
  BY Zenon DEF OldState, OldActive, OldStaked, OldOf
<1>6. \A s \in OldStake :
        /\ stake[s] = [last_update_delegated_lamports |-> lamports[s],
                       is_emergency_unstaking |-> kind[s] = "emergency",
                       last_update_status |-> "Unknown"]
        /\ account[s] = [activation |-> a[s], voter |-> voter[s],
                         delegated |-> lamports[s], extra |-> 0]
  BY <1>1, <1>2, <1>3
<1>7. \A s \in OldStake : /\ account[s].activation \in OldActivation(kind[s])
                          /\ account[s].voter = voter[s] /\ account[s] \in Account
  BY <1>1, <1>3, <1>6 DEF Account
<1>8. \A s \in Stake \ OldStake : stake[s] = NoRecord /\ account[s] = NoAccount
  BY <1>2, <1>3
<1>9. /\ \A v \in Validator :
           validator[v] = [NewValidatorRecord(1) EXCEPT
                             !.active_balance = OldActive(kind, voter, lamports, missing)[v]]
      /\ validator = [v \in Validator |-> validator[v]]
  BY <1>5
<1>10. stake = [s \in Stake |-> stake[s]] /\ account = [s \in Stake |-> account[s]]
  BY <1>2, <1>3
<1> QED
  BY <1>2, <1>4, <1>5, <1>6, <1>7, <1>8, <1>9, <1>10

(* Its types.                                                              *)
LEMMA OldTypes ==
  ASSUME NEW kind \in [OldStake -> Kind], NEW voter \in [OldStake -> Validator],
         NEW lamports \in [OldStake -> OldAmounts], NEW missing \in OldMissing,
         OldState(kind, voter, lamports, missing)
  PROVE  TypeOK
<1> DEFINE active  == OldActive(kind, voter, lamports, missing)
           tickets == HeldBy(OldOf(kind, "tickets"), lamports)
<1>1. /\ active \in [Validator -> Nat] /\ Sum(active) \in Nat /\ Sum(missing) \in Nat
      /\ tickets \in Nat /\ HeldBy(OldOf(kind, "emergency"), lamports) \in Nat
      /\ HeldBy(OldStake, lamports) \in Nat
  BY OldActiveSum, HeldType, ValidatorAssumption, SumType
<1>2. ASSUME NEW s \in Stake PROVE stake[s] \in StakeRecord /\ account[s] \in Account
  <2>1. CASE s \in OldStake
    <3>1. lamports[s] \in Nat /\ (kind[s] = "emergency") \in BOOLEAN
      BY <2>1, OldAssumption
    <3>2. /\ stake[s] = [last_update_delegated_lamports |-> lamports[s],
                         is_emergency_unstaking |-> kind[s] = "emergency",
                         last_update_status |-> "Unknown"]
          /\ account[s] \in Account
      BY <2>1, OldLists
    <3> QED
      BY <3>1, <3>2 DEF StakeRecord, StakeStatus
  <2>2. CASE s \notin OldStake
    BY <2>2, OldLists, EmptySlotType
  <2> QED
    BY <2>1, <2>2
<1> HIDE DEF active, tickets
<1>3. ASSUME NEW v \in Validator PROVE validator[v] \in ValidatorRecord
  <2>1. validator[v] = [NewValidatorRecord(1) EXCEPT !.active_balance = active[v]]
    BY OldLists DEF active
  <2>2. NewValidatorRecord(1) \in ValidatorRecord /\ active[v] \in Nat
    BY <1>1 DEF NewValidatorRecord, ValidatorRecord
  <2> QED
    BY <2>1, <2>2 DEF ValidatorRecord
<1>4. /\ stake \in [Stake -> StakeRecord] /\ account \in [Stake -> Account]
      /\ validator \in [Validator -> ValidatorRecord]
  BY <1>2, <1>3, OldLists
<1>5. /\ delayed_unstake_cooling_down \in Nat /\ emergency_cooling_down \in Nat
      /\ total_active_balance \in Nat /\ total_validator_score \in Nat
  <2>1. \A a, b \in Nat : b <= a => a - b \in Nat
    OBVIOUS
  <2>2. /\ Sum(missing) <= tickets
        /\ delayed_unstake_cooling_down = tickets - Sum(missing)
        /\ emergency_cooling_down = HeldBy(OldOf(kind, "emergency"), lamports)
        /\ total_active_balance = Sum(active)
        /\ total_validator_score = Cardinality(Validator)
    BY OldLists DEF active, tickets
  <2> QED
    BY <1>1, <2>1, <2>2, ValidatorAssumption, FS_CardinalityType
<1>6. delinquent_upgrader \in Upgrader
  BY OldLists DEF UpgradeDone, Upgrader
<1>7. /\ available_reserve_balance \in Nat /\ reserve_pda \in Nat
      /\ msol_supply \in Nat /\ msol_mint_supply \in Nat
  <2>1. /\ available_reserve_balance = Sum(missing)
        /\ reserve_pda = RentExempt + Sum(missing)
        /\ msol_supply = HeldBy(OldStake, lamports) + Sum(missing)
        /\ msol_mint_supply = msol_supply
    BY DEF OldState
  <2> QED
    BY <1>1, <2>1, RentAssumption
<1>8. /\ epoch \in Nat /\ phase \in Phase
      /\ last_stake_delta_epoch \in Nat \cup {Never} /\ extra_stake_delta_runs \in Nat
      /\ last_stake_move_epoch \in Nat /\ stake_moved \in Nat
      /\ ticket \in [Ticket -> TicketRecord]
      /\ circulating_ticket_balance \in Nat /\ circulating_ticket_count \in Nat
      /\ staking_sol_cap \in Nat /\ paused \in BOOLEAN /\ config \in Config
      /\ sol_leg \in Nat /\ msol_leg \in Nat /\ lp_mint_supply \in Nat /\ lp_supply \in Nat
  <2>1. /\ epoch = FirstEpoch /\ phase = "early"
        /\ last_stake_delta_epoch = Never /\ extra_stake_delta_runs = 0
        /\ last_stake_move_epoch = 0 /\ stake_moved = 0
        /\ ticket = [t \in Ticket |-> ClosedTicket]
        /\ circulating_ticket_balance = 0 /\ circulating_ticket_count = 0
        /\ staking_sol_cap = InitialCap /\ paused = FALSE /\ config = InitialConfig
        /\ sol_leg = RentExempt /\ msol_leg = 0 /\ lp_mint_supply = 0 /\ lp_supply = 0
    BY DEF OldState
  <2> QED
    BY <2>1, RentAssumption, ConfigAssumption, EmptySlotType DEF Phase
<1> QED
  BY <1>4, <1>5, <1>6, <1>7, <1>8 DEF TypeOK

(* Its scores.                                                             *)
LEMMA OldScores ==
  ASSUME NEW kind \in [OldStake -> Kind], NEW voter \in [OldStake -> Validator],
         NEW lamports \in [OldStake -> OldAmounts], NEW missing \in OldMissing,
         OldState(kind, voter, lamports, missing)
  PROVE  ScoreBooks
<1>1. \A v \in Validator : validator[v].score = 1 /\ validator[v].listed
  <2>1. \A v \in Validator :
          validator[v] = [NewValidatorRecord(1) EXCEPT
                            !.active_balance = OldActive(kind, voter, lamports, missing)[v]]
    BY OldLists
  <2> QED
    BY <2>1 DEF NewValidatorRecord
<1>2. Score \in [Validator -> Nat] /\ \A v \in Validator : Score[v] = 1
  BY <1>1 DEF Score
<1>3. Sum(Score) = Cardinality(Validator)
  BY <1>2, ValidatorAssumption, SumOnes
<1>4. total_validator_score = Cardinality(Validator)
  BY OldLists
<1> QED
  BY <1>1, <1>3, <1>4 DEF ScoreBooks, Score

(* No account of it was visited, and its sums are those of its parts.      *)
LEMMA OldSums ==
  ASSUME NEW kind \in [OldStake -> Kind], NEW voter \in [OldStake -> Validator],
         NEW lamports \in [OldStake -> OldAmounts], NEW missing \in OldMissing,
         OldState(kind, voter, lamports, missing)
  PROVE  /\ \A s \in Stake : Awaited(s) /\ ~Is(s, "Active")
         /\ VisitedStakes = {}
         /\ Sum(VisitedLamports) = 0
         /\ \A v \in Validator : Sum(ActiveLamports(v)) = 0
         /\ Sum(UnknownLamports(FALSE))
              = HeldBy(OldStaked(kind), lamports) + HeldBy(OldOf(kind, "tickets"), lamports)
         /\ Sum(UnknownLamports(TRUE)) = HeldBy(OldOf(kind, "emergency"), lamports)
<1>1. /\ OldStake \subseteq Stake /\ TypeOK
      /\ \A s \in OldStake : lamports[s] \in Nat /\ voter[s] \in Validator /\ kind[s] \in Kind
  BY OldAssumption, OldTypes
<1>2. /\ \A s \in OldStake :
           /\ stake[s] = [last_update_delegated_lamports |-> lamports[s],
                          is_emergency_unstaking |-> kind[s] = "emergency",
                          last_update_status |-> "Unknown"]
           /\ account[s].activation \in OldActivation(kind[s])
           /\ account[s].voter = voter[s]
      /\ \A s \in Stake \ OldStake : stake[s] = NoRecord /\ account[s] = NoAccount
  BY OldLists
<1>3. /\ \A s \in OldStake : /\ Is(s, "Unknown") /\ ~Is(s, "Active")
                             /\ Recorded(s) = lamports[s] /\ Voter(s) = voter[s]
                             /\ stake[s].is_emergency_unstaking = (kind[s] = "emergency")
      /\ \A s \in Stake \ OldStake : /\ Is(s, "None") /\ ~Is(s, "Unknown") /\ ~Is(s, "Active")
                                     /\ Recorded(s) = 0 /\ account[s].activation = "none"
  <2>1. ASSUME NEW s \in OldStake
        PROVE  /\ Is(s, "Unknown") /\ ~Is(s, "Active")
               /\ Recorded(s) = lamports[s] /\ Voter(s) = voter[s]
               /\ stake[s].is_emergency_unstaking = (kind[s] = "emergency")
    <3> DEFINE is_emergency == kind[s] = "emergency"
    <3>1. /\ stake[s] = [last_update_delegated_lamports |-> lamports[s],
                         is_emergency_unstaking |-> is_emergency,
                         last_update_status |-> "Unknown"]
          /\ account[s].voter = voter[s]
          /\ is_emergency \in BOOLEAN
      BY <1>2
    <3> HIDE DEF is_emergency
    <3>2. /\ stake[s].last_update_status = "Unknown"
          /\ stake[s].last_update_delegated_lamports = lamports[s]
          /\ stake[s].is_emergency_unstaking = is_emergency
      BY <3>1
    <3> QED
      BY <3>1, <3>2 DEF is_emergency, Is, Recorded, Voter
  <2>2. ASSUME NEW s \in Stake \ OldStake
        PROVE  /\ Is(s, "None") /\ ~Is(s, "Unknown") /\ ~Is(s, "Active")
               /\ Recorded(s) = 0 /\ account[s].activation = "none"
    BY <1>2 DEF Is, Recorded, NoRecord, NoAccount
  <2> QED
    BY <2>1, <2>2
<1>4. ASSUME NEW s \in Stake PROVE Awaited(s) /\ ~Is(s, "Active")
  <2>1. CASE s \in OldStake
    BY <1>1, <1>2, <1>3, <2>1 DEF Awaited, OldActivation, Kind, CoolingActivation
  <2>2. CASE s \notin OldStake
    BY <1>3, <2>2 DEF Awaited
  <2> QED
    BY <2>1, <2>2
<1>5. VisitedStakes = {} /\ Sum(VisitedLamports) = 0
  <2>1. VisitedLamports \in [Stake -> Nat] /\ \A s \in Stake : VisitedLamports[s] = 0
    BY <1>1, <1>4, VisitedType DEF VisitedLamports, VisitedIn
  <2> QED
    BY <1>4, <2>1, SumZero DEF VisitedStakes
<1>6. ASSUME NEW v \in Validator PROVE Sum(ActiveLamports(v)) = 0
  <2>1. ActiveLamports(v) \in [Stake -> Nat] /\ \A s \in Stake : ActiveLamports(v)[s] = 0
    BY <1>1, <1>4, EntriesType DEF ActiveLamports, ActiveIn
  <2> QED
    BY <2>1, SumZero
<1>7. ASSUME NEW e \in BOOLEAN
      PROVE  Sum(UnknownLamports(e))
               = HeldBy({s \in OldStake : (kind[s] = "emergency") = e}, lamports)
  <2> DEFINE S == {s \in OldStake : (kind[s] = "emergency") = e}
             g == [s \in OldStake |-> IF s \in S THEN lamports[s] ELSE 0]
             f == UnknownLamports(e)
  <2>1. f \in [Stake -> Nat] /\ g \in [OldStake -> Nat]
    BY <1>1, VisitedType, HeldType
  <2>2. /\ \A s \in OldStake : g[s] = f[s]
        /\ \A s \in Stake \ OldStake : f[s] = 0
    BY <1>1, <1>3 DEF UnknownLamports, UnknownIn
  <2> HIDE DEF f, g
  <2>3. Sum(g) = Sum(f)
    BY <1>1, <2>1, <2>2, SumExtend
  <2> QED
    BY <2>3 DEF f, g, HeldBy
<1>8. Sum(UnknownLamports(TRUE)) = HeldBy(OldOf(kind, "emergency"), lamports)
  <2>1. {s \in OldStake : (kind[s] = "emergency") = TRUE} = OldOf(kind, "emergency")
    BY DEF OldOf
  <2> QED
    BY <1>7, <2>1
<1>9. Sum(UnknownLamports(FALSE))
        = HeldBy(OldStaked(kind), lamports) + HeldBy(OldOf(kind, "tickets"), lamports)
  <2>1. /\ {s \in OldStake : (kind[s] = "emergency") = FALSE}
             = OldStaked(kind) \cup OldOf(kind, "tickets")
        /\ OldStaked(kind) \cap OldOf(kind, "tickets") = {}
    BY <1>1 DEF OldOf, OldStaked, Kind
  <2>2. HeldBy(OldStaked(kind) \cup OldOf(kind, "tickets"), lamports)
          = HeldBy(OldStaked(kind), lamports) + HeldBy(OldOf(kind, "tickets"), lamports)
    BY <2>1, HeldTogether
  <2>3. Sum(UnknownLamports(FALSE))
          = HeldBy({s \in OldStake : (kind[s] = "emergency") = FALSE}, lamports)
    BY <1>7
  <2> QED
    BY <2>1, <2>2, <2>3, Zenon
<1> QED
  BY <1>4, <1>5, <1>6, <1>8, <1>9

(* It is a state of the first stage.                                       *)
LEMMA OldFirst ==
  ASSUME NEW kind \in [OldStake -> Kind], NEW voter \in [OldStake -> Validator],
         NEW lamports \in [OldStake -> OldAmounts], NEW missing \in OldMissing,
         OldState(kind, voter, lamports, missing)
  PROVE  FirstLoop /\ FirstCounters
<1> DEFINE active    == OldActive(kind, voter, lamports, missing)
           staked    == HeldBy(OldStaked(kind), lamports)
           tickets   == HeldBy(OldOf(kind, "tickets"), lamports)
           emergency == HeldBy(OldOf(kind, "emergency"), lamports)
<1>1. /\ \A s \in Stake : Awaited(s)
      /\ VisitedStakes = {}
      /\ Sum(VisitedLamports) = 0
      /\ \A v \in Validator : Sum(ActiveLamports(v)) = 0
      /\ Sum(UnknownLamports(FALSE)) = staked + tickets
      /\ Sum(UnknownLamports(TRUE)) = emergency
  BY OldSums
<1>2. /\ active \in [Validator -> Nat] /\ Sum(missing) \in Nat
      /\ Sum(active) = staked + Sum(missing)
      /\ staked \in Nat /\ tickets \in Nat
  <2>1. staked \in Nat /\ tickets \in Nat
    BY HeldType
  <2> QED
    BY <2>1, OldActiveSum
<1>3. /\ \A v \in Validator : validator[v] = [NewValidatorRecord(1) EXCEPT
                                                !.active_balance = active[v]]
      /\ Sum(missing) <= tickets
      /\ delayed_unstake_cooling_down = tickets - Sum(missing)
      /\ emergency_cooling_down = emergency
      /\ total_active_balance = Sum(active)
      /\ delinquent_upgrader = [UpgradeDone EXCEPT !.stage = "IteratingStakes"]
  BY OldLists
<1> HIDE DEF active, staked, tickets, emergency
<1>4. \A v \in Validator : /\ validator[v].delinquent_upgrader_active_balance = 0
                           /\ validator[v].active_balance = active[v]
                           /\ active[v] \in Nat
  BY <1>2, <1>3 DEF NewValidatorRecord
<1>5. FirstLoop
  <2>1. total_active_balance + delayed_unstake_cooling_down = 0 + (staked + tickets)
    <3>1. \A a, m, t \in Nat : (a + m) + (t - m) = 0 + (a + t)
      OBVIOUS
    <3> QED
      BY <1>2, <1>3, <3>1
  <2>2. total_active_balance + delayed_unstake_cooling_down
          = Sum(VisitedLamports) + Sum(UnknownLamports(FALSE))
    BY <1>1, <2>1, Zenon
  <2>3. \A v \in Validator :
          /\ validator[v].delinquent_upgrader_active_balance = Sum(ActiveLamports(v))
          /\ validator[v].delinquent_upgrader_active_balance <= validator[v].active_balance
    BY <1>1, <1>4
  <2> QED
    BY <1>1, <1>3, <2>2, <2>3 DEF FirstLoop
<1>6. FirstCounters
  <2>1. Balance = active
    BY <1>2, <1>4 DEF Balance
  <2>2. Sum(Balance) = total_active_balance + 0
    <3>1. total_active_balance \in Nat
      BY OldTypes DEF TypeOK
    <3> QED
      BY <1>3, <2>1, <3>1
  <2>3. Cardinality(VisitedStakes) = 0
    BY <1>1, FS_EmptySet
  <2> QED
    BY <1>1, <1>3, <2>2, <2>3 DEF FirstCounters, UpgradeDone
<1> QED
  BY <1>5, <1>6

(* The upgrade starts in its invariant.                                    *)
LEMMA UpgradeInvInit == UpgradeInit => UpgradeInv
<1> SUFFICES ASSUME UpgradeInit PROVE UpgradeInv
  OBVIOUS
<1>1. PICK kind \in [OldStake -> Kind], voter \in [OldStake -> Validator],
           lamports \in [OldStake -> OldAmounts], missing \in OldMissing :
        OldState(kind, voter, lamports, missing)
  BY DEF UpgradeInit
<1> QED
  BY <1>1, OldTypes, OldScores, OldFirst DEF UpgradeInv

-----------------------------------------------------------------------------
(* What the invariant says of the properties.                              *)

(* The sums of the properties are those of the invariant.                  *)
LEMMA SumsOfVisited ==
  /\ \A v : Counted(v) = Sum(ActiveLamports(v))
  /\ RecordedSum(VisitedStakes) = Sum(VisitedLamports)
<1>1. \A v : Counted(v) = Sum(ActiveLamports(v))
  BY DEF Counted, RecordedSum, ActiveStakes, ActiveLamports, ActiveIn
<1>2. RecordedSum(VisitedStakes) = Sum(VisitedLamports)
  BY DEF RecordedSum, VisitedStakes, VisitedLamports, VisitedIn
<1> QED
  BY <1>1, <1>2

(* The stake visited is the sum of what the validators have of it.         *)
LEMMA VisitedByVoter ==
  ASSUME TypeOK, \A s \in Stake : Awaited(s)
  PROVE  Sum([v \in Validator |-> Sum(ActiveLamports(v))]) = Sum(VisitedLamports)
<1> DEFINE C == Validator \cup {None}
           class == [s \in Stake |-> IF Voter(s) \in Validator THEN Voter(s) ELSE None]
           part(c) == [s \in Stake |-> IF class[s] = c THEN VisitedLamports[s] ELSE 0]
           total == [c \in C |-> Sum(part(c))]
           counted == [v \in Validator |-> Sum(ActiveLamports(v))]
<1>1. IsFiniteSet(C) /\ None \notin Validator
  BY ValidatorAssumption, FS_Singleton, FS_Union
<1>2. class \in [Stake -> C] /\ VisitedLamports \in [Stake -> Nat]
  BY VisitedType
<1>3. \A s \in Stake : VisitedLamports[s] = VisitedIn(s)
  BY DEF VisitedLamports
<1>4. \A s \in Stake : Is(s, "Active") => Voter(s) \in Validator
  BY DEF Awaited, Is
<1>5. ASSUME NEW v \in Validator PROVE part(v) = ActiveLamports(v)
  <2>1. \A s \in Stake : class[s] = v <=> Voter(s) = v
    BY <1>1
  <2> HIDE DEF class
  <2> QED
    BY <1>3, <2>1 DEF ActiveLamports, ActiveIn, VisitedIn
<1>6. part(None) \in [Stake -> Nat] /\ \A s \in Stake : part(None)[s] = 0
  <2>1. \A s \in Stake : class[s] = None => ~Is(s, "Active")
    BY <1>1, <1>4
  <2> HIDE DEF class
  <2>2. \A s \in Stake : class[s] = None => VisitedLamports[s] = 0
    BY <1>3, <2>1 DEF VisitedIn
  <2> QED
    BY <2>2
<1> HIDE DEF part
<1>7. /\ \A v \in Validator : total[v] = counted[v] /\ counted[v] \in Nat
      /\ total[None] = 0
  BY <1>1, <1>5, <1>6, SumZero, VisitedType
<1>8. /\ total \in [C -> Nat] /\ counted \in [Validator -> Nat]
      /\ \A c \in C \ Validator : total[c] = 0
      /\ \A c \in C : total[c] = Sum(part(c))
  BY <1>7
<1> HIDE DEF class, total, counted, C
<1>9. Sum(total) = Sum(VisitedLamports)
  BY <1>1, <1>2, <1>8, StakeAssumption, SumPartition DEF part
<1>10. Validator \subseteq C
  BY DEF C
<1>11. Sum(counted) = Sum(total)
  BY <1>7, <1>8, <1>10, SumExtend
<1> QED
  BY <1>9, <1>11 DEF counted

(* What is left of the delinquent balance is the excess of the validators  *)
(* that were not visited.                                                  *)
LEMMA LeftIsExcess ==
  ASSUME TypeOK, ScoreBooks, SecondLoop, SecondCounters
  PROVE  delinquent_upgrader.delinquent_balance_left = Sum(Excess)
<1> DEFINE counted == [v \in Validator |-> Sum(ActiveLamports(v))]
           rest == ListedValidators \ delinquent_upgrader.visited
           all == [v \in Validator |-> IF v \in rest THEN Excess[v] ELSE 0]
           left == delinquent_upgrader.delinquent_balance_left
<1>1. /\ \A s \in Stake : Awaited(s)
      /\ total_active_balance = Sum(VisitedLamports)
      /\ \A v \in delinquent_upgrader.visited :
           validator[v].active_balance = Sum(ActiveLamports(v))
      /\ \A v \in rest :
           /\ validator[v].delinquent_upgrader_active_balance = Sum(ActiveLamports(v))
           /\ validator[v].delinquent_upgrader_active_balance <= validator[v].active_balance
      /\ Sum(Balance) = total_active_balance + left
  BY DEF SecondLoop, SecondCounters
<1>2. /\ left \in Nat /\ rest \subseteq Validator
      /\ \A v \in Validator : validator[v].active_balance \in Nat /\ Sum(ActiveLamports(v)) \in Nat
  BY RecordFields, VisitedType DEF TypeOK, Upgrader, ListedValidators
<1>3. ASSUME NEW v \in rest
      PROVE  /\ Excess[v] \in Nat
             /\ validator[v].active_balance = Sum(ActiveLamports(v)) + Excess[v]
  <2>1. Excess[v] = validator[v].active_balance - Sum(ActiveLamports(v))
    BY SumsOfVisited DEF Excess
  <2>2. \A a, b \in Nat : b <= a => a - b \in Nat /\ a = b + (a - b)
    OBVIOUS
  <2>3. v \in Validator /\ Sum(ActiveLamports(v)) <= validator[v].active_balance
    BY <1>1, <1>2
  <2> QED
    BY <1>2, <2>1, <2>2, <2>3
<1>4. ASSUME NEW v \in Validator, v \notin rest
      PROVE  validator[v].active_balance = Sum(ActiveLamports(v))
  <2>1. CASE v \in delinquent_upgrader.visited
    BY <1>1, <2>1
  <2>2. CASE v \notin ListedValidators
    <3>1. ~validator[v].listed
      BY <2>2 DEF ListedValidators
    <3>2. validator[v].active_balance = 0
      BY <3>1 DEF ScoreBooks, Unlisted, NewValidatorRecord
    <3>3. \A s \in Stake : ActiveLamports(v)[s] = 0
      BY <1>1, <3>1 DEF ActiveLamports, ActiveIn, Awaited, Is, Voter
    <3> QED
      BY <3>2, <3>3, EntriesType, SumZero
  <2> QED
    BY <1>4, <2>1, <2>2
<1>5. Excess \in [rest -> Nat]
  BY <1>3 DEF Excess
<1>6. /\ all \in [Validator -> Nat] /\ counted \in [Validator -> Nat]
      /\ Balance \in [Validator -> Nat]
      /\ \A v \in rest : Excess[v] = all[v]
      /\ \A v \in Validator \ rest : all[v] = 0
  BY <1>2, <1>5, EntriesType
<1>7. \A v \in Validator : Balance[v] = counted[v] + all[v]
  <2>1. ASSUME NEW v \in rest PROVE Balance[v] = counted[v] + all[v]
    BY <1>2, <1>3, <1>6 DEF Balance
  <2>2. ASSUME NEW v \in Validator, v \notin rest PROVE Balance[v] = counted[v] + all[v]
    <3>1. Balance[v] = counted[v] /\ counted[v] \in Nat /\ all[v] = 0
      BY <1>2, <1>4, <2>2 DEF Balance
    <3> QED
      BY <3>1
  <2> QED
    BY <2>1, <2>2
<1>8. Sum(counted) = total_active_balance
  BY <1>1, VisitedByVoter
<1> HIDE DEF all, counted, rest
<1>9. Sum(Balance) = Sum(counted) + Sum(all)
  BY <1>6, <1>7, ValidatorAssumption, SumAdd
<1>10. Sum(Excess) = Sum(all)
  <2>1. /\ rest \in SUBSET Validator /\ all \in [Validator -> Nat] /\ Excess \in [rest -> Nat]
        /\ \A v \in rest : Excess[v] = all[v]
        /\ \A v \in Validator \ rest : all[v] = 0
    BY <1>2, <1>5, <1>6
  <2> QED
    BY <2>1, SumExtend
<1>11. Sum(all) \in Nat /\ Sum(counted) \in Nat
  BY <1>6, ValidatorAssumption, SumType
<1>12. \A t, a, l \in Nat : t + a = t + l => l = a
  OBVIOUS
<1>13. Sum(counted) + Sum(all) = Sum(counted) + left
  BY <1>1, <1>8, <1>9, Zenon
<1>14. left = Sum(all)
  BY <1>2, <1>11, <1>12, <1>13
<1> QED
  BY <1>10, <1>14

(* The invariant gives what each stage promises.                           *)
LEMMA UpgradeInvBooks == UpgradeInv => UpgradeBooks /\ UnknownOnlyInFirstLoop
<1> SUFFICES ASSUME UpgradeInv PROVE UpgradeBooks /\ UnknownOnlyInFirstLoop
  OBVIOUS
<1>1. TypeOK /\ ScoreBooks
  BY DEF UpgradeInv
<1>2. CASE FirstLoop /\ FirstCounters
  <2>1. delinquent_upgrader.stage = "IteratingStakes"
    BY <1>2 DEF FirstCounters
  <2>2. FirstStage
    BY <1>2, SumsOfVisited DEF FirstStage, FirstLoop, FirstCounters, VisitedStakes
  <2> QED
    BY <2>1, <2>2 DEF UpgradeBooks, UnknownOnlyInFirstLoop
<1>3. CASE SecondLoop /\ SecondCounters
  <2>1. delinquent_upgrader.stage = "IteratingValidators" /\ \A s \in Stake : ~Is(s, "Unknown")
    BY <1>3 DEF SecondLoop, SecondCounters
  <2>2. SecondStage
    BY <1>1, <1>3, SumsOfVisited, LeftIsExcess DEF SecondStage, SecondCounters
  <2> QED
    BY <2>1, <2>2 DEF UpgradeBooks, UnknownOnlyInFirstLoop
<1>4. CASE Upgraded /\ Matched /\ Accounting
  <2>1. delinquent_upgrader.stage = "Done" /\ \A s \in Stake : ~Is(s, "Unknown")
    BY <1>4 DEF Upgraded, UpgradeDone
  <2>2. ValidatorBooks /\ CoolingBooks
    BY <1>4, AccountingIsBooks
  <2> QED
    BY <2>1, <2>2 DEF UpgradeBooks, UnknownOnlyInFirstLoop
<1> QED
  BY <1>2, <1>3, <1>4 DEF UpgradeInv

-----------------------------------------------------------------------------
(* The invariant holds throughout.                                         *)
LEMMA UpgradeInvHolds == UpgradeSpec => []UpgradeInv
BY UpgradeInvInit, UpgradeInvStep, PTL DEF UpgradeSpec

(* What the upgrade has counted is right at every moment: in the first     *)
(* stage the active stake visited, of each validator and altogether; in    *)
(* the second the balances that were put right and what is left to take    *)
(* from the others; and once it is done, all books are those of a program  *)
(* that needed no upgrade, whatever was missing and whatever else was      *)
(* deposited or slashed in the meantime.  Accounts may be deactivated from *)
(* outside meanwhile only as UpgradeNext allows: while it has not visited  *)
(* them.                                                                   *)
THEOREM UpgradeBooksHold == UpgradeSpec => []UpgradeBooks
BY UpgradeInvHolds, UpgradeInvBooks, PTL

(* No record is of unknown status when the first loop is over ("this is    *)
(* done only on the first loop after program upgrade", update.rs), as long *)
(* as no account it has visited is deactivated from outside.               *)
THEOREM UnknownEndsWithFirstLoop == UpgradeSpec => []UnknownOnlyInFirstLoop
BY UpgradeInvHolds, UpgradeInvBooks, PTL

(* From the end of the upgrade on, the program is one that needed none:    *)
(* its types, lists and books are those BooksProofs starts from.  This,    *)
(* too, is under UpgradeNext: no account the upgrade has visited is        *)
(* deactivated from outside before the upgrade is over.                    *)
THEOREM UpgradeEndsInBooks == UpgradeSpec => [](IsDone => Books)
<1>1. UpgradeInv /\ IsDone => Books
  BY DEF UpgradeInv, IsDone, FirstCounters, SecondCounters, Books
<1> QED
  BY <1>1, UpgradeInvHolds, PTL
=============================================================================
