----------------------------- MODULE BooksProofs -----------------------------
(***************************************************************************)
(* The running totals of StakeSystem and ValidatorSystem agree with the    *)
(* lists, the lists with the stake accounts, and the stake moved in an     *)
(* epoch with its budget, for every value of the constants.                *)
(*                                                                         *)
(* Each invariant is shown to survive the eight changes of ChangesProofs.  *)
(***************************************************************************)
EXTENDS ChangesProofs

-----------------------------------------------------------------------------
(* The list and the accounts.                                              *)

\* What the list says of an account that is in it, and that nothing is said
\* of the others.
Matched ==
  \A s \in Stake :
    /\ s \in Listed <=> account[s].activation # "none"
    /\ s \in Listed => Voter(s) \in Validator
    /\ s \notin Listed => Recorded(s) = 0
    /\ Is(s, "Active") => ~stake[s].is_emergency_unstaking
    /\ Is(s, "Deactivating") => account[s].activation \in CoolingActivation

\* Of one account, with the statuses of an upgraded list.
Matches(s) ==
  \/ /\ Is(s, "None") /\ Recorded(s) = 0 /\ account[s].activation = "none"
  \/ /\ Is(s, "Active") /\ ~stake[s].is_emergency_unstaking
     /\ Voter(s) \in Validator /\ account[s].activation # "none"
  \/ /\ Is(s, "Deactivating") /\ account[s].activation \in CoolingActivation
     /\ Voter(s) \in Validator

(* The two say the same.                                                   *)
LEMMA MatchedIsMatches ==
  ASSUME TypeOK, Upgraded PROVE Matched <=> \A s \in Stake : Matches(s)
<1>1. ASSUME NEW s \in Stake
      PROVE  /\ Is(s, "None") \/ Is(s, "Active") \/ Is(s, "Deactivating")
             /\ account[s].activation \in Activation
             /\ s \in Listed <=> ~Is(s, "None")
  BY RecordFields DEF Upgraded, Is, Listed, StakeRecord, StakeStatus, Account
<1>2. ASSUME NEW s \in Stake
      PROVE  Matches(s) <=>
               /\ s \in Listed <=> account[s].activation # "none"
               /\ s \in Listed => Voter(s) \in Validator
               /\ s \notin Listed => Recorded(s) = 0
               /\ Is(s, "Active") => ~stake[s].is_emergency_unstaking
               /\ Is(s, "Deactivating") => account[s].activation \in CoolingActivation
  BY <1>1 DEF Matches, Is, CoolingActivation
<1> QED
  BY <1>2 DEF Matched

(* An account that is not touched still matches.                           *)
LEMMA UntouchedMatches ==
  ASSUME TypeOK, NEW s \in Stake, Untouched(s), Matches(s)
  PROVE  Matches(s)'
BY DEF Untouched, Matches, Is, Recorded, Voter

(* The list matches the accounts after a change.                           *)
LEMMA MatchedChange ==
  ASSUME TypeOK, Upgraded, Change, \A s \in Stake : Matches(s)
  PROVE  \A s \in Stake : Matches(s)'
<1> USE DEF Matches, Is, Recorded, Voter, CoolingActivation
<1>1. ASSUME NEW s \in Stake, OthersUntouched({s}), Matches(s)'
      PROVE  \A u \in Stake : Matches(u)'
  BY <1>1, UntouchedMatches DEF OthersUntouched
<1>2. ASSUME NEW s \in Stake, NEW n \in Stake, OthersUntouched({s, n}), Matches(s)', Matches(n)'
      PROVE  \A u \in Stake : Matches(u)'
  BY <1>2, UntouchedMatches DEF OthersUntouched
<1> USE DEF NewStakeRecord, NoRecord, NoAccount
<1>3. CASE Rests
  BY <1>3, UntouchedMatches DEF Rests, OthersUntouched
<1>4. ASSUME NEW s \in Stake, NEW v \in Validator, NEW amount, Enters(s, v, amount)
      PROVE  \A u \in Stake : Matches(u)'
  BY <1>1, <1>4 DEF Enters
<1>5. ASSUME NEW s \in Stake, NEW amount, Recounts(s, amount)
      PROVE  \A u \in Stake : Matches(u)'
  <2>1. stake[s] \in StakeRecord /\ Voter(s) \in Validator
    BY <1>5, RecordFields DEF Recounts, Balances
  <2> QED
    BY <1>1, <1>5, <2>1 DEF Recounts, StakeRecord
<1>6. ASSUME NEW s \in Stake, NEW is_emergency, Cools(s, is_emergency)
      PROVE  \A u \in Stake : Matches(u)'
  <2>1. stake[s] \in StakeRecord /\ Voter(s) \in Validator
    BY <1>6, RecordFields DEF Cools, Unstakable
  <2> QED
    BY <1>1, <1>6, <2>1 DEF Cools, StakeRecord
<1>7. ASSUME NEW s \in Stake, NEW new \in Stake, NEW amount, NEW is_emergency,
             CoolsPart(s, new, amount, is_emergency)
      PROVE  \A u \in Stake : Matches(u)'
  <2>1. /\ stake[s] \in StakeRecord /\ account[s] \in Account
        /\ Voter(s) \in Validator /\ Is(s, "Active") /\ ~stake[s].is_emergency_unstaking
    BY <1>7, RecordFields DEF CoolsPart, Unstakable
  <2>2. Matches(s)'
    BY <1>7, <2>1 DEF CoolsPart, StakeRecord, Account
  <2>3. Matches(new)'
    BY <1>7, <2>1 DEF CoolsPart
  <2> QED
    BY <1>2, <1>7, <2>2, <2>3 DEF CoolsPart
<1>8. ASSUME NEW s \in Stake, Leaves(s)
      PROVE  \A u \in Stake : Matches(u)'
  BY <1>1, <1>8 DEF Leaves
<1>9. ASSUME NEW canonical \in Stake, NEW source \in Stake, NEW amount,
             Merges(canonical, source, amount)
      PROVE  \A u \in Stake : Matches(u)'
  <2>1. stake[canonical] \in StakeRecord /\ account[canonical] \in Account
    BY RecordFields
  <2>2. Matches(canonical)' /\ Matches(source)'
    BY <1>9, <2>1 DEF Merges, StakeRecord, Account
  <2> QED
    BY <1>2, <1>9, <2>2 DEF Merges
<1>10. ASSUME NEW canonical \in Stake, NEW source \in Stake, Renames(canonical, source)
       PROVE  \A u \in Stake : Matches(u)'
  <2>1. Matches(canonical)' /\ Matches(source)'
    BY <1>10 DEF Renames, Balances
  <2> QED
    BY <1>2, <1>10, <2>1 DEF Renames
<1> QED
  BY <1>3, <1>4, <1>5, <1>6, <1>7, <1>8, <1>9, <1>10 DEF Change

-----------------------------------------------------------------------------
(* The sums, entry by entry.                                               *)

\* What account s counts for in the stake active with v, and in the stake
\* cooling down for a reason.
ActiveIn(v, s) == IF Is(s, "Active") /\ Voter(s) = v THEN Recorded(s) ELSE 0

CoolingIn(is_emergency, s) ==
  IF Is(s, "Deactivating") /\ stake[s].is_emergency_unstaking = is_emergency
  THEN Recorded(s) ELSE 0

ActiveLamports(v) == [s \in Stake |-> ActiveIn(v, s)]

CoolingLamports(is_emergency) == [s \in Stake |-> CoolingIn(is_emergency, s)]

RecordedLamports == [s \in Stake |-> Recorded(s)]

Balance == [v \in Validator |-> validator[v].active_balance]

\* The running totals, as sums of these; and all of them together.
Kept == total_active_balance + TotalCoolingDown = Sum(RecordedLamports)

Accounting ==
  /\ \A v \in Validator : validator[v].active_balance = Sum(ActiveLamports(v))
  /\ total_active_balance = Sum(Balance)
  /\ delayed_unstake_cooling_down = Sum(CoolingLamports(FALSE))
  /\ emergency_cooling_down = Sum(CoolingLamports(TRUE))
  /\ Kept

(* They are the sums of the properties.                                    *)
LEMMA AccountingIsBooks == Accounting <=> ValidatorBooks /\ CoolingBooks /\ Kept
<1>1. \A v : RecordedSum(ActiveStakes(v)) = Sum(ActiveLamports(v))
  BY DEF RecordedSum, ActiveStakes, ActiveLamports, ActiveIn
<1>2. \A e : RecordedSum(CoolingStakes(e)) = Sum(CoolingLamports(e))
  BY DEF RecordedSum, CoolingStakes, CoolingLamports, CoolingIn
<1> QED
  BY <1>1, <1>2 DEF Accounting, ValidatorBooks, CoolingBooks, Balance

(* The entries are naturals.                                               *)
LEMMA EntriesType ==
  ASSUME TypeOK
  PROVE  /\ \A v : ActiveLamports(v) \in [Stake -> Nat]
         /\ \A e : CoolingLamports(e) \in [Stake -> Nat]
         /\ RecordedLamports \in [Stake -> Nat]
         /\ Balance \in [Validator -> Nat]
BY RecordFields
   DEF ActiveLamports, ActiveIn, CoolingLamports, CoolingIn, RecordedLamports, Balance

(* So they are after a step.                                               *)
LEMMA EntriesTypeAfter ==
  ASSUME TypeOK'
  PROVE  /\ \A v : ActiveLamports(v)' \in [Stake -> Nat]
         /\ \A e : CoolingLamports(e)' \in [Stake -> Nat]
         /\ RecordedLamports' \in [Stake -> Nat]
         /\ Balance' \in [Validator -> Nat]
<1>1. /\ \A s \in Stake : Recorded(s)' \in Nat
      /\ \A v \in Validator : validator'[v].active_balance \in Nat
  BY DEF TypeOK, StakeRecord, ValidatorRecord, Recorded
<1> QED
  BY <1>1
     DEF ActiveLamports, ActiveIn, CoolingLamports, CoolingIn, RecordedLamports, Balance

(* The entries of an account that is not touched stay.                     *)
LEMMA UntouchedEntries ==
  ASSUME NEW s \in Stake, Untouched(s)
  PROVE  /\ \A v : ActiveIn(v, s)' = ActiveIn(v, s)
         /\ \A e : CoolingIn(e, s)' = CoolingIn(e, s)
         /\ Recorded(s)' = Recorded(s)
BY DEF Untouched, ActiveIn, CoolingIn, Is, Voter, Recorded

(* One account is touched: each sum changes by what its entry does.        *)
LEMMA OneEntry ==
  ASSUME TypeOK, TypeOK', NEW s \in Stake, OthersUntouched({s})
  PROVE  /\ \A v : Sum(ActiveLamports(v)') - ActiveIn(v, s)'
                     = Sum(ActiveLamports(v)) - ActiveIn(v, s)
         /\ \A e : Sum(CoolingLamports(e)') - CoolingIn(e, s)'
                     = Sum(CoolingLamports(e)) - CoolingIn(e, s)
         /\ Sum(RecordedLamports') - Recorded(s)' = Sum(RecordedLamports) - Recorded(s)
<1>1. \A u \in Stake \ {s} : Untouched(u)
  BY DEF OthersUntouched
<1>2. ASSUME NEW v
      PROVE  Sum(ActiveLamports(v)') - ActiveIn(v, s)' = Sum(ActiveLamports(v)) - ActiveIn(v, s)
  <2>1. /\ \A u \in Stake \ {s} : ActiveLamports(v)'[u] = ActiveLamports(v)[u]
        /\ ActiveLamports(v)[s] = ActiveIn(v, s) /\ ActiveLamports(v)'[s] = ActiveIn(v, s)'
    BY <1>1, UntouchedEntries DEF ActiveLamports
  <2>2. ActiveLamports(v) \in [Stake -> Nat] /\ ActiveLamports(v)' \in [Stake -> Nat]
    BY EntriesType, EntriesTypeAfter
  <2> QED
    BY <2>1, <2>2, StakeAssumption, SumUpdate
<1>3. ASSUME NEW e
      PROVE  Sum(CoolingLamports(e)') - CoolingIn(e, s)'
               = Sum(CoolingLamports(e)) - CoolingIn(e, s)
  <2>1. /\ \A u \in Stake \ {s} : CoolingLamports(e)'[u] = CoolingLamports(e)[u]
        /\ CoolingLamports(e)[s] = CoolingIn(e, s) /\ CoolingLamports(e)'[s] = CoolingIn(e, s)'
    BY <1>1, UntouchedEntries DEF CoolingLamports
  <2>2. CoolingLamports(e) \in [Stake -> Nat] /\ CoolingLamports(e)' \in [Stake -> Nat]
    BY EntriesType, EntriesTypeAfter
  <2> QED
    BY <2>1, <2>2, StakeAssumption, SumUpdate
<1>4. Sum(RecordedLamports') - Recorded(s)' = Sum(RecordedLamports) - Recorded(s)
  <2>1. /\ \A u \in Stake \ {s} : RecordedLamports'[u] = RecordedLamports[u]
        /\ RecordedLamports[s] = Recorded(s) /\ RecordedLamports'[s] = Recorded(s)'
    BY <1>1, UntouchedEntries DEF RecordedLamports
  <2>2. RecordedLamports \in [Stake -> Nat] /\ RecordedLamports' \in [Stake -> Nat]
    BY EntriesType, EntriesTypeAfter
  <2> QED
    BY <2>1, <2>2, StakeAssumption, SumUpdate
<1> QED
  BY <1>2, <1>3, <1>4

(* Two accounts are touched.                                               *)
LEMMA TwoEntries ==
  ASSUME TypeOK, TypeOK', NEW s \in Stake, NEW n \in Stake, s # n, OthersUntouched({s, n})
  PROVE  /\ \A v : Sum(ActiveLamports(v)')
                     = Sum(ActiveLamports(v)) - ActiveIn(v, s) - ActiveIn(v, n)
                         + ActiveIn(v, s)' + ActiveIn(v, n)'
         /\ \A e : Sum(CoolingLamports(e)')
                     = Sum(CoolingLamports(e)) - CoolingIn(e, s) - CoolingIn(e, n)
                         + CoolingIn(e, s)' + CoolingIn(e, n)'
         /\ Sum(RecordedLamports')
              = Sum(RecordedLamports) - Recorded(s) - Recorded(n) + Recorded(s)' + Recorded(n)'
<1>1. \A u \in Stake \ {s, n} : Untouched(u)
  BY DEF OthersUntouched
<1>2. ASSUME NEW v
      PROVE  Sum(ActiveLamports(v)')
               = Sum(ActiveLamports(v)) - ActiveIn(v, s) - ActiveIn(v, n)
                   + ActiveIn(v, s)' + ActiveIn(v, n)'
  <2>1. /\ \A u \in Stake \ {s, n} : ActiveLamports(v)'[u] = ActiveLamports(v)[u]
        /\ ActiveLamports(v)[s] = ActiveIn(v, s) /\ ActiveLamports(v)'[s] = ActiveIn(v, s)'
        /\ ActiveLamports(v)[n] = ActiveIn(v, n) /\ ActiveLamports(v)'[n] = ActiveIn(v, n)'
    BY <1>1, UntouchedEntries DEF ActiveLamports
  <2>2. ActiveLamports(v) \in [Stake -> Nat] /\ ActiveLamports(v)' \in [Stake -> Nat]
    BY EntriesType, EntriesTypeAfter
  <2> QED
    BY <2>1, <2>2, StakeAssumption, SumUpdateTwo
<1>3. ASSUME NEW e
      PROVE  Sum(CoolingLamports(e)')
               = Sum(CoolingLamports(e)) - CoolingIn(e, s) - CoolingIn(e, n)
                   + CoolingIn(e, s)' + CoolingIn(e, n)'
  <2>1. /\ \A u \in Stake \ {s, n} : CoolingLamports(e)'[u] = CoolingLamports(e)[u]
        /\ CoolingLamports(e)[s] = CoolingIn(e, s) /\ CoolingLamports(e)'[s] = CoolingIn(e, s)'
        /\ CoolingLamports(e)[n] = CoolingIn(e, n) /\ CoolingLamports(e)'[n] = CoolingIn(e, n)'
    BY <1>1, UntouchedEntries DEF CoolingLamports
  <2>2. CoolingLamports(e) \in [Stake -> Nat] /\ CoolingLamports(e)' \in [Stake -> Nat]
    BY EntriesType, EntriesTypeAfter
  <2> QED
    BY <2>1, <2>2, StakeAssumption, SumUpdateTwo
<1>4. Sum(RecordedLamports')
        = Sum(RecordedLamports) - Recorded(s) - Recorded(n) + Recorded(s)' + Recorded(n)'
  <2>1. /\ \A u \in Stake \ {s, n} : RecordedLamports'[u] = RecordedLamports[u]
        /\ RecordedLamports[s] = Recorded(s) /\ RecordedLamports'[s] = Recorded(s)'
        /\ RecordedLamports[n] = Recorded(n) /\ RecordedLamports'[n] = Recorded(n)'
    BY <1>1, UntouchedEntries DEF RecordedLamports
  <2>2. RecordedLamports \in [Stake -> Nat] /\ RecordedLamports' \in [Stake -> Nat]
    BY EntriesType, EntriesTypeAfter
  <2> QED
    BY <2>1, <2>2, StakeAssumption, SumUpdateTwo
<1> QED
  BY <1>2, <1>3, <1>4

-----------------------------------------------------------------------------
(* The totals follow the entries.                                          *)

\* active lamports are added to the stake of v, delayed and emergency to what
\* cools down.
Moved(v, active, delayed, emergency) ==
  /\ Balances(v, active)
  /\ delayed_unstake_cooling_down' = delayed_unstake_cooling_down + delayed
  /\ emergency_cooling_down' = emergency_cooling_down + emergency

\* The lists say the same of their sums.
SumsMoved(v, active, delayed, emergency) ==
  /\ \A w \in Validator : Sum(ActiveLamports(w)')
                            = Sum(ActiveLamports(w)) + (IF w = v THEN active ELSE 0)
  /\ Sum(CoolingLamports(FALSE)') = Sum(CoolingLamports(FALSE)) + delayed
  /\ Sum(CoolingLamports(TRUE)') = Sum(CoolingLamports(TRUE)) + emergency
  /\ Sum(RecordedLamports') = Sum(RecordedLamports) + active + delayed + emergency

(* When totals and sums move together, they stay equal.                    *)
LEMMA MovedTogether ==
  ASSUME TypeOK, TypeOK', Accounting, NEW v \in Validator,
         NEW active \in Int, NEW delayed \in Int, NEW emergency \in Int,
         Moved(v, active, delayed, emergency), SumsMoved(v, active, delayed, emergency)
  PROVE  Accounting'
<1>1. /\ \A w \in Validator : validator[w].active_balance = Sum(ActiveLamports(w))
      /\ total_active_balance = Sum(Balance)
      /\ delayed_unstake_cooling_down = Sum(CoolingLamports(FALSE))
      /\ emergency_cooling_down = Sum(CoolingLamports(TRUE))
      /\ total_active_balance + TotalCoolingDown = Sum(RecordedLamports)
  BY DEF Accounting, Kept
<1>2. /\ validator'[v].active_balance = validator[v].active_balance + active
      /\ \A w \in Validator \ {v} : validator'[w].active_balance = validator[w].active_balance
      /\ total_active_balance' = total_active_balance + active
      /\ delayed_unstake_cooling_down' = delayed_unstake_cooling_down + delayed
      /\ emergency_cooling_down' = emergency_cooling_down + emergency
  BY DEF Moved, Balances
<1>3. /\ total_active_balance \in Nat /\ delayed_unstake_cooling_down \in Nat
      /\ emergency_cooling_down \in Nat
      /\ \A w \in Validator : validator[w].active_balance \in Nat
  BY RecordFields
<1>4. \A w \in Validator : validator'[w].active_balance = Sum(ActiveLamports(w)')
  BY <1>1, <1>2, <1>3 DEF SumsMoved
<1>5. total_active_balance' = Sum(Balance')
  <2>1. /\ Balance[v] = validator[v].active_balance
        /\ Balance'[v] = validator'[v].active_balance
        /\ \A w \in Validator \ {v} : Balance'[w] = Balance[w]
    BY <1>2 DEF Balance
  <2>2. Balance \in [Validator -> Nat] /\ Balance' \in [Validator -> Nat]
    BY EntriesType, EntriesTypeAfter
  <2>3. Sum(Balance') - Balance'[v] = Sum(Balance) - Balance[v]
    BY <2>1, <2>2, ValidatorAssumption, SumUpdate
  <2>4. Sum(Balance') \in Nat /\ Sum(Balance) \in Nat
    BY <2>2, ValidatorAssumption, SumType
  <2> QED
    BY <1>1, <1>2, <1>3, <2>1, <2>3, <2>4
<1>6. /\ delayed_unstake_cooling_down' = Sum(CoolingLamports(FALSE)')
      /\ emergency_cooling_down' = Sum(CoolingLamports(TRUE)')
  BY <1>1, <1>2, <1>3 DEF SumsMoved
<1>7. total_active_balance' + TotalCoolingDown' = Sum(RecordedLamports')
  <2>1. total_active_balance + (delayed_unstake_cooling_down + emergency_cooling_down)
          = Sum(RecordedLamports)
    BY <1>1 DEF TotalCoolingDown
  <2>2. Sum(RecordedLamports') = Sum(RecordedLamports) + active + delayed + emergency
    BY DEF SumsMoved
  <2>3. total_active_balance' + (delayed_unstake_cooling_down' + emergency_cooling_down')
          = Sum(RecordedLamports')
    BY <1>2, <1>3, <2>1, <2>2
  <2> QED
    BY <2>3 DEF TotalCoolingDown
<1> QED
  BY <1>4, <1>5, <1>6, <1>7 DEF Accounting, Kept

(* An entry and its sum change together.                                   *)
LEMMA SumFollows ==
  ASSUME NEW sum \in Nat, NEW new_sum \in Nat, NEW entry \in Nat, NEW new_entry \in Nat,
         NEW more \in Int,
         new_sum - new_entry = sum - entry, new_entry = entry + more
  PROVE  new_sum = sum + more
OBVIOUS

(* And two entries.                                                        *)
LEMMA SumFollowsBoth ==
  ASSUME NEW sum \in Nat, NEW new_sum \in Nat, NEW a \in Nat, NEW b \in Nat,
         NEW new_a \in Nat, NEW new_b \in Nat, NEW more \in Int,
         new_sum = sum - a - b + new_a + new_b, new_a + new_b = a + b + more
  PROVE  new_sum = sum + more
OBVIOUS

(* The sums move as the entries of one account do.                         *)
LEMMA OneMoves ==
  ASSUME TypeOK, TypeOK', NEW s \in Stake, OthersUntouched({s}), NEW v \in Validator,
         NEW active \in Int, NEW delayed \in Int, NEW emergency \in Int,
         \A w \in Validator :
           ActiveIn(w, s)' = ActiveIn(w, s) + (IF w = v THEN active ELSE 0),
         CoolingIn(FALSE, s)' = CoolingIn(FALSE, s) + delayed,
         CoolingIn(TRUE, s)' = CoolingIn(TRUE, s) + emergency,
         Recorded(s)' = Recorded(s) + active + delayed + emergency
  PROVE  SumsMoved(v, active, delayed, emergency)
<1>1. /\ \A w : ActiveIn(w, s) \in Nat /\ Sum(ActiveLamports(w)) \in Nat
                /\ Sum(ActiveLamports(w)') \in Nat
      /\ \A e : CoolingIn(e, s) \in Nat /\ Sum(CoolingLamports(e)) \in Nat
                /\ CoolingIn(e, s)' \in Nat /\ Sum(CoolingLamports(e)') \in Nat
      /\ Recorded(s) \in Nat /\ Sum(RecordedLamports) \in Nat /\ Sum(RecordedLamports') \in Nat
  <2>1. Recorded(s) \in Nat /\ Recorded(s)' \in Nat
    BY DEF TypeOK, StakeRecord, Recorded
  <2> QED
    BY <2>1, EntriesType, EntriesTypeAfter, StakeAssumption, SumType DEF ActiveIn, CoolingIn
<1>2. ASSUME NEW w \in Validator
      PROVE  Sum(ActiveLamports(w)')
               = Sum(ActiveLamports(w)) + (IF w = v THEN active ELSE 0)
  <2>1. Sum(ActiveLamports(w)') - ActiveIn(w, s)' = Sum(ActiveLamports(w)) - ActiveIn(w, s)
    BY OneEntry
  <2> DEFINE more == IF w = v THEN active ELSE 0
  <2>2. ActiveIn(w, s)' = ActiveIn(w, s) + more /\ more \in Int
    OBVIOUS
  <2> HIDE DEF more
  <2>3. Sum(ActiveLamports(w)') = Sum(ActiveLamports(w)) + more
    BY <1>1, <2>1, <2>2
  <2> QED
    BY <2>3 DEF more
<1>3. Sum(CoolingLamports(FALSE)') = Sum(CoolingLamports(FALSE)) + delayed
  <2>1. Sum(CoolingLamports(FALSE)') - CoolingIn(FALSE, s)'
          = Sum(CoolingLamports(FALSE)) - CoolingIn(FALSE, s)
    BY OneEntry
  <2>2. /\ CoolingIn(FALSE, s) \in Nat /\ CoolingIn(FALSE, s)' \in Nat
        /\ Sum(CoolingLamports(FALSE)) \in Nat /\ Sum(CoolingLamports(FALSE)') \in Nat
    BY <1>1, Zenon
  <2> DEFINE sum == Sum(CoolingLamports(FALSE))    new_sum == Sum(CoolingLamports(FALSE)')
             entry == CoolingIn(FALSE, s)          new_entry == CoolingIn(FALSE, s)'
  <2>3. /\ new_sum - new_entry = sum - entry /\ new_entry = entry + delayed
        /\ sum \in Nat /\ new_sum \in Nat /\ entry \in Nat /\ new_entry \in Nat
    BY <2>1, <2>2, Zenon
  <2> HIDE DEF sum, new_sum, entry, new_entry
  <2>4. new_sum = sum + delayed
    BY <2>3, SumFollows
  <2> QED
    BY <2>4, Zenon DEF sum, new_sum
<1>4. Sum(CoolingLamports(TRUE)') = Sum(CoolingLamports(TRUE)) + emergency
  <2>1. Sum(CoolingLamports(TRUE)') - CoolingIn(TRUE, s)'
          = Sum(CoolingLamports(TRUE)) - CoolingIn(TRUE, s)
    BY OneEntry
  <2>2. /\ CoolingIn(TRUE, s) \in Nat /\ CoolingIn(TRUE, s)' \in Nat
        /\ Sum(CoolingLamports(TRUE)) \in Nat /\ Sum(CoolingLamports(TRUE)') \in Nat
    BY <1>1, Zenon
  <2> DEFINE sum == Sum(CoolingLamports(TRUE))    new_sum == Sum(CoolingLamports(TRUE)')
             entry == CoolingIn(TRUE, s)          new_entry == CoolingIn(TRUE, s)'
  <2>3. /\ new_sum - new_entry = sum - entry /\ new_entry = entry + emergency
        /\ sum \in Nat /\ new_sum \in Nat /\ entry \in Nat /\ new_entry \in Nat
    BY <2>1, <2>2, Zenon
  <2> HIDE DEF sum, new_sum, entry, new_entry
  <2>4. new_sum = sum + emergency
    BY <2>3, SumFollows
  <2> QED
    BY <2>4, Zenon DEF sum, new_sum
<1>5. Sum(RecordedLamports') = Sum(RecordedLamports) + active + delayed + emergency
  <2>1. Sum(RecordedLamports') - Recorded(s)' = Sum(RecordedLamports) - Recorded(s)
    BY OneEntry
  <2> QED
    BY <1>1, <2>1
<1> QED
  BY <1>2, <1>3, <1>4, <1>5 DEF SumsMoved

(* And as the entries of two.                                              *)
LEMMA TwoMove ==
  ASSUME TypeOK, TypeOK', NEW s \in Stake, NEW n \in Stake, s # n, OthersUntouched({s, n}),
         NEW v \in Validator,
         NEW active \in Int, NEW delayed \in Int, NEW emergency \in Int,
         \A w \in Validator :
           ActiveIn(w, s)' + ActiveIn(w, n)'
             = ActiveIn(w, s) + ActiveIn(w, n) + (IF w = v THEN active ELSE 0),
         CoolingIn(FALSE, s)' + CoolingIn(FALSE, n)'
           = CoolingIn(FALSE, s) + CoolingIn(FALSE, n) + delayed,
         CoolingIn(TRUE, s)' + CoolingIn(TRUE, n)'
           = CoolingIn(TRUE, s) + CoolingIn(TRUE, n) + emergency,
         Recorded(s)' + Recorded(n)' = Recorded(s) + Recorded(n) + active + delayed + emergency
  PROVE  SumsMoved(v, active, delayed, emergency)
<1>1. /\ \A w : Sum(ActiveLamports(w)) \in Nat /\ Sum(ActiveLamports(w)') \in Nat
      /\ \A e : Sum(CoolingLamports(e)) \in Nat /\ Sum(CoolingLamports(e)') \in Nat
      /\ \A u \in Stake : Recorded(u) \in Nat
      /\ Sum(RecordedLamports) \in Nat
  BY EntriesType, EntriesTypeAfter, RecordFields, StakeAssumption, SumType
<1>2. /\ \A w : \A u \in Stake : ActiveIn(w, u) \in Nat /\ ActiveIn(w, u)' \in Nat
      /\ \A e : \A u \in Stake : CoolingIn(e, u) \in Nat /\ CoolingIn(e, u)' \in Nat
      /\ \A u \in Stake : Recorded(u)' \in Nat
  <2>1. \A u \in Stake : Recorded(u) \in Nat /\ Recorded(u)' \in Nat
    BY DEF TypeOK, StakeRecord, Recorded
  <2> QED
    BY <2>1 DEF ActiveIn, CoolingIn
<1>3. ASSUME NEW w \in Validator
      PROVE  Sum(ActiveLamports(w)')
               = Sum(ActiveLamports(w)) + (IF w = v THEN active ELSE 0)
  <2>1. Sum(ActiveLamports(w)')
          = Sum(ActiveLamports(w)) - ActiveIn(w, s) - ActiveIn(w, n)
              + ActiveIn(w, s)' + ActiveIn(w, n)'
    BY TwoEntries
  <2> DEFINE more == IF w = v THEN active ELSE 0
  <2>2. /\ ActiveIn(w, s)' + ActiveIn(w, n)' = ActiveIn(w, s) + ActiveIn(w, n) + more
        /\ more \in Int
    OBVIOUS
  <2> HIDE DEF more
  <2>3. Sum(ActiveLamports(w)') = Sum(ActiveLamports(w)) + more
    <3>1. /\ ActiveIn(w, s) \in Nat /\ ActiveIn(w, n) \in Nat
          /\ ActiveIn(w, s)' \in Nat /\ ActiveIn(w, n)' \in Nat
          /\ Sum(ActiveLamports(w)) \in Nat /\ Sum(ActiveLamports(w)') \in Nat
      BY <1>1, <1>2
    <3> DEFINE sum == Sum(ActiveLamports(w))    new_sum == Sum(ActiveLamports(w)')
               a == ActiveIn(w, s)              new_a == ActiveIn(w, s)'
               b == ActiveIn(w, n)              new_b == ActiveIn(w, n)'
    <3>2. /\ new_sum = sum - a - b + new_a + new_b /\ new_a + new_b = a + b + more
          /\ sum \in Nat /\ new_sum \in Nat
          /\ a \in Nat /\ b \in Nat /\ new_a \in Nat /\ new_b \in Nat
      BY <2>1, <2>2, <3>1, Zenon
    <3> HIDE DEF sum, new_sum, a, b, new_a, new_b
    <3>3. new_sum = sum + more
      BY <2>2, <3>2, SumFollowsBoth
    <3> QED
      BY <3>3, Zenon DEF sum, new_sum
  <2> QED
    BY <2>3 DEF more
<1>4. Sum(CoolingLamports(FALSE)') = Sum(CoolingLamports(FALSE)) + delayed
  <2>1. Sum(CoolingLamports(FALSE)')
          = Sum(CoolingLamports(FALSE)) - CoolingIn(FALSE, s) - CoolingIn(FALSE, n)
              + CoolingIn(FALSE, s)' + CoolingIn(FALSE, n)'
    BY TwoEntries
  <2>2. /\ Sum(CoolingLamports(FALSE)) \in Nat /\ Sum(CoolingLamports(FALSE)') \in Nat
        /\ \A u \in Stake : CoolingIn(FALSE, u) \in Nat /\ CoolingIn(FALSE, u)' \in Nat
    BY <1>1, <1>2, Zenon
  <2> DEFINE sum == Sum(CoolingLamports(FALSE))    new_sum == Sum(CoolingLamports(FALSE)')
             a == CoolingIn(FALSE, s)              new_a == CoolingIn(FALSE, s)'
             b == CoolingIn(FALSE, n)              new_b == CoolingIn(FALSE, n)'
  <2>3. /\ new_sum = sum - a - b + new_a + new_b /\ new_a + new_b = a + b + delayed
        /\ sum \in Nat /\ new_sum \in Nat
        /\ a \in Nat /\ b \in Nat /\ new_a \in Nat /\ new_b \in Nat
    BY <2>1, <2>2, Zenon
  <2> HIDE DEF sum, new_sum, a, b, new_a, new_b
  <2>4. new_sum = sum + delayed
    BY <2>3, SumFollowsBoth
  <2> QED
    BY <2>4, Zenon DEF sum, new_sum
<1>5. Sum(CoolingLamports(TRUE)') = Sum(CoolingLamports(TRUE)) + emergency
  <2>1. Sum(CoolingLamports(TRUE)')
          = Sum(CoolingLamports(TRUE)) - CoolingIn(TRUE, s) - CoolingIn(TRUE, n)
              + CoolingIn(TRUE, s)' + CoolingIn(TRUE, n)'
    BY TwoEntries
  <2>2. /\ Sum(CoolingLamports(TRUE)) \in Nat /\ Sum(CoolingLamports(TRUE)') \in Nat
        /\ \A u \in Stake : CoolingIn(TRUE, u) \in Nat /\ CoolingIn(TRUE, u)' \in Nat
    BY <1>1, <1>2, Zenon
  <2> DEFINE sum == Sum(CoolingLamports(TRUE))    new_sum == Sum(CoolingLamports(TRUE)')
             a == CoolingIn(TRUE, s)              new_a == CoolingIn(TRUE, s)'
             b == CoolingIn(TRUE, n)              new_b == CoolingIn(TRUE, n)'
  <2>3. /\ new_sum = sum - a - b + new_a + new_b /\ new_a + new_b = a + b + emergency
        /\ sum \in Nat /\ new_sum \in Nat
        /\ a \in Nat /\ b \in Nat /\ new_a \in Nat /\ new_b \in Nat
    BY <2>1, <2>2, Zenon
  <2> HIDE DEF sum, new_sum, a, b, new_a, new_b
  <2>4. new_sum = sum + emergency
    BY <2>3, SumFollowsBoth
  <2> QED
    BY <2>4, Zenon DEF sum, new_sum
<1>6. Sum(RecordedLamports') = Sum(RecordedLamports) + active + delayed + emergency
  <2>1. Sum(RecordedLamports')
          = Sum(RecordedLamports) - Recorded(s) - Recorded(n) + Recorded(s)' + Recorded(n)'
    BY TwoEntries
  <2> QED
    BY <1>1, <1>2, <2>1
<1> QED
  BY <1>3, <1>4, <1>5, <1>6 DEF SumsMoved

\* What account s counts for: active lamports with v, delayed and emergency in
\* what cools down; and after the step.
Counts(s, v, active, delayed, emergency) ==
  /\ \A w \in Validator : ActiveIn(w, s) = IF w = v THEN active ELSE 0
  /\ CoolingIn(FALSE, s) = delayed
  /\ CoolingIn(TRUE, s) = emergency
  /\ Recorded(s) = active + delayed + emergency

CountsAfter(s, v, active, delayed, emergency) ==
  /\ \A w \in Validator : ActiveIn(w, s)' = IF w = v THEN active ELSE 0
  /\ CoolingIn(FALSE, s)' = delayed
  /\ CoolingIn(TRUE, s)' = emergency
  /\ Recorded(s)' = active + delayed + emergency

(* An active account counts for its lamports with its validator.           *)
LEMMA ActiveCounts ==
  ASSUME TypeOK, NEW s \in Stake, Is(s, "Active")
  PROVE  Counts(s, Voter(s), Recorded(s), 0, 0)
BY RecordFields DEF Counts, ActiveIn, CoolingIn, Is

(* It does so after the step.                                              *)
LEMMA ActiveCountsAfter ==
  ASSUME NEW s \in Stake, NEW v, NEW lamports \in Nat,
         stake'[s].last_update_status = "Active", account'[s].voter = v,
         stake'[s].last_update_delegated_lamports = lamports
  PROVE  CountsAfter(s, v, lamports, 0, 0)
BY DEF CountsAfter, ActiveIn, CoolingIn, Is, Voter, Recorded

(* An account that is not in the list counts for nothing.                  *)
LEMMA NoneCounts ==
  ASSUME NEW s \in Stake, NEW v, Is(s, "None"), Recorded(s) = 0
  PROVE  Counts(s, v, 0, 0, 0)
BY DEF Counts, ActiveIn, CoolingIn, Is

(* It does so after the step.                                              *)
LEMMA NoneCountsAfter ==
  ASSUME NEW s \in Stake, NEW v, stake'[s] = NoRecord
  PROVE  CountsAfter(s, v, 0, 0, 0)
BY DEF CountsAfter, ActiveIn, CoolingIn, Is, Recorded, NoRecord

(* An account that cools down counts for its reason.                       *)
LEMMA CoolingCounts ==
  ASSUME TypeOK, NEW s \in Stake, NEW v, NEW is_emergency \in BOOLEAN,
         Is(s, "Deactivating"), stake[s].is_emergency_unstaking = is_emergency
  PROVE  Counts(s, v, 0, IF is_emergency THEN 0 ELSE Recorded(s),
                         IF is_emergency THEN Recorded(s) ELSE 0)
<1>1. Recorded(s) \in Nat
  BY RecordFields
<1>2. CASE is_emergency = TRUE
  BY <1>1, <1>2 DEF Counts, ActiveIn, CoolingIn, Is
<1>3. CASE is_emergency = FALSE
  BY <1>1, <1>3 DEF Counts, ActiveIn, CoolingIn, Is
<1> QED
  BY <1>2, <1>3

(* It does so after the step.                                              *)
LEMMA CoolingCountsAfter ==
  ASSUME NEW s \in Stake, NEW v, NEW is_emergency \in BOOLEAN, NEW lamports \in Nat,
         stake'[s].last_update_status = "Deactivating",
         stake'[s].is_emergency_unstaking = is_emergency,
         stake'[s].last_update_delegated_lamports = lamports
  PROVE  CountsAfter(s, v, 0, IF is_emergency THEN 0 ELSE lamports,
                              IF is_emergency THEN lamports ELSE 0)
<1>1. CASE is_emergency = TRUE
  BY <1>1 DEF CountsAfter, ActiveIn, CoolingIn, Is, Recorded
<1>2. CASE is_emergency = FALSE
  BY <1>2 DEF CountsAfter, ActiveIn, CoolingIn, Is, Recorded
<1> QED
  BY <1>1, <1>2

(* One account counts differently, and the totals with it.                 *)
LEMMA OneAccounted ==
  ASSUME TypeOK, TypeOK', Accounting, NEW s \in Stake, OthersUntouched({s}),
         NEW v \in Validator,
         NEW a \in Nat, NEW d \in Nat, NEW e \in Nat,
         NEW new_a \in Nat, NEW new_d \in Nat, NEW new_e \in Nat,
         Counts(s, v, a, d, e), CountsAfter(s, v, new_a, new_d, new_e),
         Moved(v, new_a - a, new_d - d, new_e - e)
  PROVE  Accounting'
<1> DEFINE active == new_a - a
           delayed == new_d - d
           emergency == new_e - e
<1>1. active \in Int /\ delayed \in Int /\ emergency \in Int
  OBVIOUS
<1>2. \A w \in Validator : ActiveIn(w, s)' = ActiveIn(w, s) + (IF w = v THEN active ELSE 0)
  BY DEF Counts, CountsAfter
<1>3. CoolingIn(FALSE, s)' = CoolingIn(FALSE, s) + delayed
  <2>1. new_d = d + delayed
    OBVIOUS
  <2> QED
    BY <2>1, Zenon DEF Counts, CountsAfter
<1>4. CoolingIn(TRUE, s)' = CoolingIn(TRUE, s) + emergency
  <2>1. new_e = e + emergency
    OBVIOUS
  <2> QED
    BY <2>1, Zenon DEF Counts, CountsAfter
<1>5. Recorded(s)' = Recorded(s) + active + delayed + emergency
  BY DEF Counts, CountsAfter
<1>6. Moved(v, active, delayed, emergency)
  OBVIOUS
<1> HIDE DEF active, delayed, emergency
<1>7. SumsMoved(v, active, delayed, emergency)
  BY <1>1, <1>2, <1>3, <1>4, <1>5, OneMoves
<1> QED
  BY <1>1, <1>6, <1>7, MovedTogether

(* Two accounts count differently.                                         *)
LEMMA TwoAccounted ==
  ASSUME TypeOK, TypeOK', Accounting, NEW s \in Stake, NEW n \in Stake, s # n,
         OthersUntouched({s, n}), NEW v \in Validator,
         NEW a \in Nat, NEW new_a \in Nat, NEW b \in Nat, NEW new_b \in Nat,
         NEW delayed \in Nat, NEW emergency \in Nat,
         Counts(s, v, a, 0, 0), CountsAfter(s, v, new_a, 0, 0),
         Counts(n, v, b, 0, 0), CountsAfter(n, v, new_b, delayed, emergency),
         Moved(v, new_a - a + new_b - b, delayed, emergency)
  PROVE  Accounting'
<1> DEFINE active == new_a - a + new_b - b
<1>1. active \in Int /\ delayed \in Int /\ emergency \in Int
  OBVIOUS
<1>2. \A w \in Validator :
        ActiveIn(w, s)' + ActiveIn(w, n)'
          = ActiveIn(w, s) + ActiveIn(w, n) + (IF w = v THEN active ELSE 0)
  BY DEF Counts, CountsAfter
<1>3. CoolingIn(FALSE, s)' + CoolingIn(FALSE, n)'
        = CoolingIn(FALSE, s) + CoolingIn(FALSE, n) + delayed
  <2>1. 0 + delayed = 0 + 0 + delayed
    OBVIOUS
  <2> QED
    BY <2>1, Zenon DEF Counts, CountsAfter
<1>4. CoolingIn(TRUE, s)' + CoolingIn(TRUE, n)'
        = CoolingIn(TRUE, s) + CoolingIn(TRUE, n) + emergency
  <2>1. 0 + emergency = 0 + 0 + emergency
    OBVIOUS
  <2> QED
    BY <2>1, Zenon DEF Counts, CountsAfter
<1>5. Recorded(s)' + Recorded(n)' = Recorded(s) + Recorded(n) + active + delayed + emergency
  BY DEF Counts, CountsAfter
<1>6. Moved(v, active, delayed, emergency)
  OBVIOUS
<1> HIDE DEF active
<1>7. SumsMoved(v, active, delayed, emergency)
  BY <1>1, <1>2, <1>3, <1>4, <1>5, TwoMove
<1> QED
  BY <1>1, <1>6, <1>7, MovedTogether

-----------------------------------------------------------------------------
(* The books survive the changes.                                          *)

(* Nothing is entered or taken: every sum stays.                           *)
LEMMA RestsAccounted ==
  ASSUME TypeOK, TypeOK', Accounting, Rests
  PROVE  Accounting'
<1>1. \A s \in Stake : Untouched(s)
  BY DEF Rests, OthersUntouched
<1>2. /\ \A v : ActiveLamports(v)' = ActiveLamports(v)
      /\ \A e : CoolingLamports(e)' = CoolingLamports(e)
      /\ RecordedLamports' = RecordedLamports
  BY <1>1, UntouchedEntries DEF ActiveLamports, CoolingLamports, RecordedLamports
<1>3. Balance' = Balance /\ \A v \in Validator : validator'[v].active_balance
                                                    = validator[v].active_balance
  BY DEF Rests, Balance
<1>4. UNCHANGED <<total_active_balance, delayed_unstake_cooling_down, emergency_cooling_down>>
  BY DEF Rests, coolingVars
<1>5. \A v \in Validator : validator'[v].active_balance = Sum(ActiveLamports(v)')
  BY <1>2, <1>3 DEF Accounting
<1>6. total_active_balance' = Sum(Balance')
  BY <1>3, <1>4 DEF Accounting
<1>7. /\ delayed_unstake_cooling_down' = Sum(CoolingLamports(FALSE)')
      /\ emergency_cooling_down' = Sum(CoolingLamports(TRUE)')
  BY <1>2, <1>4, Zenon DEF Accounting
<1>8. Kept'
  BY <1>2, <1>4 DEF Accounting, Kept, TotalCoolingDown
<1> QED
  BY <1>5, <1>6, <1>7, <1>8 DEF Accounting

(* What begins to cool down is added to the total of its reason.           *)
LEMMA CoolingMoves ==
  ASSUME TypeOK, NEW v, NEW active, NEW is_emergency \in BOOLEAN, NEW amount \in Nat,
         Balances(v, active), Cooling(is_emergency, amount)
  PROVE  Moved(v, active, IF is_emergency THEN 0 ELSE amount,
                          IF is_emergency THEN amount ELSE 0)
<1>1. delayed_unstake_cooling_down \in Nat /\ emergency_cooling_down \in Nat
  BY RecordFields
<1>2. CASE is_emergency = TRUE
  BY <1>1, <1>2 DEF Moved, Cooling
<1>3. CASE is_emergency = FALSE
  BY <1>1, <1>3 DEF Moved, Cooling
<1> QED
  BY <1>2, <1>3

(* Nothing cools down.                                                     *)
LEMMA NoCoolingMoves ==
  ASSUME TypeOK, NEW v, NEW active, Balances(v, active), NoCooling
  PROVE  Moved(v, active, 0, 0)
<1>1. delayed_unstake_cooling_down \in Nat /\ emergency_cooling_down \in Nat
  BY RecordFields
<1> QED
  BY <1>1 DEF Moved, NoCooling, coolingVars

(* The totals agree with the list after a change.                          *)
LEMMA AccountingChange ==
  ASSUME TypeOK, TypeOK', Upgraded, Accounting, \A s \in Stake : Matches(s), Change
  PROVE  Accounting'
<1>1. \A s \in Stake : /\ stake[s] \in StakeRecord /\ Recorded(s) \in Nat
                       /\ s \notin Listed => Is(s, "None") /\ Recorded(s) = 0
                       /\ s \in Listed => Is(s, "Active") \/ Is(s, "Deactivating")
                       /\ stake[s].is_emergency_unstaking \in BOOLEAN
                       /\ stake'[s] \in StakeRecord
  BY RecordFields DEF Matches, Is, Listed, StakeRecord, TypeOK
<1>2. CASE Rests
  BY <1>2, RestsAccounted
<1>3. ASSUME NEW s \in Stake, NEW v \in Validator, NEW amount \in Nat, Enters(s, v, amount)
      PROVE  Accounting'
  <2>1. Counts(s, v, 0, 0, 0)
    BY <1>1, <1>3, NoneCounts DEF Enters
  <2>2. CountsAfter(s, v, amount, 0, 0)
    BY <1>3, ActiveCountsAfter DEF Enters, NewStakeRecord
  <2>3. Moved(v, amount - 0, 0 - 0, 0 - 0)
    <3>1. Moved(v, amount, 0, 0)
      BY <1>3, NoCoolingMoves DEF Enters
    <3> QED
      BY <3>1
  <2> QED
    BY <1>3, <2>1, <2>2, <2>3, OneAccounted DEF Enters
<1>4. ASSUME NEW s \in Stake, NEW amount \in Nat, Recounts(s, amount)
      PROVE  Accounting'
  <2>1. Counts(s, Voter(s), Recorded(s), 0, 0)
    BY <1>4, ActiveCounts DEF Recounts
  <2>2. CountsAfter(s, Voter(s), amount, 0, 0)
    <3>1. /\ stake'[s].last_update_status = "Active" /\ account'[s].voter = Voter(s)
          /\ stake'[s].last_update_delegated_lamports = amount
      BY <1>1, <1>4 DEF Recounts, StakeRecord, Is, Voter
    <3> QED
      BY <3>1, ActiveCountsAfter
  <2>3. Moved(Voter(s), amount - Recorded(s), 0 - 0, 0 - 0)
    <3>1. Moved(Voter(s), amount - Recorded(s), 0, 0)
      BY <1>4, NoCoolingMoves DEF Recounts
    <3> QED
      BY <3>1
  <2>4. Voter(s) \in Validator /\ Recorded(s) \in Nat /\ OthersUntouched({s})
    BY <1>1, <1>4 DEF Recounts, Balances
  <2> QED
    BY <2>1, <2>2, <2>3, <2>4, OneAccounted
<1>5. ASSUME NEW s \in Stake, NEW is_emergency \in BOOLEAN, Cools(s, is_emergency)
      PROVE  Accounting'
  <2> DEFINE lamports == Recorded(s)
             delayed == IF is_emergency THEN 0 ELSE lamports
             emergency == IF is_emergency THEN lamports ELSE 0
  <2>1. /\ Is(s, "Active") /\ Voter(s) \in Validator /\ OthersUntouched({s})
        /\ Balances(Voter(s), -lamports) /\ Cooling(is_emergency, lamports)
    BY <1>5 DEF Cools, Unstakable
  <2>2. Counts(s, Voter(s), lamports, 0, 0)
    BY <2>1, ActiveCounts
  <2>3. lamports \in Nat /\ delayed \in Nat /\ emergency \in Nat
    BY <1>1
  <2>4. CountsAfter(s, Voter(s), 0, delayed, emergency)
    <3>1. /\ stake'[s].last_update_status = "Deactivating"
          /\ stake'[s].is_emergency_unstaking = is_emergency
          /\ stake'[s].last_update_delegated_lamports = lamports
      BY <1>1, <1>5 DEF Cools, StakeRecord, Recorded
    <3> QED
      BY <2>3, <3>1, CoolingCountsAfter
  <2>5. Moved(Voter(s), -lamports, delayed, emergency)
    BY <2>1, <2>3, CoolingMoves
  <2> HIDE DEF lamports, delayed, emergency
  <2>6. Moved(Voter(s), 0 - lamports, delayed - 0, emergency - 0)
    BY <2>3, <2>5
  <2> QED
    BY <2>1, <2>2, <2>3, <2>4, <2>6, OneAccounted
<1>6. ASSUME NEW s \in Stake, NEW new \in Stake, NEW amount \in Nat,
             NEW is_emergency \in BOOLEAN, CoolsPart(s, new, amount, is_emergency)
      PROVE  Accounting'
  <2> DEFINE lamports == Recorded(s)
             left == lamports - amount
             delayed == IF is_emergency THEN 0 ELSE amount
             emergency == IF is_emergency THEN amount ELSE 0
  <2>1. /\ Is(s, "Active") /\ Voter(s) \in Validator /\ OthersUntouched({s, new}) /\ s # new
        /\ Balances(Voter(s), -amount) /\ Cooling(is_emergency, amount)
    BY <1>6 DEF CoolsPart, Unstakable, Is, Listed
  <2>2. Counts(s, Voter(s), lamports, 0, 0) /\ Counts(new, Voter(s), 0, 0, 0)
    BY <1>1, <1>6, <2>1, ActiveCounts, NoneCounts DEF CoolsPart
  <2>3. /\ stake'[s].last_update_status = "Active" /\ account'[s].voter = Voter(s)
        /\ stake'[s].last_update_delegated_lamports = left
        /\ stake'[new].last_update_status = "Deactivating"
        /\ stake'[new].is_emergency_unstaking = is_emergency
        /\ stake'[new].last_update_delegated_lamports = amount
    <3>1. account[s] \in Account
      BY RecordFields
    <3> QED
      BY <1>1, <1>6, <2>1, <3>1 DEF CoolsPart, StakeRecord, Account, NewStakeRecord, Is, Voter,
                                    Recorded
  <2>4. lamports \in Nat /\ left \in Nat /\ delayed \in Nat /\ emergency \in Nat
    BY <1>1, <2>3 DEF StakeRecord
  <2>5. CountsAfter(s, Voter(s), left, 0, 0)
    BY <2>3, <2>4, ActiveCountsAfter
  <2>6. CountsAfter(new, Voter(s), 0, delayed, emergency)
    BY <2>3, <2>4, CoolingCountsAfter
  <2>7. Moved(Voter(s), -amount, delayed, emergency)
    BY <2>1, CoolingMoves
  <2>8. left - lamports + 0 - 0 = -amount
    BY <2>4
  <2> HIDE DEF lamports, delayed, emergency, left
  <2>9. Moved(Voter(s), left - lamports + 0 - 0, delayed, emergency)
    BY <2>7, <2>8
  <2> QED
    BY <2>1, <2>2, <2>4, <2>5, <2>6, <2>9, TwoAccounted
<1>7. ASSUME NEW s \in Stake, Leaves(s)
      PROVE  Accounting'
  <2>1. /\ Voter(s) \in Validator /\ OthersUntouched({s}) /\ s \in Listed
        /\ stake'[s] = NoRecord /\ Recorded(s) \in Nat
        /\ delayed_unstake_cooling_down \in Nat /\ emergency_cooling_down \in Nat
    BY <1>1, <1>7, RecordFields DEF Leaves, Balances
  <2>2. CountsAfter(s, Voter(s), 0, 0, 0)
    BY <2>1, NoneCountsAfter
  <2>3. CASE Is(s, "Active")
    <3>1. Counts(s, Voter(s), Recorded(s), 0, 0)
      BY <2>3, ActiveCounts
    <3>2. Balances(Voter(s), -Recorded(s)) /\ UNCHANGED coolingVars
      BY <1>7, <2>3 DEF Leaves
    <3>3. Moved(Voter(s), -Recorded(s), 0, 0)
      BY <2>1, <3>2 DEF Moved, coolingVars
    <3>4. Moved(Voter(s), 0 - Recorded(s), 0 - 0, 0 - 0)
      BY <2>1, <3>3
    <3> QED
      BY <2>1, <2>2, <3>1, <3>4, OneAccounted
  <2>4. CASE ~Is(s, "Active")
    <3> DEFINE lamports == Recorded(s)
               is_emergency == stake[s].is_emergency_unstaking
               delayed == IF is_emergency THEN 0 ELSE lamports
               emergency == IF is_emergency THEN lamports ELSE 0
    <3>1. Is(s, "Deactivating") /\ is_emergency \in BOOLEAN
      BY <1>1, <2>1, <2>4
    <3>2. Counts(s, Voter(s), 0, delayed, emergency)
      BY <3>1, CoolingCounts, Zenon
    <3>3. Balances(Voter(s), 0)
      BY <1>7, <2>4 DEF Leaves
    <3>4. \/ /\ is_emergency /\ emergency_cooling_down' = emergency_cooling_down - lamports
             /\ UNCHANGED delayed_unstake_cooling_down
          \/ /\ ~is_emergency /\ UNCHANGED emergency_cooling_down
             /\ delayed_unstake_cooling_down' = delayed_unstake_cooling_down - lamports
      BY <1>7, <2>4, Zenon DEF Leaves
    <3>5. \/ is_emergency /\ delayed = 0 /\ emergency = lamports
          \/ ~is_emergency /\ delayed = lamports /\ emergency = 0
      BY <3>1, Zenon
    <3>6. lamports \in Nat
      BY <2>1
    <3> HIDE DEF lamports, is_emergency, delayed, emergency
    <3>7. delayed \in Nat /\ emergency \in Nat
      BY <3>5, <3>6
    <3>8. /\ delayed_unstake_cooling_down' = delayed_unstake_cooling_down + (0 - delayed)
          /\ emergency_cooling_down' = emergency_cooling_down + (0 - emergency)
      BY <2>1, <3>4, <3>5, <3>6
    <3>9. Moved(Voter(s), 0 - 0, 0 - delayed, 0 - emergency)
      BY <3>3, <3>8 DEF Moved
    <3> QED
      BY <2>1, <2>2, <3>2, <3>7, <3>9, OneAccounted
  <2> QED
    BY <2>3, <2>4
<1>8. ASSUME NEW canonical \in Stake, NEW source \in Stake, NEW amount \in Nat,
             Merges(canonical, source, amount)
      PROVE  Accounting'
  <2> DEFINE v == Voter(canonical)
             kept == Recorded(canonical)
             merged == Recorded(source)
  <2>1. /\ canonical # source /\ OthersUntouched({canonical, source}) /\ v \in Validator
        /\ Is(canonical, "Active") /\ Is(source, "Active") /\ Voter(source) = v
        /\ stake'[source] = NoRecord
    BY <1>8 DEF Merges, Balances
  <2>2. Counts(canonical, v, kept, 0, 0) /\ Counts(source, v, merged, 0, 0)
    BY <2>1, ActiveCounts
  <2>3. CountsAfter(source, v, 0, 0, 0)
    BY <2>1, NoneCountsAfter
  <2>4. CountsAfter(canonical, v, amount, 0, 0)
    <3>1. account[canonical] \in Account
      BY RecordFields
    <3>2. /\ stake'[canonical].last_update_status = "Active"
          /\ account'[canonical].voter = v
          /\ stake'[canonical].last_update_delegated_lamports = amount
      BY <1>1, <1>8, <2>1, <3>1 DEF Merges, StakeRecord, Account, Is, Voter
    <3> QED
      BY <3>2, ActiveCountsAfter
  <2>5. kept \in Nat /\ merged \in Nat
    BY <1>1
  <2>6. Moved(v, amount - kept - merged, 0, 0)
    BY <1>8, NoCoolingMoves DEF Merges
  <2> HIDE DEF v, kept, merged
  <2>7. amount - kept + 0 - merged = amount - kept - merged
    BY <2>5
  <2>8. Moved(v, amount - kept + 0 - merged, 0, 0)
    BY <2>6, <2>7
  <2> QED
    BY <2>1, <2>2, <2>3, <2>4, <2>5, <2>8, TwoAccounted
<1>9. ASSUME NEW canonical \in Stake, NEW source \in Stake, Renames(canonical, source)
      PROVE  Accounting'
  <2> DEFINE v == Voter(source)
             lamports == Recorded(source)
  <2>1. /\ canonical # source /\ OthersUntouched({canonical, source}) /\ v \in Validator
        /\ stake'[source] = NoRecord
    BY <1>9 DEF Renames, Balances
  <2>2. Is(source, "Active")
    <3>1. Matches(source) /\ source \in Listed
      BY <1>9 DEF Renames
    <3>2. account[source].activation \notin CoolingActivation
      BY <1>9 DEF Renames, CoolingActivation
    <3> QED
      BY <3>1, <3>2 DEF Matches, Listed, Is
  <2>3. Counts(canonical, v, 0, 0, 0) /\ Counts(source, v, lamports, 0, 0)
    BY <1>1, <1>9, <2>2, ActiveCounts, NoneCounts DEF Renames
  <2>4. CountsAfter(source, v, 0, 0, 0)
    BY <2>1, NoneCountsAfter
  <2>5. lamports \in Nat
    BY <1>1
  <2>6. CountsAfter(canonical, v, lamports, 0, 0)
    <3>1. /\ stake'[canonical].last_update_status = "Active"
          /\ account'[canonical].voter = v
          /\ stake'[canonical].last_update_delegated_lamports = lamports
      BY <1>9 DEF Renames, NewStakeRecord, Voter
    <3> QED
      BY <2>5, <3>1, ActiveCountsAfter
  <2>7. Moved(v, 0, 0, 0)
    BY <1>9, NoCoolingMoves DEF Renames
  <2> HIDE DEF v, lamports
  <2>8. lamports - 0 + 0 - lamports = 0
    BY <2>5
  <2>9. Moved(v, lamports - 0 + 0 - lamports, 0, 0)
    BY <2>7, <2>8
  <2> QED
    BY <2>1, <2>3, <2>4, <2>5, <2>9, <2>6, TwoAccounted
<1> QED
  BY <1>2, <1>3, <1>4, <1>5, <1>6, <1>7, <1>8, <1>9 DEF Change

-----------------------------------------------------------------------------
(* What the upgraded program keeps of its lists and its books.             *)
Books == TypeOK /\ Upgraded /\ ScoreBooks /\ Matched /\ Accounting

(* They are right when the program is initialized.                         *)
LEMMA InitBooks == Init => Matched /\ Accounting
<1> SUFFICES ASSUME Init PROVE Matched /\ Accounting
  OBVIOUS
<1>1. TypeOK
  BY InitType
<1>2. \A s \in Stake : /\ stake[s] = NoRecord /\ account[s] = NoAccount
                       /\ Is(s, "None") /\ Recorded(s) = 0
  BY DEF Init, Is, Recorded, NoRecord
<1>3. Matched
  BY <1>2 DEF Matched, Listed, NoRecord, NoAccount, Is
<1>4. \A v : Sum(ActiveLamports(v)) = 0
  BY <1>1, <1>2, EntriesType, SumZero DEF ActiveLamports, ActiveIn, Is
<1>5. \A e : Sum(CoolingLamports(e)) = 0
  BY <1>1, <1>2, EntriesType, SumZero DEF CoolingLamports, CoolingIn, Is
<1>6. Sum(RecordedLamports) = 0
  BY <1>1, <1>2, EntriesType, SumZero DEF RecordedLamports
<1>7. Sum(Balance) = 0
  BY <1>1, EntriesType, SumZero DEF Balance, Init, Unlisted, NewValidatorRecord
<1>8. \A v \in Validator : validator[v].active_balance = 0
  BY DEF Init, Unlisted, NewValidatorRecord
<1>9. Kept
  BY <1>6 DEF Kept, TotalCoolingDown, Init
<1>10. /\ delayed_unstake_cooling_down = Sum(CoolingLamports(FALSE))
       /\ emergency_cooling_down = Sum(CoolingLamports(TRUE))
  BY <1>5, Zenon DEF Init
<1>11. total_active_balance = Sum(Balance)
  BY <1>7 DEF Init
<1> QED
  BY <1>3, <1>4, <1>8, <1>9, <1>10, <1>11 DEF Accounting

(* They stay right.                                                        *)
LEMMA BooksStep == Books /\ [Next]_vars => Matched' /\ Accounting'
<1> SUFFICES ASSUME Books, [Next]_vars PROVE Matched' /\ Accounting'
  OBVIOUS
<1>1. TypeOK /\ Upgraded /\ ScoreBooks /\ Matched /\ Accounting
  BY DEF Books
<1>2. TypeOK' /\ Upgraded'
  BY <1>1, StepType, UpgradedStep
<1>3. Change
  BY <1>1, StepsAreChanges
<1>4. \A s \in Stake : Matches(s)
  BY <1>1, MatchedIsMatches
<1>5. \A s \in Stake : Matches(s)'
  BY <1>1, <1>3, <1>4, MatchedChange
<1>6. Matched'
  BY <1>2, <1>5 DEF Matches, Matched, Is, Listed, Voter, Recorded, CoolingActivation
<1> QED
  BY <1>1, <1>2, <1>3, <1>4, <1>5, <1>6, AccountingChange

(* The program keeps its books.                                            *)
THEOREM BooksHold == Spec => []Books
<1>1. Spec => []TypeOK /\ []Upgraded /\ []ScoreBooks
  BY TypeCorrect, UpgradedHolds, ScoreBooksHold
<1>2. Books <=> TypeOK /\ Upgraded /\ ScoreBooks /\ Matched /\ Accounting
  BY DEF Books
<1> QED
  BY <1>1, <1>2, InitBooks, BooksStep, PTL DEF Spec

(* A validator's active_balance is the stake recorded as active with it,   *)
(* and the total is the sum of these, whatever the crank, the manager, the *)
(* users and the cluster do to the accounts.                               *)
THEOREM ValidatorBooksHold == Spec => []ValidatorBooks
<1>1. Books => ValidatorBooks
  BY AccountingIsBooks DEF Books
<1> QED
  BY <1>1, BooksHold, PTL

(* The cooling-down totals are the sums over the accounts that cool down   *)
(* for their reason.                                                       *)
THEOREM CoolingBooksHold == Spec => []CoolingBooks
<1>1. Books => CoolingBooks
  BY AccountingIsBooks DEF Books
<1> QED
  BY <1>1, BooksHold, PTL

-----------------------------------------------------------------------------
(* The list against the lamports of the accounts, for a stake program that *)
(* does not slash.                                                         *)

\* No account holds less than what the list records for it.
NotSlashed == \A s \in Stake : Recorded(s) <= account[s].delegated

\* Active stakes have m lamports or more.
Large(m) == \A s \in Stake : Is(s, "Active") => Recorded(s) >= m

\* The validator of an active stake is in the list.
VotersListed == \A s \in Stake : Is(s, "Active") => validator[Voter(s)].listed

(* A change of an account records what the account has.                    *)
LEMMA NotSlashedChange ==
  ASSUME TypeOK, TypeOK', NotSlashed, Change, Slashes = {}
  PROVE  NotSlashed'
<1>1. \A s \in Stake : /\ stake[s] \in StakeRecord /\ account[s] \in Account
                       /\ Recorded(s) \in Nat /\ Recorded(s) <= account[s].delegated
                       /\ Recorded(s)' \in Nat /\ account'[s].delegated \in Nat
  BY RecordFields DEF NotSlashed, TypeOK, StakeRecord, Account, Recorded
<1>2. ASSUME NEW s \in Stake, Untouched(s)
      PROVE  Recorded(s)' <= account'[s].delegated
  <2>1. Recorded(s)' = Recorded(s) /\ account'[s].delegated >= account[s].delegated
    BY <1>2 DEF Untouched, Recorded
  <2>2. account[s].delegated \in Nat
    BY <1>1 DEF Account
  <2> QED
    BY <1>1, <2>1, <2>2
<1> SUFFICES ASSUME NEW u \in Stake, ~Untouched(u)
             PROVE  Recorded(u)' <= account'[u].delegated
  BY <1>2 DEF NotSlashed
<1> USE DEF OthersUntouched, Recorded
<1>3. CASE Rests
  BY <1>3 DEF Rests
<1>4. ASSUME NEW s \in Stake, NEW v, NEW amount \in Nat, Enters(s, v, amount)
      PROVE  Recorded(u)' <= account'[u].delegated
  BY <1>4 DEF Enters, NewStakeRecord
<1>5. ASSUME NEW s \in Stake, NEW amount \in Nat, Recounts(s, amount)
      PROVE  Recorded(u)' <= account'[u].delegated
  BY <1>1, <1>5 DEF Recounts, StakeRecord
<1>6. ASSUME NEW s \in Stake, NEW is_emergency, Cools(s, is_emergency)
      PROVE  Recorded(u)' <= account'[u].delegated
  BY <1>1, <1>6 DEF Cools, StakeRecord
<1>7. ASSUME NEW s \in Stake, NEW new \in Stake, NEW amount \in Nat, NEW is_emergency,
             CoolsPart(s, new, amount, is_emergency)
      PROVE  Recorded(u)' <= account'[u].delegated
  <2>1. u = s \/ u = new
    BY <1>7 DEF CoolsPart
  <2>2. CASE u = new
    BY <1>7, <2>2 DEF CoolsPart, NewStakeRecord
  <2>3. CASE u = s
    <3>1. /\ Recorded(s)' = Recorded(s) - amount
          /\ account'[s].delegated = account[s].delegated - amount
      BY <1>1, <1>7 DEF CoolsPart, StakeRecord, Account
    <3>2. account[s].delegated \in Nat
      BY <1>1 DEF Account
    <3> HIDE DEF Recorded
    <3> QED
      BY <1>1, <2>3, <3>1, <3>2
  <2> QED
    BY <2>1, <2>2, <2>3
<1>8. ASSUME NEW s \in Stake, Leaves(s)
      PROVE  Recorded(u)' <= account'[u].delegated
  BY <1>8 DEF Leaves, NoRecord, NoAccount
<1>9. ASSUME NEW canonical \in Stake, NEW source \in Stake, NEW amount \in Nat,
             Merges(canonical, source, amount)
      PROVE  Recorded(u)' <= account'[u].delegated
  BY <1>1, <1>9 DEF Merges, NoRecord, NoAccount, StakeRecord, Account
<1>10. ASSUME NEW canonical \in Stake, NEW source \in Stake, Renames(canonical, source)
       PROVE  Recorded(u)' <= account'[u].delegated
  BY <1>1, <1>10 DEF Renames, NewStakeRecord, NoRecord, NoAccount
<1> QED
  BY <1>3, <1>4, <1>5, <1>6, <1>7, <1>8, <1>9, <1>10 DEF Change

(* No change leaves less than min_stake active with a validator.           *)
LEMMA LargeChange ==
  ASSUME TypeOK, Upgraded, Accounting, \A s \in Stake : Matches(s), NotSlashed, Change,
         NEW m \in Nat, config.min_stake >= m, Large(m)
  PROVE  Large(m)'
<1>1. \A s \in Stake : /\ stake[s] \in StakeRecord /\ account[s] \in Account
                       /\ Recorded(s) \in Nat /\ Recorded(s) <= account[s].delegated
                       /\ account[s].delegated \in Nat
                       /\ Is(s, "Active") => Recorded(s) >= m
  BY RecordFields DEF NotSlashed, Large
<1>2. config.min_stake \in Nat
  BY DEF TypeOK, Config
<1>3. ASSUME NEW s \in Stake, Untouched(s)
      PROVE  Is(s, "Active")' => Recorded(s)' >= m
  BY <1>1, <1>3 DEF Untouched, Is, Recorded
<1> SUFFICES ASSUME NEW u \in Stake, ~Untouched(u), Is(u, "Active")'
             PROVE  Recorded(u)' >= m
  BY <1>3 DEF Large
<1> USE DEF OthersUntouched, Recorded, Is
<1>4. CASE Rests
  BY <1>4 DEF Rests
<1>5. ASSUME NEW s \in Stake, NEW v, NEW amount \in Nat, Enters(s, v, amount)
      PROVE  Recorded(u)' >= m
  BY <1>2, <1>5 DEF Enters, NewStakeRecord
<1>6. ASSUME NEW s \in Stake, NEW amount \in Nat, Recounts(s, amount)
      PROVE  Recorded(u)' >= m
  BY <1>1, <1>2, <1>6 DEF Recounts, StakeRecord
<1>7. ASSUME NEW s \in Stake, NEW is_emergency, Cools(s, is_emergency)
      PROVE  Recorded(u)' >= m
  BY <1>1, <1>7 DEF Cools, StakeRecord
<1>8. ASSUME NEW s \in Stake, NEW new \in Stake, NEW amount \in Nat, NEW is_emergency,
             CoolsPart(s, new, amount, is_emergency)
      PROVE  Recorded(u)' >= m
  <2>1. u = s
    BY <1>8 DEF CoolsPart, NewStakeRecord
  <2>2. /\ Recorded(s)' = Recorded(s) - amount
        /\ Recorded(s) - amount >= config.min_stake
    BY <1>1, <1>8 DEF CoolsPart, StakeRecord
  <2> HIDE DEF Recorded
  <2> QED
    BY <1>1, <1>2, <2>1, <2>2
<1>9. ASSUME NEW s \in Stake, Leaves(s)
      PROVE  Recorded(u)' >= m
  BY <1>9 DEF Leaves, NoRecord
<1>10. ASSUME NEW canonical \in Stake, NEW source \in Stake, NEW amount \in Nat,
              Merges(canonical, source, amount)
       PROVE  Recorded(u)' >= m
  BY <1>1, <1>10 DEF Merges, NoRecord, StakeRecord
<1>11. ASSUME NEW canonical \in Stake, NEW source \in Stake, Renames(canonical, source)
       PROVE  Recorded(u)' >= m
  <2>1. Is(source, "Active")
    <3>1. Matches(source) /\ source \in Listed
      BY <1>11 DEF Renames
    <3>2. account[source].activation \notin CoolingActivation
      BY <1>11 DEF Renames, CoolingActivation
    <3> QED
      BY <3>1, <3>2 DEF Matches, Listed
  <2>2. u = canonical
    BY <1>11 DEF Renames, NoRecord
  <2> QED
    BY <1>1, <1>11, <2>1, <2>2 DEF Renames, NewStakeRecord
<1> QED
  BY <1>4, <1>5, <1>6, <1>7, <1>8, <1>9, <1>10, <1>11 DEF Change

(* A validator that leaves the list has no stake, so no active account     *)
(* that votes for it.                                                      *)
LEMMA VotersListedChange ==
  ASSUME TypeOK, Upgraded, Accounting, \A s \in Stake : Matches(s), Large(1), VotersListed, Change
  PROVE  VotersListed'
<1>1. \A s \in Stake : /\ stake[s] \in StakeRecord /\ account[s] \in Account
                       /\ Is(s, "Active") => validator[Voter(s)].listed
  BY RecordFields DEF VotersListed
<1>2. ASSUME \A w \in Validator : validator'[w].listed = validator[w].listed,
             NEW s \in Stake, Untouched(s), Is(s, "Active")'
      PROVE  validator'[Voter(s)'].listed
  <2>1. Is(s, "Active") /\ Voter(s)' = Voter(s)
    BY <1>2 DEF Untouched, Is, Voter
  <2>2. Voter(s) \in Validator
    BY <2>1 DEF Matches, Is
  <2> QED
    BY <1>1, <1>2, <2>1, <2>2
<1>3. CASE Rests
  <2> SUFFICES ASSUME NEW s \in Stake, Is(s, "Active")' PROVE validator'[Voter(s)'].listed
    BY DEF VotersListed
  <2>1. Is(s, "Active") /\ Voter(s)' = Voter(s)
    BY <1>3 DEF Rests, OthersUntouched, Untouched, Is, Voter
  <2>2. Voter(s) \in Validator /\ Recorded(s) >= 1
    BY <2>1 DEF Matches, Is, Large
  <2>3. ActiveIn(Voter(s), s) <= Sum(ActiveLamports(Voter(s)))
    <3>1. /\ ActiveLamports(Voter(s)) \in [Stake -> Nat]
          /\ ActiveLamports(Voter(s))[s] = ActiveIn(Voter(s), s)
      BY EntriesType DEF ActiveLamports
    <3> QED
      BY <3>1, StakeAssumption, SumMember
  <2>4. ActiveIn(Voter(s), s) = Recorded(s)
    BY <2>1 DEF ActiveIn
  <2>5. validator[Voter(s)].active_balance = Sum(ActiveLamports(Voter(s)))
    BY <2>2 DEF Accounting
  <2>6. validator[Voter(s)].active_balance # 0
    BY <2>2, <2>3, <2>4, <2>5, RecordFields
  <2> QED
    BY <1>1, <1>3, <2>1, <2>2, <2>6 DEF Rests
<1> USE DEF OthersUntouched, VotersListed, Is, Voter, Balances
<1>4. ASSUME NEW s \in Stake, NEW v \in Validator, NEW amount, Enters(s, v, amount)
      PROVE  VotersListed'
  BY <1>2, <1>4 DEF Enters
<1>5. ASSUME NEW s \in Stake, NEW amount, Recounts(s, amount)
      PROVE  VotersListed'
  BY <1>1, <1>2, <1>5 DEF Recounts, StakeRecord
<1>6. ASSUME NEW s \in Stake, NEW is_emergency, Cools(s, is_emergency)
      PROVE  VotersListed'
  BY <1>1, <1>2, <1>6 DEF Cools, StakeRecord
<1>7. ASSUME NEW s \in Stake, NEW new \in Stake, NEW amount, NEW is_emergency,
             CoolsPart(s, new, amount, is_emergency)
      PROVE  VotersListed'
  <2>1. /\ account'[s].voter = account[s].voter /\ validator'[account[s].voter].listed
        /\ stake'[new].last_update_status # "Active"
    BY <1>1, <1>7 DEF CoolsPart, Account, NewStakeRecord
  <2> QED
    BY <1>1, <1>2, <1>7, <2>1 DEF CoolsPart
<1>8. ASSUME NEW s \in Stake, Leaves(s)
      PROVE  VotersListed'
  <2>1. \A w \in Validator : validator'[w].listed = validator[w].listed
    BY <1>8 DEF Leaves
  <2>2. stake'[s].last_update_status # "Active"
    BY <1>8 DEF Leaves, NoRecord
  <2> QED
    BY <1>2, <1>8, <2>1, <2>2 DEF Leaves
<1>9. ASSUME NEW canonical \in Stake, NEW source \in Stake, NEW amount,
             Merges(canonical, source, amount)
      PROVE  VotersListed'
  <2>1. /\ account'[canonical].voter = account[canonical].voter
        /\ validator'[account[canonical].voter].listed
        /\ stake'[source].last_update_status # "Active"
    BY <1>1, <1>9 DEF Merges, Account, NoRecord
  <2> QED
    BY <1>1, <1>2, <1>9, <2>1 DEF Merges
<1>10. ASSUME NEW canonical \in Stake, NEW source \in Stake, Renames(canonical, source)
       PROVE  VotersListed'
  <2>1. /\ account'[canonical].voter = account[source].voter
        /\ validator'[account[source].voter].listed
        /\ stake'[source].last_update_status # "Active"
    BY <1>10 DEF Renames, NoRecord
  <2> QED
    BY <1>1, <1>2, <1>10, <2>1 DEF Renames
<1> QED
  BY <1>3, <1>4, <1>5, <1>6, <1>7, <1>8, <1>9, <1>10 DEF Change

-----------------------------------------------------------------------------
(* min_stake is a parameter of the admin.                                  *)
MinStakes == {InitialConfig.min_stake} \cup {c.min_stake : c \in ConfigChoices}

(* Nobody else changes the parameters.                                     *)
LEMMA ConfigStays == [Next]_vars => AdminStep \/ UNCHANGED config
<1> USE DEF adminVars
<1>1. Environment => UNCHANGED config
  <2>1. Tick \/ NewEpoch => UNCHANGED config
    BY DEF Tick, NewEpoch
  <2>2. ASSUME NEW s \in Stake, NEW lamports
        PROVE  DeactivateDelinquent(s) \/ Tip(s, lamports) \/ Slash(s, lamports)
                 => UNCHANGED config
    BY DEF DeactivateDelinquent, Tip, Slash, ChangeAccount
  <2>3. ASSUME NEW lamports
        PROVE  Donate(lamports) \/ BurnMsol(lamports) => UNCHANGED config
    BY DEF Donate, BurnMsol
  <2> QED
    BY <2>1, <2>2, <2>3 DEF Environment, ClusterStep, OutsideStep
<1>2. CrankStep => UNCHANGED config
  <2>1. ASSUME NEW batch, FinalizeDelinquentUpgrade(batch) PROVE UNCHANGED config
    BY <2>1 DEF FinalizeDelinquentUpgrade
  <2>2. ASSUME NEW v, NEW s,
               \/ SpendExtraRun(v) \/ StakeReserve(v, s)
               \/ MergeStakes(v, s) \/ CreateCanonicalStake(v, s)
        PROVE  UNCHANGED config
    BY <2>2 DEF SpendExtraRun, StakeReserve, MergeStakes, CreateCanonicalStake
  <2>3. ASSUME NEW s, NEW new, DeactivateStake(s, new) PROVE UNCHANGED config
    BY <2>3 DEF DeactivateStake
  <2>4. ASSUME NEW s, UpdateActive(s) \/ UpdateDeactivated(s) PROVE UNCHANGED config
    BY <2>4 DEF UpdateActive, UpdateDeactivated
  <2> QED
    BY <2>1, <2>2, <2>3, <2>4 DEF CrankStep
<1>3. UserStep => UNCHANGED config
  <2>1. ASSUME NEW lamports, Deposit(lamports) PROVE UNCHANGED config
    BY <2>1 DEF Deposit
  <2>2. ASSUME NEW s, NEW v, NEW delegated, NEW activation,
               DepositStakeAccount(s, v, delegated, activation)
        PROVE  UNCHANGED config
    BY <2>2 DEF DepositStakeAccount
  <2>3. ASSUME NEW s, NEW t, NEW msol_amount,
               \/ WithdrawStakeAccount(s, msol_amount)
               \/ OrderUnstake(t, msol_amount) \/ Claim(t)
        PROVE  UNCHANGED config
    BY <2>3 DEF WithdrawStakeAccount, OrderUnstake, Claim
  <2> QED
    BY <2>1, <2>2, <2>3 DEF UserStep
<1>4. PoolStep => UNCHANGED config
  BY DEF PoolStep, AddLiquidity, RemoveLiquidity, LiquidUnstake, BurnLp, DonateSolLeg, stakingVars
<1>5. ManagerStep => UNCHANGED config
  <2>1. ASSUME NEW v, NEW score
        PROVE  AddValidator(v, score) \/ RemoveValidator(v) \/ SetValidatorScore(v, score)
                 => UNCHANGED config
    BY DEF AddValidator, RemoveValidator, SetValidatorScore, ChangeValidators
  <2>2. ASSUME NEW extra_runs, ConfigValidatorSystem(extra_runs) PROVE UNCHANGED config
    BY <2>2 DEF ConfigValidatorSystem
  <2>3. ASSUME NEW s, NEW new, NEW amount,
               EmergencyUnstake(s) \/ PartialUnstake(s, new, amount)
        PROVE  UNCHANGED config
    BY <2>3 DEF EmergencyUnstake, PartialUnstake, MoveToEmergency
  <2> QED
    BY <2>1, <2>2, <2>3 DEF ManagerStep
<1> QED
  BY <1>1, <1>2, <1>3, <1>4, <1>5 DEF Next, vars

MinStakeChosen == config.min_stake \in MinStakes

(* min_stake is one of those the admin chooses from.                       *)
LEMMA MinStakeHolds == Spec => []MinStakeChosen
<1> USE DEF MinStakeChosen
<1>1. Init => MinStakeChosen
  BY DEF Init, MinStakes
<1>2. TypeOK /\ MinStakeChosen /\ [Next]_vars => MinStakeChosen'
  <2> SUFFICES ASSUME TypeOK, MinStakeChosen, AdminStep
               PROVE  config'.min_stake \in MinStakes
    BY ConfigStays
  <2>1. ASSUME NEW c \in ConfigChoices, NEW cap, ConfigMarinade(c, cap)
        PROVE  config'.min_stake \in MinStakes
    <3>1. config'.min_stake = c.min_stake
      BY <2>1, ConfigAssumption DEF ConfigMarinade, Config
    <3> QED
      BY <3>1 DEF MinStakes
  <2>2. ASSUME NEW c \in ConfigChoices, ConfigLp(c)
        PROVE  config'.min_stake \in MinStakes
    <3>1. config'.min_stake = config.min_stake
      BY <2>2, ConfigAssumption DEF ConfigLp, Config, TypeOK
    <3> QED
      BY <3>1
  <2>3. Pause \/ Resume => config'.min_stake \in MinStakes
    BY DEF Pause, Resume
  <2> QED
    BY <2>1, <2>2, <2>3 DEF AdminStep
<1> HIDE DEF MinStakeChosen
<1> QED
  BY <1>1, <1>2, TypeCorrect, PTL DEF Spec

(* No account is in the list at first.                                     *)
LEMMA LargeInit == ASSUME NEW m \in Nat PROVE Init => NotSlashed /\ Large(m)
BY DEF Init, NotSlashed, Large, Is, Recorded, NoRecord, NoAccount

(* Active stakes stay as large as min_stake has ever been at least.        *)
LEMMA LargeStep ==
  ASSUME Slashes = {}, NEW m \in Nat, \A k \in MinStakes : m <= k,
         Books, MinStakeChosen, NotSlashed, Large(m), [Next]_vars
  PROVE  NotSlashed' /\ Large(m)'
<1>1. TypeOK /\ Upgraded /\ ScoreBooks /\ Matched /\ Accounting
  BY DEF Books
<1>2. TypeOK' /\ Change /\ \A s \in Stake : Matches(s)
  BY <1>1, StepType, StepsAreChanges, MatchedIsMatches
<1>3. config.min_stake >= m
  BY <1>1 DEF TypeOK, Config, MinStakeChosen
<1> QED
  BY <1>1, <1>2, <1>3, NotSlashedChange, LargeChange

(* The least min_stake is not zero.                                        *)
LEMMA MinStakesPositive == \A k \in MinStakes : 1 <= k
BY ConfigAssumption DEF MinStakes, Config

(* Nothing is recorded that is not there, and something is.                *)
LEMMA NotSlashedHolds == ASSUME Slashes = {} PROVE Spec => [](NotSlashed /\ Large(1))
<1>1. Init => NotSlashed /\ Large(1)
  BY LargeInit
<1>2. Books /\ MinStakeChosen /\ NotSlashed /\ Large(1) /\ [Next]_vars
        => NotSlashed' /\ Large(1)'
  BY MinStakesPositive, LargeStep
<1> QED
  BY <1>1, <1>2, BooksHold, MinStakeHolds, PTL DEF Spec

(* The list and the stake program agree: an account is in the list when it *)
(* exists, cools down when it is recorded to, and is counted with a        *)
(* validator of the list when it is recorded as active.                    *)
THEOREM ListMatches == ASSUME Slashes = {} PROVE Spec => []ListMatchesAccounts
<1>1. Spec => [](NotSlashed /\ Large(1))
  BY NotSlashedHolds
<1>2. Init => VotersListed
  BY DEF Init, VotersListed, Is, NoRecord
<1>3. Books /\ Large(1) /\ VotersListed /\ [Next]_vars => VotersListed'
  <2> SUFFICES ASSUME Books, Large(1), VotersListed, [Next]_vars PROVE VotersListed'
    OBVIOUS
  <2>1. TypeOK /\ Upgraded /\ ScoreBooks /\ Matched /\ Accounting
    BY DEF Books
  <2>2. Change /\ \A s \in Stake : Matches(s)
    BY <2>1, StepsAreChanges, MatchedIsMatches
  <2> QED
    BY <2>1, <2>2, VotersListedChange
<1>4. Books /\ VotersListed => ListMatchesAccounts
  BY DEF Books, Matched, VotersListed, ListMatchesAccounts, CoolingActivation
<1> QED
  BY <1>1, <1>2, <1>3, <1>4, BooksHold, PTL DEF Spec

(* As long as the admin leaves min_stake alone, no instruction leaves an   *)
(* active stake below it.                                                  *)
THEOREM ActiveStakeStaysLarge ==
  ASSUME Slashes = {}, \A c \in ConfigChoices : c.min_stake = InitialConfig.min_stake
  PROVE  Spec => []ActiveStakeIsLarge
<1> DEFINE m == InitialConfig.min_stake
<1>1. m \in Nat /\ MinStakes = {m} /\ \A k \in MinStakes : m <= k
  BY ConfigAssumption DEF MinStakes, Config
<1> HIDE DEF m
<1>2. Init => NotSlashed /\ Large(m)
  BY <1>1, LargeInit
<1>3. Books /\ MinStakeChosen /\ NotSlashed /\ Large(m) /\ [Next]_vars
        => NotSlashed' /\ Large(m)'
  BY <1>1, LargeStep
<1>4. Large(m) /\ MinStakeChosen => ActiveStakeIsLarge
  BY <1>1 DEF Large, ActiveStakeIsLarge, MinStakeChosen
<1> QED
  BY <1>2, <1>3, <1>4, BooksHold, MinStakeHolds, PTL DEF Spec

(* The lamports the price of mSOL is computed from are in the reserve and  *)
(* in the stake accounts.                                                  *)
THEOREM AssetsStayReal == ASSUME Slashes = {} PROVE Spec => []AssetsAreReal
<1>1. Spec => [](NotSlashed /\ Large(1))
  BY NotSlashedHolds
<1>2. Books /\ NotSlashed /\ ReserveCovered => AssetsAreReal
  <2> SUFFICES ASSUME Books, NotSlashed, ReserveCovered PROVE AssetsAreReal
    OBVIOUS
  <2> DEFINE held == [s \in Stake |-> Lamports(s)]
  <2>1. TypeOK /\ Kept
    BY DEF Books, Accounting
  <2>2. /\ held \in [Stake -> Nat]
        /\ \A s \in Stake : RecordedLamports[s] <= held[s]
    <3>1. \A s \in Stake : /\ Recorded(s) <= account[s].delegated
                           /\ Recorded(s) \in Nat /\ account[s].delegated \in Nat
                           /\ account[s].extra \in Nat
      BY <2>1, RecordFields DEF NotSlashed
    <3> QED
      BY <3>1 DEF RecordedLamports, Lamports
  <2> HIDE DEF held
  <2>3. Sum(RecordedLamports) <= Sum(held)
    BY <2>1, <2>2, EntriesType, StakeAssumption, SumMonotone
  <2>4. Sum(RecordedLamports) \in Nat /\ Sum(held) \in Nat
    BY <2>1, <2>2, EntriesType, StakeAssumption, SumType
  <2>5. TotalLamportsUnderControl <= reserve_pda - RentExempt + Sum(held)
    <3>1. /\ total_active_balance + TotalCoolingDown = Sum(RecordedLamports)
          /\ available_reserve_balance + RentExempt <= reserve_pda
          /\ available_reserve_balance \in Nat /\ reserve_pda \in Nat /\ RentExempt \in Nat
      BY <2>1, RentAssumption DEF Kept, ReserveCovered, TypeOK
    <3> QED
      BY <2>3, <2>4, <3>1 DEF TotalLamportsUnderControl
  <2> QED
    BY <2>5 DEF AssetsAreReal, held
<1> QED
  BY <1>1, <1>2, BooksHold, ReserveAlwaysCovered, PTL

-----------------------------------------------------------------------------
(* The budget of moves.                                                    *)

\* What account s counts for in the stake moved in this epoch, and the budget
\* that is used up.
MovedIn(s) == IF s \in MovedThisEpoch THEN Recorded(s) ELSE 0

MovedLamports == [s \in Stake |-> MovedIn(s)]

Used == IF last_stake_move_epoch = epoch THEN stake_moved ELSE 0

(* An account that is not touched counts for no more than before.          *)
LEMMA UntouchedMoved ==
  ASSUME TypeOK, NEW s \in Stake, Matches(s), Untouched(s)
  PROVE  MovedIn(s)' <= MovedIn(s)
<1>1. Recorded(s) \in Nat
  BY RecordFields
<1>2. Recorded(s)' = Recorded(s)
  BY DEF Untouched, Recorded
<1>3. s \in MovedThisEpoch' => s \in MovedThisEpoch
  BY DEF MovedThisEpoch, CoolingStakes, Is, Matches, Untouched, CoolingActivation
<1> QED
  BY <1>1, <1>2, <1>3 DEF MovedIn

(* One account begins to count, for what is added to the budget.           *)
LEMMA MovesCounted ==
  ASSUME TypeOK, TypeOK', MoveBudget, \A s \in Stake : Matches(s),
         NEW s \in Stake, NEW amount \in Nat,
         \A u \in Stake \ {s} : Untouched(u) \/ MovedIn(u)' = 0,
         MovedIn(s)' <= amount, Used' = Used + amount
  PROVE  MoveBudget'
<1>1. MovedLamports \in [Stake -> Nat] /\ MovedLamports' \in [Stake -> Nat]
  <2>1. \A u \in Stake : Recorded(u) \in Nat /\ Recorded(u)' \in Nat
    BY DEF TypeOK, StakeRecord, Recorded
  <2> QED
    BY <2>1 DEF MovedLamports, MovedIn
<1>2. /\ \A u \in Stake \ {s} : MovedLamports'[u] <= MovedLamports[u]
      /\ MovedLamports'[s] <= MovedLamports[s] + amount
  <2>1. \A u \in Stake : /\ MovedLamports[u] = MovedIn(u) /\ MovedLamports'[u] = MovedIn(u)'
                         /\ MovedIn(u) \in Nat /\ MovedIn(u)' \in Nat
    BY <1>1 DEF MovedLamports
  <2>2. \A u \in Stake \ {s} : MovedIn(u)' <= MovedIn(u)
    BY <2>1, UntouchedMoved
  <2> QED
    BY <2>1, <2>2
<1>3. Sum(MovedLamports') <= Sum(MovedLamports) + amount
  BY <1>1, <1>2, StakeAssumption, SumGrowth
<1>4. RecordedSum(MovedThisEpoch) = Sum(MovedLamports)
  BY DEF RecordedSum, MovedLamports, MovedIn
<1>5. RecordedSum(MovedThisEpoch)' = Sum(MovedLamports')
  BY DEF RecordedSum, MovedLamports, MovedIn
<1>6. Sum(MovedLamports) \in Nat /\ Sum(MovedLamports') \in Nat /\ Used \in Nat
  BY <1>1, StakeAssumption, SumType DEF Used, TypeOK
<1>7. Sum(MovedLamports) <= Used
  BY <1>4 DEF MoveBudget, Used
<1>8. Sum(MovedLamports') <= Used'
  BY <1>3, <1>6, <1>7
<1> QED
  BY <1>5, <1>8 DEF MoveBudget, Used

(* Nothing begins to count.                                                *)
LEMMA NothingMoved ==
  ASSUME TypeOK, TypeOK', MoveBudget, \A s \in Stake : Matches(s),
         \A u \in Stake : Untouched(u) \/ MovedIn(u)' = 0,
         UNCHANGED moveVars, UNCHANGED epoch
  PROVE  MoveBudget'
<1>1. MovedLamports \in [Stake -> Nat] /\ MovedLamports' \in [Stake -> Nat]
  <2>1. \A u \in Stake : Recorded(u) \in Nat /\ Recorded(u)' \in Nat
    BY DEF TypeOK, StakeRecord, Recorded
  <2> QED
    BY <2>1 DEF MovedLamports, MovedIn
<1>2. \A u \in Stake : MovedLamports'[u] <= MovedLamports[u]
  <2>1. \A u \in Stake : /\ MovedLamports[u] = MovedIn(u) /\ MovedLamports'[u] = MovedIn(u)'
                         /\ MovedIn(u) \in Nat
    BY <1>1 DEF MovedLamports
  <2> QED
    BY <2>1, UntouchedMoved
<1>3. Sum(MovedLamports') <= Sum(MovedLamports)
  BY <1>1, <1>2, StakeAssumption, SumMonotone
<1>4. RecordedSum(MovedThisEpoch) = Sum(MovedLamports)
  BY DEF RecordedSum, MovedLamports, MovedIn
<1>5. RecordedSum(MovedThisEpoch)' = Sum(MovedLamports')
  BY DEF RecordedSum, MovedLamports, MovedIn
<1>6. Sum(MovedLamports) \in Nat /\ Sum(MovedLamports') \in Nat /\ Used \in Nat
  BY <1>1, StakeAssumption, SumType DEF Used, TypeOK
<1>7. Sum(MovedLamports) <= Used /\ Used' = Used
  BY <1>4 DEF MoveBudget, Used, moveVars
<1>8. Sum(MovedLamports') <= Used'
  BY <1>3, <1>6, <1>7
<1> QED
  BY <1>5, <1>8 DEF MoveBudget, Used

(* A new epoch begins with the whole budget.                               *)
LEMMA NothingMovedYet ==
  ASSUME TypeOK', \A s \in Stake : account'[s].activation # "deactivating"
  PROVE  MoveBudget'
<1>1. MovedThisEpoch' = {}
  BY DEF MovedThisEpoch, CoolingStakes
<1>2. RecordedSum(MovedThisEpoch)' = Sum([s \in Stake |-> 0])
  BY <1>1 DEF RecordedSum
<1> DEFINE none == [s \in Stake |-> 0]
<1>3. none \in [Stake -> Nat] /\ \A s \in Stake : none[s] = 0
  OBVIOUS
<1> HIDE DEF none
<1>4. Sum(none) = 0
  BY <1>3, SumZero
<1>5. RecordedSum(MovedThisEpoch)' = 0
  BY <1>2, <1>4 DEF none
<1>6. stake_moved' \in Nat
  BY DEF TypeOK
<1> QED
  BY <1>5, <1>6 DEF MoveBudget

(* The budget covers the moves after a change.                             *)
LEMMA MoveBudgetChange ==
  ASSUME TypeOK, TypeOK', MoveBudget, \A s \in Stake : Matches(s), Change, SlowStake = {}
  PROVE  MoveBudget'
<1>1. \A s \in Stake : /\ stake[s] \in StakeRecord /\ account[s] \in Account
                       /\ Recorded(s) \in Nat
                       /\ stake[s].is_emergency_unstaking \in BOOLEAN
  BY RecordFields DEF StakeRecord
<1>2. ASSUME NEW s \in Stake,
             stake'[s].last_update_status # "Deactivating" \/ ~stake'[s].is_emergency_unstaking
      PROVE  MovedIn(s)' = 0
  BY <1>2 DEF MovedIn, MovedThisEpoch, CoolingStakes, Is
<1>3. ASSUME NEW s \in Stake, NEW amount \in Nat, Cooling(TRUE, amount),
             Recorded(s)' = amount,
             \A u \in Stake \ {s} : Untouched(u) \/ MovedIn(u)' = 0
      PROVE  MoveBudget'
  <2>1. MovedIn(s)' <= amount
    BY <1>3 DEF MovedIn
  <2>2. OnStakeMoved(amount) /\ UNCHANGED epoch
    BY <1>3 DEF Cooling
  <2>3. Used' = amount + Used
    BY <2>2 DEF OnStakeMoved, Used
  <2>4. Used' = Used + amount
    BY <2>3 DEF Used, TypeOK
  <2> QED
    BY <1>3, <2>1, <2>4, MovesCounted
<1>4. CASE Rests
  <2>1. CASE /\ UNCHANGED epoch
             /\ \A s \in Stake : account[s].activation \in CoolingActivation
                                   => account'[s].activation = account[s].activation
    BY <1>4, <2>1, NothingMoved DEF Rests, OthersUntouched
  <2>2. CASE \A s \in Stake : account'[s].activation # "deactivating"
    BY <2>2, NothingMovedYet
  <2> QED
    BY <1>4, <2>1, <2>2 DEF Rests
<1> USE DEF OthersUntouched
<1>5. ASSUME NEW s \in Stake, NEW v, NEW amount, Enters(s, v, amount)
      PROVE  MoveBudget'
  <2>1. MovedIn(s)' = 0
    BY <1>2, <1>5 DEF Enters, NewStakeRecord
  <2> QED
    BY <1>5, <2>1, NothingMoved DEF Enters, NoCooling
<1>6. ASSUME NEW s \in Stake, NEW amount, Recounts(s, amount)
      PROVE  MoveBudget'
  <2>1. MovedIn(s)' = 0
    BY <1>1, <1>2, <1>6 DEF Recounts, StakeRecord, Is
  <2> QED
    BY <1>6, <2>1, NothingMoved DEF Recounts, NoCooling
<1>7. ASSUME NEW s \in Stake, NEW is_emergency \in BOOLEAN, Cools(s, is_emergency)
      PROVE  MoveBudget'
  <2>1. /\ stake'[s].is_emergency_unstaking = is_emergency
        /\ Recorded(s)' = Recorded(s)
        /\ Cooling(is_emergency, Recorded(s)) /\ OthersUntouched({s})
    BY <1>1, <1>7 DEF Cools, StakeRecord, Recorded
  <2>2. CASE is_emergency = TRUE
    <3>1. Cooling(TRUE, Recorded(s))
      BY <2>1, <2>2, Zenon
    <3> QED
      BY <1>1, <1>3, <2>1, <3>1
  <2>3. CASE is_emergency = FALSE
    <3>1. MovedIn(s)' = 0
      BY <1>2, <2>1, <2>3
    <3>2. UNCHANGED <<moveVars, epoch>>
      BY <2>1, <2>3 DEF Cooling
    <3> QED
      BY <2>1, <3>1, <3>2, NothingMoved
  <2> QED
    BY <2>2, <2>3
<1>8. ASSUME NEW s \in Stake, NEW new \in Stake, NEW amount \in Nat,
             NEW is_emergency \in BOOLEAN, CoolsPart(s, new, amount, is_emergency)
      PROVE  MoveBudget'
  <2>1. /\ stake'[new].is_emergency_unstaking = is_emergency
        /\ Recorded(new)' = amount
        /\ Cooling(is_emergency, amount) /\ OthersUntouched({s, new})
    BY <1>8 DEF CoolsPart, NewStakeRecord, Recorded
  <2>2. MovedIn(s)' = 0
    <3>1. stake'[s].last_update_status = "Active"
      BY <1>1, <1>8 DEF CoolsPart, Unstakable, StakeRecord, Is
    <3> QED
      BY <1>2, <3>1
  <2>3. CASE is_emergency = TRUE
    <3>1. Cooling(TRUE, amount)
      BY <2>1, <2>3, Zenon
    <3> QED
      BY <1>3, <2>1, <2>2, <3>1
  <2>4. CASE is_emergency = FALSE
    <3>1. MovedIn(new)' = 0
      BY <1>2, <2>1, <2>4
    <3>2. UNCHANGED <<moveVars, epoch>>
      BY <2>1, <2>4 DEF Cooling
    <3> QED
      BY <2>1, <2>2, <3>1, <3>2, NothingMoved
  <2> QED
    BY <2>3, <2>4
<1>9. ASSUME NEW s \in Stake, Leaves(s)
      PROVE  MoveBudget'
  <2>1. MovedIn(s)' = 0
    BY <1>2, <1>9 DEF Leaves, NoRecord
  <2> QED
    BY <1>9, <2>1, NothingMoved DEF Leaves
<1>10. ASSUME NEW canonical \in Stake, NEW source \in Stake, NEW amount,
              Merges(canonical, source, amount)
       PROVE  MoveBudget'
  <2>1. MovedIn(canonical)' = 0
    BY <1>1, <1>2, <1>10 DEF Merges, StakeRecord, Is
  <2>2. MovedIn(source)' = 0
    BY <1>2, <1>10 DEF Merges, NoRecord
  <2> QED
    BY <1>10, <2>1, <2>2, NothingMoved DEF Merges, NoCooling
<1>11. ASSUME NEW canonical \in Stake, NEW source \in Stake, Renames(canonical, source)
       PROVE  MoveBudget'
  <2>1. MovedIn(canonical)' = 0
    BY <1>2, <1>11 DEF Renames, NewStakeRecord
  <2>2. MovedIn(source)' = 0
    BY <1>2, <1>11 DEF Renames, NoRecord
  <2> QED
    BY <1>11, <2>1, <2>2, NothingMoved DEF Renames, NoCooling
<1> QED
  BY <1>4, <1>5, <1>6, <1>7, <1>8, <1>9, <1>10, <1>11 DEF Change

(* The stake moved in an epoch is in stake_moved, which the instructions   *)
(* hold against max_stake_moved_per_epoch, as long as an account that has  *)
(* been deactivated has cooled down in the next epoch.                     *)
THEOREM MovesStayInBudget == ASSUME SlowStake = {} PROVE Spec => []MoveBudget
<1>1. Init => MoveBudget
  <2> SUFFICES ASSUME Init PROVE MoveBudget
    OBVIOUS
  <2> DEFINE none == [s \in Stake |-> 0]
  <2>1. MovedThisEpoch = {}
    BY DEF Init, MovedThisEpoch, CoolingStakes, Is, NoRecord
  <2>2. none \in [Stake -> Nat] /\ \A s \in Stake : none[s] = 0
    OBVIOUS
  <2>3. RecordedSum(MovedThisEpoch) = Sum(none)
    BY <2>1 DEF RecordedSum
  <2> HIDE DEF none
  <2>4. Sum(none) = 0
    BY <2>2, SumZero
  <2> QED
    BY <2>3, <2>4 DEF Init, MoveBudget
<1>2. Books /\ MoveBudget /\ [Next]_vars => MoveBudget'
  <2> SUFFICES ASSUME Books, MoveBudget, [Next]_vars PROVE MoveBudget'
    OBVIOUS
  <2>1. TypeOK /\ Upgraded /\ ScoreBooks /\ Matched
    BY DEF Books
  <2>2. TypeOK' /\ Change /\ \A s \in Stake : Matches(s)
    BY <2>1, StepType, StepsAreChanges, MatchedIsMatches
  <2> QED
    BY <2>1, <2>2, MoveBudgetChange
<1> QED
  BY <1>1, <1>2, BooksHold, PTL DEF Spec
=============================================================================
