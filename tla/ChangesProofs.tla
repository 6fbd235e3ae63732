----------------------------- MODULE ChangesProofs ----------------------------
(***************************************************************************)
(* What a step can do to the stake list, the validator list and the stake  *)
(* accounts, for every value of the constants.                             *)
(*                                                                         *)
(* Some thirty instructions change the lists, in eight ways: a step lets   *)
(* every record rest, enters one, recounts one, starts cooling down one or *)
(* a part of one, takes one out, merges two, or renames one.  That each    *)
(* step of the program is one of these is proved here (StepsAreChanges),   *)
(* and that the scores stay summed up; BooksProofs shows that the running  *)
(* totals survive the eight changes.                                       *)
(***************************************************************************)
EXTENDS MarinadeProofs

-----------------------------------------------------------------------------
(* The changes.                                                            *)

CoolingActivation == {"deactivating", "inactive"}

\* What time, anybody's transfers and deactivations make of an account that the
\* instruction does not name.
Untouched(s) ==
  /\ stake'[s] = stake[s]
  /\ account'[s].voter = account[s].voter
  /\ account'[s].activation = "none" <=> account[s].activation = "none"
  /\ account[s].activation \in CoolingActivation => account'[s].activation \in CoolingActivation
  /\ account[s].activation = "inactive" => account'[s].activation = "inactive"
  /\ Slashes = {} => account'[s].delegated >= account[s].delegated

OthersUntouched(S) == \A s \in Stake \ S : Untouched(s)

\* lamports are added to the active stake of v (or taken from it).
Balances(v, lamports) ==
  /\ v \in Validator
  /\ validator[v].listed
  /\ validator'[v].active_balance = validator[v].active_balance + lamports
  /\ \A w \in Validator : validator'[w].listed = validator[w].listed
  /\ \A w \in Validator \ {v} : validator'[w].active_balance = validator[w].active_balance
  /\ total_active_balance' = total_active_balance + lamports

\* amount begins to cool down: in an emergency it counts as moved.
Cooling(is_emergency, amount) ==
  /\ IF is_emergency
     THEN /\ emergency_cooling_down' = emergency_cooling_down + amount
          /\ UNCHANGED delayed_unstake_cooling_down
          /\ OnStakeMoved(amount)
     ELSE /\ delayed_unstake_cooling_down' = delayed_unstake_cooling_down + amount
          /\ UNCHANGED <<emergency_cooling_down, moveVars>>
  /\ UNCHANGED epoch

\* Nothing begins to cool down, nor ends.
NoCooling == UNCHANGED <<coolingVars, moveVars, epoch>>

\* The accounts wait; a validator enters the list, or leaves it without stake.
Rests ==
  /\ OthersUntouched({})
  /\ \A v \in Validator :
       /\ validator'[v].active_balance = validator[v].active_balance
       /\ validator[v].listed /\ ~validator'[v].listed => validator[v].active_balance = 0
  /\ UNCHANGED <<total_active_balance, coolingVars, moveVars>>
  /\ \/ /\ UNCHANGED epoch
        /\ \A s \in Stake : account[s].activation \in CoolingActivation
                              => account'[s].activation = account[s].activation
     \/ /\ epoch' > epoch
        /\ SlowStake = {} => \A s \in Stake : account'[s].activation # "deactivating"

\* stake_reserve, deposit_stake_account
Enters(s, v, amount) ==
  /\ s \notin Listed
  /\ OthersUntouched({s})
  /\ stake'[s] = NewStakeRecord(amount, FALSE, TRUE)
  /\ account'[s].voter = v /\ account'[s].delegated = amount
  /\ account'[s].activation \in {"activating", "active"}
  /\ amount >= config.min_stake
  /\ Balances(v, amount)
  /\ NoCooling

\* update_active, withdraw_stake_account
Recounts(s, amount) ==
  /\ Is(s, "Active")
  /\ OthersUntouched({s})
  /\ stake'[s] = [stake[s] EXCEPT !.last_update_delegated_lamports = amount]
  /\ account'[s].voter = account[s].voter /\ account'[s].delegated = amount
  /\ account[s].activation \in {"activating", "active"}
  /\ account'[s].activation = account[s].activation
  /\ amount >= config.min_stake \/ amount = account[s].delegated
  /\ Balances(Voter(s), amount - Recorded(s))
  /\ NoCooling

\* deactivate_stake, emergency_unstake and partial_unstake of a whole account
Cools(s, is_emergency) ==
  /\ Unstakable(s)
  /\ OthersUntouched({s})
  /\ stake'[s] = [stake[s] EXCEPT !.last_update_status = "Deactivating",
                                  !.is_emergency_unstaking = is_emergency]
  /\ account'[s].voter = account[s].voter /\ account'[s].delegated = account[s].delegated
  /\ account'[s].activation \in CoolingActivation
  /\ Balances(Voter(s), -Recorded(s))
  /\ Cooling(is_emergency, Recorded(s))

\* The same of a part of an account, in a new account.
CoolsPart(s, new, amount, is_emergency) ==
  /\ Unstakable(s)
  /\ new \notin Listed
  /\ OthersUntouched({s, new})
  /\ Recorded(s) - amount >= config.min_stake
  /\ stake'[s] = [stake[s] EXCEPT !.last_update_delegated_lamports = @ - amount]
  /\ account'[s] = [account[s] EXCEPT !.delegated = @ - amount]
  /\ stake'[new] = NewStakeRecord(amount, is_emergency, FALSE)
  /\ account'[new].voter = account[s].voter /\ account'[new].delegated = amount
  /\ account'[new].activation \in CoolingActivation
  /\ Balances(Voter(s), -amount)
  /\ Cooling(is_emergency, amount)

\* update_deactivated
Leaves(s) ==
  /\ s \in Listed
  /\ account[s].activation = "inactive"
  /\ OthersUntouched({s})
  /\ stake'[s] = NoRecord /\ account'[s] = NoAccount
  /\ IF Is(s, "Active")
     THEN /\ Balances(Voter(s), -Recorded(s))
          /\ UNCHANGED coolingVars
     ELSE /\ Balances(Voter(s), 0)
          /\ IF stake[s].is_emergency_unstaking
             THEN /\ emergency_cooling_down' = emergency_cooling_down - Recorded(s)
                  /\ UNCHANGED delayed_unstake_cooling_down
             ELSE /\ delayed_unstake_cooling_down' = delayed_unstake_cooling_down - Recorded(s)
                  /\ UNCHANGED emergency_cooling_down
  /\ UNCHANGED <<moveVars, epoch>>

\* merge_stakes
Merges(canonical, source, amount) ==
  /\ canonical # source
  /\ Is(canonical, "Active") /\ Is(source, "Active")
  /\ Voter(source) = Voter(canonical)
  /\ OthersUntouched({canonical, source})
  /\ amount >= Recorded(canonical)
  /\ stake'[canonical] = [stake[canonical] EXCEPT !.last_update_delegated_lamports = amount]
  /\ account'[canonical] = [account[canonical] EXCEPT !.delegated = amount]
  /\ account[canonical].activation \in {"activating", "active"}
  /\ stake'[source] = NoRecord /\ account'[source] = NoAccount
  /\ Balances(Voter(canonical), amount - Recorded(canonical) - Recorded(source))
  /\ NoCooling

\* create_canonical_stake
Renames(canonical, source) ==
  /\ canonical # source
  /\ canonical \notin Listed /\ source \in Listed
  /\ account[source].activation \in {"activating", "active"}
  /\ OthersUntouched({canonical, source})
  /\ stake'[canonical] = NewStakeRecord(Recorded(source), FALSE, TRUE)
  /\ account'[canonical] = account[source]
  /\ account'[canonical].delegated = Recorded(source)
  /\ stake'[source] = NoRecord /\ account'[source] = NoAccount
  /\ Balances(Voter(source), 0)
  /\ NoCooling

Change ==
  \/ Rests
  \/ \E s \in Stake, v \in Validator, amount \in Nat : Enters(s, v, amount)
  \/ \E s \in Stake, amount \in Nat : Recounts(s, amount)
  \/ \E s \in Stake, is_emergency \in BOOLEAN : Cools(s, is_emergency)
  \/ \E s, new \in Stake, amount \in Nat, is_emergency \in BOOLEAN :
       CoolsPart(s, new, amount, is_emergency)
  \/ \E s \in Stake : Leaves(s)
  \/ \E canonical, source \in Stake, amount \in Nat : Merges(canonical, source, amount)
  \/ \E canonical, source \in Stake : Renames(canonical, source)

-----------------------------------------------------------------------------
(* Every step of the program is a change.                                  *)

\* The delinquent upgrade is over, as it is for a program initialized by this
\* version, and no record waits for it.
Upgraded ==
  /\ delinquent_upgrader = UpgradeDone
  /\ \A s \in Stake : ~Is(s, "Unknown")

(* Records and accounts have natural amounts.                              *)
LEMMA RecordFields ==
  ASSUME TypeOK
  PROVE  /\ \A s \in Stake : /\ stake[s] \in StakeRecord /\ Recorded(s) \in Nat
                             /\ account[s] \in Account /\ account[s].delegated \in Nat
                             /\ account[s].extra \in Nat
         /\ \A v \in Validator : /\ validator[v] \in ValidatorRecord
                                 /\ validator[v].active_balance \in Nat
         /\ total_active_balance \in Nat
         /\ delayed_unstake_cooling_down \in Nat /\ emergency_cooling_down \in Nat
BY DEF TypeOK, StakeRecord, Account, ValidatorRecord, Recorded

(* An account that the step leaves as it is, is untouched.                 *)
LEMMA SameIsUntouched ==
  ASSUME TypeOK, NEW s \in Stake, stake'[s] = stake[s], account'[s] = account[s]
  PROVE  Untouched(s)
BY RecordFields DEF Untouched

(* A step that leaves the lists and the accounts alone lets them rest.     *)
LEMMA StillRests ==
  ASSUME TypeOK, UNCHANGED <<stakeVars, validatorVars, coolingVars, moveVars, epoch>>
  PROVE  Rests
BY SameIsUntouched DEF Rests, OthersUntouched, stakeVars, validatorVars

(* One stake account changes from outside.                                 *)
LEMMA AccountRests ==
  ASSUME TypeOK, NEW s \in Stake, NEW a, ChangeAccount(s, a),
         account[s].activation # "none", a.voter = account[s].voter,
         \/ a.activation = account[s].activation
         \/ CanDeactivate(s) /\ a.activation \in CoolingActivation,
         Slashes = {} => a.delegated >= account[s].delegated
  PROVE  Rests
<1>1. /\ account' = [account EXCEPT ![s] = a]
      /\ UNCHANGED <<stake, validatorVars, coolingVars, moveVars, epoch>>
  BY DEF ChangeAccount, clockVars
<1>2. account'[s] = a /\ \A u \in Stake \ {s} : account'[u] = account[u]
  BY <1>1 DEF TypeOK
<1>3. \A u \in Stake \ {s} : Untouched(u)
  BY <1>1, <1>2, SameIsUntouched
<1>4. Untouched(s)
  BY <1>1, <1>2 DEF Untouched, CanDeactivate, CoolingActivation
<1>5. \A u \in Stake : account[u].activation \in CoolingActivation
                         => account'[u].activation = account[u].activation
  BY <1>2 DEF CanDeactivate, CoolingActivation
<1> QED
  BY <1>1, <1>3, <1>4, <1>5 DEF Rests, OthersUntouched, validatorVars

(* An epoch ends.                                                          *)
LEMMA NewEpochRests == TypeOK /\ NewEpoch => Rests
<1> SUFFICES ASSUME TypeOK, NewEpoch PROVE Rests
  OBVIOUS
<1>1. PICK slow \in SUBSET SlowStake, reward \in Rewards \cup {0},
           lucky \in SUBSET {s \in Stake : account[s].activation \in {"active", "deactivating"}} :
        account' = [s \in Stake |->
          [account[s] EXCEPT !.activation = NextActivation(s, slow),
                             !.delegated = @ + IF s \in lucky THEN reward ELSE 0]]
  BY DEF NewEpoch
<1>2. /\ epoch' = epoch + 1 /\ epoch \in Nat
      /\ UNCHANGED <<stake, validatorVars, coolingVars, moveVars>>
  BY DEF NewEpoch, TypeOK
<1>3. reward \in Nat
  BY ClusterAssumption
<1>4. ASSUME NEW s \in Stake
      PROVE  /\ account[s].activation \in Activation /\ account[s].delegated \in Nat
             /\ account'[s].activation = NextActivation(s, slow)
             /\ account'[s].voter = account[s].voter
             /\ account'[s].delegated >= account[s].delegated
  <2>1. account[s] \in Account
    BY DEF TypeOK
  <2>2. account'[s] = [account[s] EXCEPT !.activation = NextActivation(s, slow),
                             !.delegated = @ + IF s \in lucky THEN reward ELSE 0]
    BY <1>1
  <2> QED
    BY <1>3, <2>1, <2>2 DEF Account
<1>5. ASSUME NEW s \in Stake PROVE Untouched(s)
  BY <1>2, <1>4 DEF Untouched, NextActivation, CoolingActivation, Activation
<1>6. SlowStake = {} => \A s \in Stake : account'[s].activation # "deactivating"
  BY <1>4 DEF NextActivation, Activation
<1> QED
  BY <1>2, <1>5, <1>6 DEF Rests, OthersUntouched, validatorVars

(* The environment lets every record rest.                                 *)
LEMMA EnvironmentRests == TypeOK /\ Environment => Rests
<1> SUFFICES ASSUME TypeOK, Environment PROVE Rests
  OBVIOUS
<1>1. CASE Tick
  BY <1>1, StillRests DEF Tick
<1>2. CASE NewEpoch
  BY <1>2, NewEpochRests
<1>3. ASSUME NEW s \in Stake, DeactivateDelinquent(s) PROVE Rests
  <2> DEFINE a == [account[s] EXCEPT !.activation = DeactivatedFrom(@)]
  <2>1. account[s] \in Account
    BY DEF TypeOK
  <2>2. /\ ChangeAccount(s, a) /\ CanDeactivate(s) /\ account[s].activation # "none"
        /\ a.voter = account[s].voter /\ a.activation \in CoolingActivation
        /\ a.delegated >= account[s].delegated
    BY <1>3, <2>1 DEF DeactivateDelinquent, DeactivatedFrom, CanDeactivate, CoolingActivation,
                      Account
  <2> HIDE DEF a
  <2> QED
    BY <2>2, AccountRests
<1>4. ASSUME NEW s \in Stake, NEW lamports \in Tips, Tip(s, lamports) PROVE Rests
  <2> DEFINE a == [account[s] EXCEPT !.extra = lamports]
  <2>1. account[s] \in Account
    BY DEF TypeOK
  <2>2. /\ ChangeAccount(s, a) /\ account[s].activation # "none"
        /\ a.voter = account[s].voter /\ a.activation = account[s].activation
        /\ a.delegated >= account[s].delegated
    BY <1>4, <2>1 DEF Tip, Account
  <2> HIDE DEF a
  <2> QED
    BY <2>2, AccountRests
<1>5. ASSUME NEW s \in Stake, NEW lamports \in Slashes, Slash(s, lamports) PROVE Rests
  <2> DEFINE a == [account[s] EXCEPT !.delegated = @ - lamports]
  <2>1. account[s] \in Account /\ Slashes # {}
    BY <1>5 DEF TypeOK
  <2>2. /\ ChangeAccount(s, a) /\ account[s].activation # "none"
        /\ a.voter = account[s].voter /\ a.activation = account[s].activation
    BY <1>5, <2>1 DEF Slash, Account
  <2> HIDE DEF a
  <2> QED
    BY <2>1, <2>2, AccountRests
<1>6. CASE OutsideStep
  <2>1. ASSUME NEW lamports, Donate(lamports) \/ BurnMsol(lamports) PROVE Rests
    BY <2>1, StillRests DEF Donate, BurnMsol, clockVars
  <2> QED
    BY <1>4, <1>6, <2>1 DEF OutsideStep
<1> QED
  BY <1>1, <1>2, <1>3, <1>5, <1>6 DEF Environment, ClusterStep

-----------------------------------------------------------------------------
(* One account changes with one validator: what the instructions have in   *)
(* common, in the form the changes want.                                   *)

(* The active balance of one validator changes, in the list and in total.  *)
LEMMA BalanceChange ==
  ASSUME TypeOK, NEW v \in Validator, NEW lamports,
         validator[v].listed,
         \A w \in Validator \ {v} : validator'[w] = validator[w],
         validator'[v].listed = validator[v].listed,
         validator'[v].active_balance = validator[v].active_balance + lamports,
         total_active_balance' = total_active_balance + lamports
  PROVE  Balances(v, lamports)
BY DEF Balances

(* No balance changes.                                                     *)
LEMMA NoBalanceChange ==
  ASSUME TypeOK, NEW v \in Validator, validator[v].listed, UNCHANGED validatorVars
  PROVE  Balances(v, 0)
BY RecordFields DEF Balances, validatorVars

(* All accounts but one are left as they are.                              *)
LEMMA OneAccount ==
  ASSUME TypeOK, NEW s \in Stake, NEW a, NEW r,
         account' = [account EXCEPT ![s] = a], stake' = [stake EXCEPT ![s] = r]
  PROVE  account'[s] = a /\ stake'[s] = r /\ OthersUntouched({s})
<1>1. /\ account'[s] = a /\ stake'[s] = r
      /\ \A u \in Stake \ {s} : account'[u] = account[u] /\ stake'[u] = stake[u]
  BY DEF TypeOK
<1> QED
  BY <1>1, SameIsUntouched DEF OthersUntouched

(* All accounts but two.                                                   *)
LEMMA TwoAccounts ==
  ASSUME TypeOK, NEW s \in Stake, NEW n \in Stake, s # n,
         NEW a, NEW b, NEW r, NEW q,
         account' = [account EXCEPT ![s] = a, ![n] = b],
         stake' = [stake EXCEPT ![s] = r, ![n] = q]
  PROVE  /\ account'[s] = a /\ account'[n] = b /\ stake'[s] = r /\ stake'[n] = q
         /\ OthersUntouched({s, n})
<1>1. /\ account'[s] = a /\ stake'[s] = r /\ account'[n] = b /\ stake'[n] = q
      /\ \A u \in Stake \ {s, n} : account'[u] = account[u] /\ stake'[u] = stake[u]
  BY DEF TypeOK
<1> QED
  BY <1>1, SameIsUntouched DEF OthersUntouched

-----------------------------------------------------------------------------
(* The instructions that enter an account.                                 *)

(* stake_reserve                                                           *)
LEMMA StakeReserveEnters ==
  ASSUME TypeOK, NEW v \in Validator, NEW s \in Stake, StakeReserve(v, s)
  PROVE  \E amount \in Nat : Enters(s, v, amount)
<1> DEFINE amount == ReserveStakeTarget(v)
           a == [activation |-> "activating", voter |-> v, delegated |-> amount, extra |-> 0]
<1>1. /\ StakeDelta > 0 /\ validator[v].listed
      /\ amount >= config.min_stake /\ s \in Keypair
      /\ account' = [account EXCEPT ![s] = a]
      /\ stake' = [stake EXCEPT ![s] = NewStakeRecord(amount, FALSE, TRUE)]
      /\ total_active_balance' = total_active_balance + amount
      /\ NoCooling
  BY DEF StakeReserve, CanStakeReserve, NoCooling, clockVars
<1>2. validator' = [validator EXCEPT ![v].active_balance = @ + amount,
                                     ![v].last_stake_delta_epoch = epoch]
  BY DEF StakeReserve
<1>3. amount \in Nat
  BY <1>1, ReserveStakeTargetType
<1>4. /\ a.voter = v /\ a.delegated = amount /\ a.activation = "activating"
      /\ validator'[v].listed = validator[v].listed
      /\ validator'[v].active_balance = validator[v].active_balance + amount
      /\ \A w \in Validator \ {v} : validator'[w] = validator[w]
  BY <1>2, RecordFields DEF ValidatorRecord, TypeOK
<1>5. s \notin Listed
  BY <1>1 DEF Keypair, FreshStake
<1> HIDE DEF amount, a
<1>6. Balances(v, amount)
  BY <1>1, <1>2, <1>3, <1>4, BalanceChange
<1>7. /\ account'[s] = a /\ stake'[s] = NewStakeRecord(amount, FALSE, TRUE)
      /\ OthersUntouched({s})
  BY <1>1, OneAccount
<1> QED
  BY <1>1, <1>3, <1>4, <1>5, <1>6, <1>7 DEF Enters

(* deposit_stake_account                                                   *)
LEMMA DepositStakeAccountEnters ==
  ASSUME TypeOK, NEW s \in Stake, NEW v \in Validator, NEW delegated \in UserStakes,
         NEW activation \in Activation, DepositStakeAccount(s, v, delegated, activation)
  PROVE  Enters(s, v, delegated)
<1> DEFINE a == [activation |-> activation, voter |-> v, delegated |-> delegated, extra |-> 0]
<1>1. /\ validator[v].listed /\ delegated >= config.min_stake /\ s \in Keypair
      /\ activation \in {"activating", "active"}
      /\ account' = [account EXCEPT ![s] = a]
      /\ stake' = [stake EXCEPT ![s] = NewStakeRecord(delegated, FALSE, TRUE)]
      /\ total_active_balance' = total_active_balance + delegated
      /\ NoCooling
  BY DEF DepositStakeAccount, TakeOver, CountDeposited, NoCooling, clockVars
<1>2. delegated \in Nat
  BY UsersAssumption
<1>3. PICK d : validator' = [validator EXCEPT ![v].active_balance = @ + delegated,
                                              ![v].delinquent_upgrader_active_balance = @ + d]
  BY DEF DepositStakeAccount, CountDeposited
<1>4. /\ a.voter = v /\ a.delegated = delegated /\ a.activation = activation
      /\ validator'[v].listed = validator[v].listed
      /\ validator'[v].active_balance = validator[v].active_balance + delegated
      /\ \A w \in Validator \ {v} : validator'[w] = validator[w]
  BY <1>1, <1>3, RecordFields DEF ValidatorRecord, TypeOK
<1>5. s \notin Listed
  BY <1>1 DEF Keypair, FreshStake
<1> HIDE DEF a
<1>6. Balances(v, delegated)
  BY <1>1, <1>2, <1>4, BalanceChange
<1>7. /\ account'[s] = a /\ stake'[s] = NewStakeRecord(delegated, FALSE, TRUE)
      /\ OthersUntouched({s})
  BY <1>1, OneAccount
<1> QED
  BY <1>1, <1>4, <1>5, <1>6, <1>7 DEF Enters

-----------------------------------------------------------------------------
(* The instructions that recount an account.                               *)

(* update_active, once the delinquent upgrade is over                      *)
LEMMA UpdateActiveRecounts ==
  ASSUME TypeOK, Upgraded, NEW s \in Stake, UpdateActive(s)
  PROVE  \E amount \in Nat : Recounts(s, amount)
<1> DEFINE v       == Voter(s)
           amount  == account[s].delegated
           rewards == Monus(amount, Recorded(s))
           slashed == Monus(Recorded(s), amount)
<1>1. /\ s \in Listed /\ v \in Validator /\ validator[v].listed
      /\ account[s].activation \in {"activating", "active"}
      /\ ~Is(s, "Deactivating")
      /\ account' = [account EXCEPT ![s].extra = 0]
      /\ stake' = [stake EXCEPT ![s].last_update_delegated_lamports = amount,
                                ![s].last_update_status = "Active"]
      /\ total_active_balance' = total_active_balance + rewards - slashed
      /\ NoCooling
  BY DEF UpdateActive, Begin, NoCooling, clockVars
<1>2. delinquent_upgrader.stage = "Done" /\ ~Is(s, "Unknown")
  BY DEF Upgraded, UpgradeDone
<1>3. PICK d : validator' = [validator EXCEPT
                 ![v].active_balance = @ + rewards - slashed,
                 ![v].delinquent_upgrader_active_balance = d]
  BY DEF UpdateActive
<1>4. /\ account[s] \in Account /\ stake[s] \in StakeRecord
      /\ amount \in Nat /\ Recorded(s) \in Nat
      /\ validator[v] \in ValidatorRecord /\ validator[v].active_balance \in Nat
      /\ total_active_balance \in Nat
  BY <1>1, RecordFields
<1>5. Is(s, "Active")
  BY <1>1, <1>2, <1>4 DEF Is, Listed, StakeRecord, StakeStatus
<1>6. /\ validator'[v].listed = validator[v].listed
      /\ validator'[v].active_balance = validator[v].active_balance + rewards - slashed
      /\ \A w \in Validator \ {v} : validator'[w] = validator[w]
  BY <1>1, <1>3, <1>4 DEF ValidatorRecord, TypeOK
<1> DEFINE a == [account[s] EXCEPT !.extra = 0]
           r == [stake[s] EXCEPT !.last_update_delegated_lamports = amount,
                                 !.last_update_status = "Active"]
<1>7. /\ a.voter = account[s].voter /\ a.delegated = amount
      /\ a.activation = account[s].activation
  BY <1>4 DEF Account
<1>8. r = [stake[s] EXCEPT !.last_update_delegated_lamports = amount]
  BY <1>4, <1>5 DEF StakeRecord, Is
<1>9. account' = [account EXCEPT ![s] = a] /\ stake' = [stake EXCEPT ![s] = r]
  BY <1>1 DEF TypeOK
<1> HIDE DEF a, r
<1>10. account'[s] = a /\ stake'[s] = r /\ OthersUntouched({s})
  BY <1>9, OneAccount
<1>11. rewards - slashed = amount - Recorded(s)
  <2> HIDE DEF amount
  <2> QED
    BY <1>4 DEF Monus
<1>12. rewards \in Int /\ slashed \in Int
  <2> HIDE DEF amount
  <2> QED
    BY <1>4 DEF Monus
<1> HIDE DEF amount, rewards, slashed, v
<1>13. Balances(v, amount - Recorded(s))
  <2>1. /\ validator'[v].active_balance = validator[v].active_balance + (amount - Recorded(s))
        /\ total_active_balance' = total_active_balance + (amount - Recorded(s))
    BY <1>1, <1>4, <1>6, <1>11, <1>12
  <2> QED
    BY <2>1, <1>1, <1>6, BalanceChange
<1> QED
  BY <1>1, <1>4, <1>5, <1>7, <1>8, <1>10, <1>13 DEF Recounts, amount, v

(* withdraw_stake_account                                                  *)
LEMMA WithdrawStakeAccountRecounts ==
  ASSUME TypeOK, NEW s \in Stake, NEW msol_amount \in MsolAmounts,
         WithdrawStakeAccount(s, msol_amount)
  PROVE  \E amount \in Nat : Recounts(s, amount)
<1>1. PICK split_lamports \in Nat :
        /\ account[s].delegated = Recorded(s)
        /\ Recorded(s) - split_lamports >= config.min_stake
        /\ account' = [account EXCEPT ![s].delegated = @ - split_lamports]
        /\ stake' = [stake EXCEPT ![s].last_update_delegated_lamports = @ - split_lamports]
        /\ validator' = [validator EXCEPT ![Voter(s)].active_balance = @ - split_lamports]
        /\ total_active_balance' = total_active_balance - split_lamports
        /\ UNCHANGED <<clockVars, coolingVars, moveVars>>
  BY WithdrawStakeAccountEffect
<1>2. /\ Voter(s) \in Validator /\ validator[Voter(s)].listed /\ Is(s, "Active")
      /\ account[s].activation \in {"activating", "active"}
  BY DEF WithdrawStakeAccount, Unstakable, CanDeactivate
<1> DEFINE v      == Voter(s)
           amount == Recorded(s) - split_lamports
           a == [account[s] EXCEPT !.delegated = @ - split_lamports]
           r == [stake[s] EXCEPT !.last_update_delegated_lamports = @ - split_lamports]
<1>3. /\ account[s] \in Account /\ stake[s] \in StakeRecord
      /\ Recorded(s) \in Nat /\ config.min_stake \in Nat
      /\ validator[v] \in ValidatorRecord /\ validator[v].active_balance \in Nat
      /\ total_active_balance \in Nat
  BY <1>2, RecordFields DEF TypeOK, Config
<1>4. amount \in Nat /\ amount >= config.min_stake
  BY <1>1, <1>3
<1>5. /\ a.voter = account[s].voter /\ a.delegated = amount
      /\ a.activation = account[s].activation
      /\ r = [stake[s] EXCEPT !.last_update_delegated_lamports = amount]
  BY <1>1, <1>3 DEF Account, StakeRecord, Recorded
<1>6. account' = [account EXCEPT ![s] = a] /\ stake' = [stake EXCEPT ![s] = r]
  BY <1>1 DEF TypeOK
<1>7. /\ validator'[v].listed = validator[v].listed
      /\ validator'[v].active_balance = validator[v].active_balance - split_lamports
      /\ \A w \in Validator \ {v} : validator'[w] = validator[w]
  BY <1>1, <1>2, <1>3 DEF ValidatorRecord, TypeOK
<1> HIDE DEF a, r
<1>8. account'[s] = a /\ stake'[s] = r /\ OthersUntouched({s})
  BY <1>6, OneAccount
<1>9. /\ validator'[v].active_balance = validator[v].active_balance + (amount - Recorded(s))
      /\ total_active_balance' = total_active_balance + (amount - Recorded(s))
  BY <1>1, <1>3, <1>7
<1> HIDE DEF amount
<1>10. Balances(v, amount - Recorded(s))
  <2> HIDE DEF v
  <2>1. v \in Validator /\ validator[v].listed
    BY <1>2 DEF v
  <2> QED
    BY <2>1, <1>7, <1>9, BalanceChange
<1> QED
  BY <1>1, <1>2, <1>4, <1>5, <1>8, <1>10 DEF Recounts, NoCooling, clockVars

-----------------------------------------------------------------------------
(* The instructions that start to cool down stake.                         *)

(* A whole account.                                                        *)
LEMMA DeactivateWholeCools ==
  ASSUME TypeOK, NEW s \in Stake, NEW is_emergency \in BOOLEAN,
         Unstakable(s), DeactivateWhole(s, is_emergency),
         Balances(Voter(s), -Recorded(s)), Cooling(is_emergency, Recorded(s))
  PROVE  Cools(s, is_emergency)
<1> DEFINE a == [account[s] EXCEPT !.activation = DeactivatedFrom(@)]
           r == [stake[s] EXCEPT !.last_update_status = "Deactivating",
                                 !.is_emergency_unstaking = is_emergency]
<1>1. account[s] \in Account
  BY RecordFields
<1>2. account' = [account EXCEPT ![s] = a] /\ stake' = [stake EXCEPT ![s] = r]
  BY DEF DeactivateWhole, TypeOK
<1>3. /\ a.voter = account[s].voter /\ a.delegated = account[s].delegated
      /\ a.activation \in CoolingActivation
  BY <1>1 DEF Account, DeactivatedFrom, CoolingActivation
<1> HIDE DEF a
<1>4. account'[s] = a /\ stake'[s] = r /\ OthersUntouched({s})
  BY <1>2, OneAccount
<1> QED
  BY <1>3, <1>4 DEF Cools

(* A part of an account.                                                   *)
LEMMA DeactivateSplitCools ==
  ASSUME TypeOK, NEW s \in Stake, NEW new \in Stake, NEW amount \in Nat,
         NEW is_emergency \in BOOLEAN,
         Unstakable(s), DeactivateSplit(s, new, amount, is_emergency),
         Recorded(s) - amount >= config.min_stake,
         Balances(Voter(s), -amount), Cooling(is_emergency, amount)
  PROVE  CoolsPart(s, new, amount, is_emergency)
<1> DEFINE a == [account[s] EXCEPT !.delegated = @ - amount]
           b == [activation |-> DeactivatedFrom(account[s].activation),
                 voter |-> Voter(s), delegated |-> amount, extra |-> 0]
           r == [stake[s] EXCEPT !.last_update_delegated_lamports = @ - amount]
           q == NewStakeRecord(amount, is_emergency, FALSE)
<1>1. new \notin Listed /\ s \in Listed
  BY DEF DeactivateSplit, Keypair, FreshStake, Unstakable, Is, Listed
<1>2. /\ account' = [account EXCEPT ![s] = a, ![new] = b]
      /\ stake' = [stake EXCEPT ![s] = r, ![new] = q]
  BY DEF DeactivateSplit, TypeOK
<1>3. /\ b.voter = account[s].voter /\ b.delegated = amount
      /\ b.activation \in CoolingActivation
  BY DEF Voter, DeactivatedFrom, CoolingActivation
<1> HIDE DEF b
<1>4. /\ account'[s] = a /\ account'[new] = b /\ stake'[s] = r /\ stake'[new] = q
      /\ OthersUntouched({s, new})
  <2> HIDE DEF a, r, q
  <2> QED
    BY <1>1, <1>2, TwoAccounts
<1> QED
  BY <1>1, <1>3, <1>4 DEF CoolsPart

(* deactivate_stake: what remains of an account that is split is at least  *)
(* twice min_stake.                                                        *)
LEMMA DeactivateStakeCools ==
  ASSUME TypeOK, NEW s \in Stake, NEW new \in Stake, DeactivateStake(s, new)
  PROVE  \/ Cools(s, FALSE)
         \/ \E amount \in Nat : CoolsPart(s, new, amount, FALSE)
<1> DEFINE v      == Voter(s)
           over   == UnstakeFromValidator(v, -StakeDelta)
           target == Monus(Recorded(s), Lesser(over, -StakeDelta))
           whole  == TooSmallToKeep(target)
           amount == IF whole THEN Recorded(s) ELSE Recorded(s) - target
<1>1. /\ Unstakable(s) /\ StakeDelta < 0 /\ v \in Validator /\ validator[v].listed
      /\ IF whole THEN DeactivateWhole(s, FALSE) ELSE DeactivateSplit(s, new, amount, FALSE)
      /\ CoolDownForTickets(v, amount, whole)
      /\ UNCHANGED <<emergency_cooling_down, moveVars, clockVars>>
  BY DEF DeactivateStake, Unstakable
<1>2. /\ Recorded(s) \in Nat /\ validator[v] \in ValidatorRecord
      /\ validator[v].active_balance \in Nat /\ total_active_balance \in Nat
      /\ delayed_unstake_cooling_down \in Nat
      /\ config.min_stake \in Nat
  BY <1>1, RecordFields DEF TypeOK, Config
<1>3. target \in Nat /\ target <= Recorded(s)
  <2>1. -StakeDelta \in Nat
    BY <1>1, TotalsType
  <2> DEFINE share == ValidatorStakeTarget(v, Monus(total_active_balance, -StakeDelta))
  <2>2. Monus(total_active_balance, -StakeDelta) \in Nat
    BY <1>2, <2>1 DEF Monus
  <2>3. share \in Nat
    BY <1>1, <2>2, StakeTargetType
  <2>4. over \in Nat
    <3> HIDE DEF share
    <3>1. Monus(validator[v].active_balance, share) \in Nat
      BY <1>2, <2>3 DEF Monus
    <3> QED
      BY <3>1 DEF UnstakeFromValidator, share
  <2> HIDE DEF over
  <2>5. Lesser(over, -StakeDelta) \in Nat
    BY <2>1, <2>4 DEF Lesser
  <2> QED
    BY <1>2, <2>5 DEF Monus
<1>4. ~whole => target >= config.min_stake
  <2> HIDE DEF target
  <2> QED
    BY <1>2, <1>3 DEF TooSmallToKeep
<1> HIDE DEF target
<1>5. /\ amount \in Nat /\ amount <= Recorded(s)
      /\ whole => amount = Recorded(s)
      /\ ~whole => Recorded(s) - amount >= config.min_stake
  BY <1>2, <1>3, <1>4
<1> HIDE DEF amount, whole
<1>6. Balances(v, -amount)
  <2> DEFINE d == IF whole THEN validator[v].last_stake_delta_epoch ELSE epoch
  <2>1. validator' = [validator EXCEPT ![v].active_balance = @ - amount,
                                       ![v].last_stake_delta_epoch = d]
    BY <1>1 DEF CoolDownForTickets
  <2> HIDE DEF d
  <2>2. /\ validator'[v].listed = validator[v].listed
        /\ validator'[v].active_balance = validator[v].active_balance - amount
        /\ \A w \in Validator \ {v} : validator'[w] = validator[w]
    BY <1>1, <1>2, <2>1 DEF ValidatorRecord, TypeOK
  <2>3. total_active_balance' = total_active_balance - amount
    BY <1>1 DEF CoolDownForTickets
  <2>4. /\ validator'[v].active_balance = validator[v].active_balance + (-amount)
        /\ total_active_balance' = total_active_balance + (-amount)
    BY <1>2, <1>5, <2>2, <2>3
  <2> HIDE DEF v
  <2> QED
    BY <1>1, <2>2, <2>4, BalanceChange
<1>7. Cooling(FALSE, amount)
  BY <1>1 DEF Cooling, CoolDownForTickets, clockVars
<1>8. CASE whole
  BY <1>1, <1>5, <1>6, <1>7, <1>8, DeactivateWholeCools
<1>9. CASE ~whole
  BY <1>1, <1>5, <1>6, <1>7, <1>9, DeactivateSplitCools
<1> QED
  BY <1>8, <1>9

(* What both unstake instructions of the manager do to the books.          *)
LEMMA MoveToEmergencyCools ==
  ASSUME TypeOK, NEW v \in Validator, NEW amount \in Nat, validator[v].listed,
         MoveToEmergency(v, amount)
  PROVE  Balances(v, -amount) /\ Cooling(TRUE, amount)
<1>1. /\ validator' = [validator EXCEPT ![v].active_balance = @ - amount]
      /\ total_active_balance' = total_active_balance - amount
      /\ emergency_cooling_down' = emergency_cooling_down + amount
      /\ OnStakeMoved(amount)
      /\ UNCHANGED <<clockVars, delayed_unstake_cooling_down>>
  BY DEF MoveToEmergency
<1>2. /\ validator[v] \in ValidatorRecord /\ validator[v].active_balance \in Nat
      /\ total_active_balance \in Nat
  BY RecordFields
<1>3. /\ validator'[v].listed = validator[v].listed
      /\ validator'[v].active_balance = validator[v].active_balance - amount
      /\ \A w \in Validator \ {v} : validator'[w] = validator[w]
  BY <1>1, <1>2 DEF ValidatorRecord, TypeOK
<1>4. /\ validator'[v].active_balance = validator[v].active_balance + (-amount)
      /\ total_active_balance' = total_active_balance + (-amount)
  BY <1>1, <1>2, <1>3
<1>5. Balances(v, -amount)
  BY <1>3, <1>4, BalanceChange
<1>6. Cooling(TRUE, amount)
  BY <1>1 DEF Cooling, clockVars
<1> QED
  BY <1>5, <1>6

(* emergency_unstake                                                       *)
LEMMA EmergencyUnstakeCools ==
  ASSUME TypeOK, NEW s \in Stake, EmergencyUnstake(s)
  PROVE  Cools(s, TRUE)
<1>1. /\ Unstakable(s) /\ Voter(s) \in Validator /\ validator[Voter(s)].listed
      /\ DeactivateWhole(s, TRUE) /\ MoveToEmergency(Voter(s), Recorded(s))
  BY DEF EmergencyUnstake, Unstakable
<1> QED
  BY <1>1, RecordFields, MoveToEmergencyCools, DeactivateWholeCools

(* partial_unstake: at least min_stake remains of an account that is split.*)
LEMMA PartialUnstakeCools ==
  ASSUME TypeOK, NEW s \in Stake, NEW new \in Stake, NEW desired \in UnstakeAmounts,
         PartialUnstake(s, new, desired)
  PROVE  \/ Cools(s, TRUE)
         \/ \E amount \in Nat : CoolsPart(s, new, amount, TRUE)
<1> DEFINE v == Voter(s)
           amount == Lesser(desired, AboveTarget(v))
<1>1. /\ Unstakable(s) /\ v \in Validator /\ validator[v].listed
      /\ total_active_balance + StakeDelta >= 0
  BY DEF PartialUnstake, Unstakable
<1>2. /\ Recorded(s) \in Nat /\ validator[v].active_balance \in Nat
      /\ total_active_balance \in Nat /\ config.min_stake \in Nat \ {0}
  BY <1>1, RecordFields DEF TypeOK, Config
<1>3. amount \in Nat
  <2>1. total_active_balance + StakeDelta \in Nat
    BY <1>1, <1>2, TotalsType
  <2> DEFINE share == ValidatorStakeTarget(v, total_active_balance + StakeDelta)
  <2>2. share \in Nat
    BY <1>1, <2>1, StakeTargetType
  <2> HIDE DEF share
  <2>3. Monus(validator[v].active_balance, share) \in Nat
    BY <1>2, <2>2 DEF Monus
  <2>4. AboveTarget(v) \in Nat
    BY <2>3 DEF AboveTarget, share
  <2>5. desired \in Nat
    BY ManagementAssumption
  <2> QED
    BY <2>4, <2>5 DEF Lesser
<1>4. CASE UnstakesWhole(s, amount)
  <2>1. DeactivateWhole(s, TRUE) /\ MoveToEmergency(v, Recorded(s))
    BY <1>4 DEF PartialUnstake
  <2> QED
    BY <2>1, <1>1, <1>2, MoveToEmergencyCools, DeactivateWholeCools
<1>5. CASE ~UnstakesWhole(s, amount)
  <2>1. DeactivateSplit(s, new, amount, TRUE) /\ MoveToEmergency(v, amount)
    BY <1>5 DEF PartialUnstake
  <2> HIDE DEF amount
  <2>2. Recorded(s) - amount >= config.min_stake
    BY <1>2, <1>3, <1>5 DEF UnstakesWhole, Monus
  <2> QED
    BY <2>1, <2>2, <1>1, <1>3, MoveToEmergencyCools, DeactivateSplitCools
<1> QED
  BY <1>4, <1>5

-----------------------------------------------------------------------------
(* The instructions that take a record out.                                *)

(* update_deactivated, once the delinquent upgrade is over                 *)
LEMMA UpdateDeactivatedLeaves ==
  ASSUME TypeOK, Upgraded, NEW s \in Stake, UpdateDeactivated(s)
  PROVE  Leaves(s)
<1> DEFINE v         == Voter(s)
           detected  == IF Is(s, "Active") THEN Recorded(s) ELSE 0
           emergency == stake[s].is_emergency_unstaking \/ Is(s, "Active")
           cooling   == IF emergency THEN emergency_cooling_down + detected
                                     ELSE delayed_unstake_cooling_down
           released  == Released(s, cooling)
<1>1. /\ s \in Listed /\ v \in Validator /\ validator[v].listed
      /\ account[s].activation = "inactive"
      /\ Is(s, "Active") => ~stake[s].is_emergency_unstaking
      /\ validator' = [validator EXCEPT ![v].active_balance = @ - detected]
      /\ total_active_balance' = total_active_balance - detected - (Recorded(s) - released)
      /\ IF emergency
         THEN /\ emergency_cooling_down' = cooling - released
              /\ UNCHANGED delayed_unstake_cooling_down
         ELSE /\ delayed_unstake_cooling_down' = cooling - released
              /\ UNCHANGED emergency_cooling_down
      /\ account' = [account EXCEPT ![s] = NoAccount]
      /\ stake' = [stake EXCEPT ![s] = NoRecord]
      /\ UNCHANGED <<moveVars, epoch>>
  BY DEF UpdateDeactivated, Begin, clockVars
<1>2. released = Recorded(s)
  <2> HIDE DEF cooling
  <2> QED
    BY DEF Released, Upgraded, UpgradeDone
<1>3. /\ Recorded(s) \in Nat
      /\ validator[v] \in ValidatorRecord /\ validator[v].active_balance \in Nat
      /\ total_active_balance \in Nat
      /\ delayed_unstake_cooling_down \in Nat /\ emergency_cooling_down \in Nat
  BY <1>1, RecordFields
<1> HIDE DEF released
<1>4. account'[s] = NoAccount /\ stake'[s] = NoRecord /\ OthersUntouched({s})
  BY <1>1, OneAccount
<1>5. ASSUME NEW lamports \in Int, lamports + detected = 0
      PROVE  Balances(v, lamports)
  <2>1. detected \in Nat
    BY <1>3
  <2> HIDE DEF detected
  <2>2. /\ validator'[v].listed = validator[v].listed
        /\ validator'[v].active_balance = validator[v].active_balance - detected
        /\ \A w \in Validator \ {v} : validator'[w] = validator[w]
    BY <1>1, <1>3 DEF ValidatorRecord, TypeOK
  <2>3. total_active_balance' = total_active_balance - detected
    BY <1>1, <1>2, <1>3, <2>1
  <2> HIDE DEF v
  <2>4. /\ validator'[v].active_balance = validator[v].active_balance + lamports
        /\ total_active_balance' = total_active_balance + lamports
    BY <1>3, <1>5, <2>1, <2>2, <2>3
  <2> QED
    BY <1>1, <2>2, <2>4, BalanceChange
<1> HIDE DEF detected, emergency, cooling
<1>6. CASE Is(s, "Active")
  <2>1. emergency /\ detected = Recorded(s)
    BY <1>6 DEF emergency, detected
  <2>2. cooling = emergency_cooling_down + Recorded(s)
    BY <2>1 DEF cooling
  <2>3. /\ emergency_cooling_down' = cooling - released
        /\ UNCHANGED delayed_unstake_cooling_down
    BY <1>1, <2>1, Zenon
  <2>4. UNCHANGED coolingVars
    BY <1>2, <1>3, <2>2, <2>3 DEF coolingVars
  <2>5. Balances(v, -Recorded(s))
    BY <1>3, <1>5, <2>1
  <2> QED
    BY <1>1, <1>4, <1>6, <2>4, <2>5, Zenon DEF Leaves
<1>7. CASE ~Is(s, "Active")
  <2>1. emergency <=> stake[s].is_emergency_unstaking
    BY <1>7, RecordFields DEF emergency, StakeRecord
  <2>2. detected = 0
    BY <1>7, Zenon DEF detected
  <2>3. Balances(v, 0)
    BY <1>5, <2>2
  <2>4. CASE emergency
    <3>1. cooling = emergency_cooling_down
      BY <1>3, <2>2, <2>4 DEF cooling
    <3>2. /\ emergency_cooling_down' = emergency_cooling_down - Recorded(s)
          /\ UNCHANGED delayed_unstake_cooling_down
      BY <1>1, <1>2, <2>4, <3>1, Zenon
    <3> QED
      BY <1>1, <1>4, <1>7, <2>1, <2>3, <2>4, <3>2, Zenon DEF Leaves
  <2>5. CASE ~emergency
    <3>1. cooling = delayed_unstake_cooling_down
      BY <2>5 DEF cooling
    <3>2. /\ delayed_unstake_cooling_down' = delayed_unstake_cooling_down - Recorded(s)
          /\ UNCHANGED emergency_cooling_down
      BY <1>1, <1>2, <2>5, <3>1, Zenon
    <3> QED
      BY <1>1, <1>4, <1>7, <2>1, <2>3, <2>5, <3>2, Zenon DEF Leaves
  <2> QED
    BY <2>4, <2>5
<1> QED
  BY <1>6, <1>7

(* merge_stakes: what it adds to the books is the source's rent, or nothing*)
LEMMA MergeStakesMerges ==
  ASSUME TypeOK, NEW v \in Validator, NEW source \in Stake, MergeStakes(v, source)
  PROVE  \E amount \in Nat : Merges(CanonicalStake[v], source, amount)
<1> DEFINE canonical == CanonicalStake[v]
           rent   == IF account[source].activation = "activating" THEN StakeRent ELSE 0
           merged == account[canonical].delegated + account[source].delegated + rent
           extra  == ExtraDelegated(canonical, source, merged)
<1>1. /\ canonical \in Stake /\ validator[v].listed /\ canonical # source
      /\ Is(canonical, "Active") /\ Is(source, "Active")
      /\ Voter(canonical) = v /\ Voter(source) = v
      /\ account[canonical].delegated = Recorded(canonical)
      /\ account[source].delegated = Recorded(source)
      /\ account[canonical].activation \in {"activating", "active"}
      /\ NoCooling
  BY CanonicalAssumption DEF MergeStakes, Updated, Tidy, CanDeactivate, NoCooling, clockVars
<1>2. /\ account' = [account EXCEPT ![canonical].delegated = merged, ![source] = NoAccount]
      /\ stake' = [stake EXCEPT ![canonical].last_update_delegated_lamports = merged,
                                ![source] = NoRecord]
      /\ validator' = [validator EXCEPT ![v].active_balance = @ + extra]
      /\ total_active_balance' = total_active_balance + extra
  BY DEF MergeStakes
<1>3. /\ Recorded(canonical) \in Nat /\ Recorded(source) \in Nat /\ rent \in Nat
      /\ validator[v] \in ValidatorRecord /\ validator[v].active_balance \in Nat
      /\ total_active_balance \in Nat
  BY <1>1, RecordFields, RentAssumption
<1> HIDE DEF canonical, rent
<1>4. /\ merged \in Nat /\ merged >= Recorded(canonical)
      /\ extra = merged - Recorded(canonical) - Recorded(source)
  BY <1>1, <1>3 DEF ExtraDelegated
<1> DEFINE a == [account[canonical] EXCEPT !.delegated = merged]
           r == [stake[canonical] EXCEPT !.last_update_delegated_lamports = merged]
<1>5. /\ account' = [account EXCEPT ![canonical] = a, ![source] = NoAccount]
      /\ stake' = [stake EXCEPT ![canonical] = r, ![source] = NoRecord]
  <2> HIDE DEF merged
  <2> QED
    BY <1>2, <1>1 DEF TypeOK
<1> HIDE DEF merged, extra
<1>6. /\ account'[canonical] = a /\ account'[source] = NoAccount
      /\ stake'[canonical] = r /\ stake'[source] = NoRecord
      /\ OthersUntouched({canonical, source})
  <2> HIDE DEF a, r
  <2> QED
    BY <1>1, <1>5, TwoAccounts
<1>7. Balances(v, merged - Recorded(canonical) - Recorded(source))
  <2>1. /\ validator'[v].listed = validator[v].listed
        /\ validator'[v].active_balance = validator[v].active_balance + extra
        /\ \A w \in Validator \ {v} : validator'[w] = validator[w]
    BY <1>2, <1>3 DEF ValidatorRecord, TypeOK
  <2>2. Balances(v, extra)
    BY <1>1, <1>2, <2>1, BalanceChange
  <2> QED
    BY <1>4, <2>2
<1>8. Merges(canonical, source, merged)
  BY <1>1, <1>4, <1>6, <1>7 DEF Merges
<1> QED
  BY <1>4, <1>8 DEF canonical

(* create_canonical_stake                                                  *)
LEMMA CreateCanonicalStakeRenames ==
  ASSUME TypeOK, NEW v \in Validator, NEW source \in Stake, CreateCanonicalStake(v, source)
  PROVE  Renames(CanonicalStake[v], source)
<1> DEFINE canonical == CanonicalStake[v]
           a == account[source]
           r == NewStakeRecord(account[source].delegated, FALSE, TRUE)
<1>1. /\ canonical \in Stake /\ canonical \notin Listed /\ source \in Listed
      /\ canonical # source
      /\ validator[v].listed /\ Voter(source) = v
      /\ account[source].delegated = Recorded(source)
      /\ account[source].activation \in {"activating", "active"}
      /\ account' = [account EXCEPT ![canonical] = a, ![source] = NoAccount]
      /\ stake' = [stake EXCEPT ![canonical] = r, ![source] = NoRecord]
      /\ NoCooling /\ UNCHANGED validatorVars
  BY CanonicalAssumption
     DEF CreateCanonicalStake, FreshStake, Tidy, Updated, CanDeactivate, NoCooling, clockVars
<1> HIDE DEF canonical, a, r
<1>2. /\ account'[canonical] = a /\ account'[source] = NoAccount
      /\ stake'[canonical] = r /\ stake'[source] = NoRecord
      /\ OthersUntouched({canonical, source})
  BY <1>1, TwoAccounts
<1>3. Balances(v, 0)
  BY <1>1, NoBalanceChange
<1> QED
  BY <1>1, <1>2, <1>3 DEF Renames, canonical, a, r

-----------------------------------------------------------------------------
(* ScoreBooks: the scores in the list and their total.                     *)

Score == [v \in Validator |-> validator[v].score]

\* The record of a listed validator may change, but for its score.
ScoresStay ==
  /\ UNCHANGED total_validator_score
  /\ \A v \in Validator :
       /\ validator'[v].score = validator[v].score
       /\ validator'[v].listed = validator[v].listed
       /\ ~validator[v].listed => validator'[v] = validator[v]

(* Scores that stay are still added up.                                    *)
LEMMA ScoresStayBooks == ScoreBooks /\ ScoresStay => ScoreBooks'
<1> SUFFICES ASSUME ScoreBooks, ScoresStay PROVE ScoreBooks'
  OBVIOUS
<1>1. Score' = Score
  BY DEF Score, ScoresStay
<1> QED
  BY <1>1 DEF ScoreBooks, ScoresStay, Score

(* Validators that stay as they are keep their scores.                     *)
LEMMA SameScoresStay ==
  ASSUME UNCHANGED <<validator, total_validator_score>> PROVE ScoresStay
BY DEF ScoresStay

(* The crank leaves the scores alone.                                      *)
LEMMA CrankScores == TypeOK /\ CrankStep => ScoresStay
<1> SUFFICES ASSUME TypeOK, CrankStep PROVE ScoresStay
  OBVIOUS
<1> USE DEF adminVars, validatorVars
<1>1. ASSUME NEW s \in Stake, UpdateActive(s) PROVE ScoresStay
  <2>1. /\ Voter(s) \in Validator /\ validator[Voter(s)].listed
        /\ UNCHANGED total_validator_score
    BY <1>1 DEF UpdateActive, Begin
  <2>2. PICK balance, counted :
          validator' = [validator EXCEPT ![Voter(s)].active_balance = balance,
                          ![Voter(s)].delinquent_upgrader_active_balance = counted]
    BY <1>1 DEF UpdateActive
  <2> QED
    BY <2>1, <2>2 DEF TypeOK, ValidatorRecord, ScoresStay
<1>2. ASSUME NEW s \in Stake, UpdateDeactivated(s) PROVE ScoresStay
  <2>1. /\ Voter(s) \in Validator /\ validator[Voter(s)].listed
        /\ UNCHANGED total_validator_score
    BY <1>2 DEF UpdateDeactivated, Begin
  <2>2. PICK balance : validator' = [validator EXCEPT ![Voter(s)].active_balance = balance]
    BY <1>2 DEF UpdateDeactivated
  <2> QED
    BY <2>1, <2>2 DEF TypeOK, ValidatorRecord, ScoresStay
<1>3. ASSUME NEW batch \in SUBSET Validator, FinalizeDelinquentUpgrade(batch) PROVE ScoresStay
  <2>1. /\ batch \subseteq ListedValidators
        /\ UNCHANGED total_validator_score
        /\ validator' = [v \in Validator |->
             IF v \in batch
             THEN [validator[v] EXCEPT
                     !.active_balance = validator[v].delinquent_upgrader_active_balance,
                     !.delinquent_upgrader_active_balance = 0]
             ELSE validator[v]]
    BY <1>3 DEF FinalizeDelinquentUpgrade
  <2> QED
    BY <2>1 DEF TypeOK, ValidatorRecord, ListedValidators, ScoresStay
<1>4. ASSUME NEW v \in Validator, NEW s \in Stake, StakeReserve(v, s) PROVE ScoresStay
  <2>1. validator[v].listed /\ UNCHANGED total_validator_score
    BY <1>4 DEF StakeReserve, CanStakeReserve
  <2>2. PICK balance, when :
          validator' = [validator EXCEPT ![v].active_balance = balance,
                                         ![v].last_stake_delta_epoch = when]
    BY <1>4 DEF StakeReserve
  <2> QED
    BY <2>1, <2>2 DEF TypeOK, ValidatorRecord, ScoresStay
<1>5. ASSUME NEW v \in Validator, SpendExtraRun(v) PROVE ScoresStay
  BY <1>5, SameScoresStay DEF SpendExtraRun
<1>6. ASSUME NEW s \in Stake, NEW new \in Stake, DeactivateStake(s, new) PROVE ScoresStay
  <2>1. /\ Voter(s) \in Validator /\ validator[Voter(s)].listed
        /\ UNCHANGED total_validator_score
    BY <1>6 DEF DeactivateStake, Unstakable
  <2>2. PICK balance, when :
          validator' = [validator EXCEPT ![Voter(s)].active_balance = balance,
                                         ![Voter(s)].last_stake_delta_epoch = when]
    BY <1>6 DEF DeactivateStake, CoolDownForTickets
  <2> QED
    BY <2>1, <2>2 DEF TypeOK, ValidatorRecord, ScoresStay
<1>7. ASSUME NEW v \in Validator, NEW source \in Stake, MergeStakes(v, source) PROVE ScoresStay
  <2>1. validator[v].listed /\ UNCHANGED total_validator_score
    BY <1>7 DEF MergeStakes
  <2>2. PICK balance : validator' = [validator EXCEPT ![v].active_balance = balance]
    BY <1>7 DEF MergeStakes
  <2> QED
    BY <2>1, <2>2 DEF TypeOK, ValidatorRecord, ScoresStay
<1>8. ASSUME NEW v \in Validator, NEW source \in Stake, CreateCanonicalStake(v, source)
      PROVE ScoresStay
  BY <1>8, SameScoresStay DEF CreateCanonicalStake
<1> QED
  BY <1>1, <1>2, <1>3, <1>4, <1>5, <1>6, <1>7, <1>8 DEF CrankStep

(* An entry of the scores changes, and the total by as much.               *)
LEMMA OneScoreChanges ==
  ASSUME TypeOK, ScoreBooks, NEW v \in Validator, NEW r \in ValidatorRecord,
         validator' = [validator EXCEPT ![v] = r],
         total_validator_score' = total_validator_score - validator[v].score + r.score,
         r.listed \/ r = Unlisted
  PROVE  ScoreBooks'
<1>1. /\ Score \in [Validator -> Nat] /\ Score' \in [Validator -> Nat]
      /\ \A w \in Validator \ {v} : Score'[w] = Score[w]
      /\ Score[v] = validator[v].score /\ Score'[v] = r.score
  BY DEF Score, TypeOK, ValidatorRecord
<1>2. Sum(Score') - Score'[v] = Sum(Score) - Score[v]
  BY <1>1, ValidatorAssumption, SumUpdate
<1>3. Sum(Score') \in Nat /\ Sum(Score) \in Nat
  BY <1>1, ValidatorAssumption, SumType
<1>4. total_validator_score = Sum(Score)
  BY DEF ScoreBooks, Score
<1>5. total_validator_score' = Sum(Score')
  BY <1>1, <1>2, <1>3, <1>4
<1>6. \A w \in Validator : ~validator'[w].listed => validator'[w] = Unlisted
  BY DEF ScoreBooks, TypeOK
<1> QED
  BY <1>5, <1>6 DEF ScoreBooks, Score

(* The manager's instructions.                                             *)
LEMMA ManagerScores == TypeOK /\ ScoreBooks /\ ManagerStep => ScoreBooks'
<1> SUFFICES ASSUME TypeOK, ScoreBooks, ManagerStep PROVE ScoreBooks'
  OBVIOUS
<1> USE DEF adminVars, validatorVars
<1>1. ASSUME NEW v \in Validator, NEW score \in Scores, AddValidator(v, score)
      PROVE  ScoreBooks'
  <2>1. /\ ~validator[v].listed
        /\ total_validator_score' = total_validator_score + score
        /\ validator' = [validator EXCEPT ![v] = NewValidatorRecord(score)]
    BY <1>1 DEF AddValidator, ChangeValidators
  <2>2. score \in Nat /\ validator[v].score = 0 /\ total_validator_score \in Nat
    BY <2>1, ManagementAssumption DEF ScoreBooks, Unlisted, NewValidatorRecord, TypeOK
  <2>3. /\ NewValidatorRecord(score) \in ValidatorRecord
        /\ NewValidatorRecord(score).score = score /\ NewValidatorRecord(score).listed
    BY <2>2 DEF NewValidatorRecord, ValidatorRecord
  <2>4. total_validator_score' = total_validator_score - validator[v].score
                                   + NewValidatorRecord(score).score
    BY <2>1, <2>2, <2>3
  <2> QED
    BY <2>1, <2>3, <2>4, OneScoreChanges
<1>2. ASSUME NEW v \in Validator, RemoveValidator(v) PROVE ScoreBooks'
  <2>1. /\ total_validator_score' = total_validator_score - validator[v].score
        /\ validator' = [validator EXCEPT ![v] = Unlisted]
    BY <1>2 DEF RemoveValidator, ChangeValidators
  <2>2. /\ Unlisted \in ValidatorRecord /\ Unlisted.score = 0
        /\ validator[v].score \in Nat /\ total_validator_score \in Nat
    BY EmptySlotType DEF Unlisted, NewValidatorRecord, TypeOK, ValidatorRecord
  <2>3. total_validator_score' = total_validator_score - validator[v].score + Unlisted.score
    BY <2>1, <2>2
  <2> QED
    BY <2>1, <2>2, <2>3, OneScoreChanges
<1>3. ASSUME NEW v \in Validator, NEW score \in Scores, SetValidatorScore(v, score)
      PROVE  ScoreBooks'
  <2> DEFINE r == [validator[v] EXCEPT !.score = score]
  <2>1. /\ total_validator_score' = total_validator_score - validator[v].score + score
        /\ validator' = [validator EXCEPT ![v] = r] /\ validator[v].listed
    BY <1>3 DEF SetValidatorScore, ChangeValidators, ScoreReplaced
  <2>2. r \in ValidatorRecord /\ r.score = score /\ r.listed
    BY <2>1, ManagementAssumption DEF TypeOK, ValidatorRecord
  <2> HIDE DEF r
  <2> QED
    BY <2>1, <2>2, OneScoreChanges
<1>4. ASSUME NEW extra_runs \in ExtraRuns, ConfigValidatorSystem(extra_runs)
      PROVE  ScoreBooks'
  BY <1>4, SameScoresStay, ScoresStayBooks DEF ConfigValidatorSystem
<1>5. ASSUME NEW v \in Validator, NEW amount, validator[v].listed, MoveToEmergency(v, amount)
      PROVE  ScoreBooks'
  <2>1. /\ validator' = [validator EXCEPT ![v].active_balance = @ - amount]
        /\ UNCHANGED total_validator_score
    BY <1>5 DEF MoveToEmergency
  <2>2. ScoresStay
    BY <1>5, <2>1 DEF TypeOK, ValidatorRecord, ScoresStay
  <2> QED
    BY <2>2, ScoresStayBooks
<1>6. ASSUME NEW s \in Stake, NEW new, NEW amount,
             EmergencyUnstake(s) \/ PartialUnstake(s, new, amount)
      PROVE  ScoreBooks'
  BY <1>5, <1>6 DEF EmergencyUnstake, PartialUnstake, Unstakable
<1> QED
  BY <1>1, <1>2, <1>3, <1>4, <1>6 DEF ManagerStep

(* The other steps leave the scores alone.                                 *)
LEMMA OtherScores ==
  TypeOK /\ (Environment \/ UserStep \/ PoolStep \/ AdminStep \/ UNCHANGED vars) => ScoresStay
<1> SUFFICES ASSUME TypeOK, Environment \/ UserStep \/ PoolStep \/ AdminStep \/ UNCHANGED vars
             PROVE  ScoresStay
  OBVIOUS
<1> USE SameScoresStay DEF adminVars, validatorVars
<1>1. CASE Environment
  <2>1. Tick \/ NewEpoch => ScoresStay
    BY DEF Tick, NewEpoch
  <2>2. ASSUME NEW s \in Stake, NEW lamports
        PROVE  DeactivateDelinquent(s) \/ Tip(s, lamports) \/ Slash(s, lamports) => ScoresStay
    BY DEF DeactivateDelinquent, Tip, Slash, ChangeAccount
  <2>3. ASSUME NEW lamports
        PROVE  Donate(lamports) \/ BurnMsol(lamports) => ScoresStay
    BY DEF Donate, BurnMsol
  <2> QED
    BY <1>1, <2>1, <2>2, <2>3 DEF Environment, ClusterStep, OutsideStep
<1>2. CASE UserStep
  <2>1. ASSUME NEW lamports \in DepositAmounts, Deposit(lamports) PROVE ScoresStay
    BY <2>1, DepositEffect
  <2>2. ASSUME NEW s \in Stake, NEW v \in Validator, NEW delegated, NEW activation,
               DepositStakeAccount(s, v, delegated, activation)
        PROVE  ScoresStay
    <3>1. validator[v].listed /\ UNCHANGED total_validator_score
      BY <2>2 DEF DepositStakeAccount
    <3>2. PICK balance, counted :
            validator' = [validator EXCEPT ![v].active_balance = balance,
                                           ![v].delinquent_upgrader_active_balance = counted]
      BY <2>2 DEF DepositStakeAccount, CountDeposited
    <3> QED
      BY <3>1, <3>2 DEF TypeOK, ValidatorRecord, ScoresStay
  <2>3. ASSUME NEW s \in Stake, NEW msol_amount, WithdrawStakeAccount(s, msol_amount)
        PROVE  ScoresStay
    <3>1. /\ Voter(s) \in Validator /\ validator[Voter(s)].listed
          /\ UNCHANGED total_validator_score
      BY <2>3 DEF WithdrawStakeAccount, Unstakable
    <3>2. PICK balance : validator' = [validator EXCEPT ![Voter(s)].active_balance = balance]
      BY <2>3 DEF WithdrawStakeAccount, SplitToUser
    <3> QED
      BY <3>1, <3>2 DEF TypeOK, ValidatorRecord, ScoresStay
  <2>4. ASSUME NEW t \in Ticket, NEW msol_amount, OrderUnstake(t, msol_amount) \/ Claim(t)
        PROVE  ScoresStay
    BY <2>4 DEF OrderUnstake, Claim
  <2> QED
    BY <1>2, <2>1, <2>2, <2>3, <2>4 DEF UserStep
<1>3. CASE PoolStep
  BY <1>3 DEF PoolStep, AddLiquidity, RemoveLiquidity, LiquidUnstake, BurnLp, DonateSolLeg,
              stakingVars
<1>4. CASE AdminStep
  BY <1>4 DEF AdminStep, ConfigMarinade, ConfigLp, Pause, Resume, adminUnchanged
<1>5. CASE UNCHANGED vars
  BY <1>5 DEF vars
<1> QED
  BY <1>1, <1>2, <1>3, <1>4, <1>5

(* A step leaves total_validator_score the sum of the scores.              *)
LEMMA ScoreBooksStep == TypeOK /\ ScoreBooks /\ [Next]_vars => ScoreBooks'
BY CrankScores, ManagerScores, OtherScores, ScoresStayBooks DEF Next

(* The scores in the list add up to total_validator_score, which every     *)
(* validator's share is a fraction of; whoever is not in the list has no   *)
(* score, no stake and no flag left.                                       *)
THEOREM ScoreBooksHold == Spec => []ScoreBooks
<1>1. Init => ScoreBooks
  <2> SUFFICES ASSUME Init PROVE ScoreBooks
    OBVIOUS
  <2>1. Score \in [Validator -> Nat] /\ \A v \in Validator : Score[v] = 0
    BY DEF Init, Score, Unlisted, NewValidatorRecord
  <2>2. Sum(Score) = 0
    BY <2>1, SumZero
  <2> QED
    BY <2>2 DEF Init, ScoreBooks, Score
<1> QED
  BY <1>1, ScoreBooksStep, TypeCorrect, PTL DEF Spec

-----------------------------------------------------------------------------
(* The classification.                                                     *)

(* A record of the validator list is made, taken out or given a score.     *)
LEMMA ValidatorRests ==
  ASSUME TypeOK, NEW v \in Validator, NEW r, ChangeValidators(v, r),
         r.active_balance = validator[v].active_balance,
         r.listed \/ validator[v].active_balance = 0
  PROVE  Rests
<1>1. /\ validator' = [validator EXCEPT ![v] = r]
      /\ UNCHANGED <<account, stake, total_active_balance, coolingVars, moveVars, epoch>>
  BY DEF ChangeValidators, clockVars, stakeVars
<1>2. \A w \in Validator :
        /\ validator'[w].active_balance = validator[w].active_balance
        /\ validator[w].listed /\ ~validator'[w].listed => validator[w].active_balance = 0
  BY <1>1 DEF TypeOK
<1>3. \A s \in Stake : Untouched(s)
  BY <1>1, SameIsUntouched
<1> QED
  BY <1>1, <1>2, <1>3 DEF Rests, OthersUntouched

(* The crank's instructions are changes.                                   *)
LEMMA CrankChange == TypeOK /\ Upgraded /\ CrankStep => Change
<1> SUFFICES ASSUME TypeOK, Upgraded, CrankStep PROVE Change
  OBVIOUS
<1>1. ASSUME NEW batch \in SUBSET Validator, FinalizeDelinquentUpgrade(batch) PROVE FALSE
  BY <1>1 DEF FinalizeDelinquentUpgrade, Upgraded, UpgradeDone
<1>2. ASSUME NEW v \in Validator, SpendExtraRun(v) PROVE Rests
  BY <1>2, StillRests DEF SpendExtraRun, clockVars
<1>3. \A v \in Validator : CanonicalStake[v] \in Stake
  BY CanonicalAssumption
<1>4. ASSUME NEW s \in Stake, UpdateActive(s) PROVE Change
  BY <1>4, UpdateActiveRecounts DEF Change
<1>5. ASSUME NEW s \in Stake, UpdateDeactivated(s) PROVE Change
  BY <1>5, UpdateDeactivatedLeaves DEF Change
<1>6. ASSUME NEW v \in Validator, NEW s \in Stake, StakeReserve(v, s) PROVE Change
  BY <1>6, StakeReserveEnters DEF Change
<1>7. ASSUME NEW s \in Stake, NEW new \in Stake, DeactivateStake(s, new) PROVE Change
  BY <1>7, DeactivateStakeCools DEF Change
<1>8. ASSUME NEW v \in Validator, NEW source \in Stake, MergeStakes(v, source) PROVE Change
  BY <1>3, <1>8, MergeStakesMerges DEF Change
<1>9. ASSUME NEW v \in Validator, NEW source \in Stake, CreateCanonicalStake(v, source)
      PROVE  Change
  BY <1>3, <1>9, CreateCanonicalStakeRenames DEF Change
<1> QED
  BY <1>1, <1>2, <1>4, <1>5, <1>6, <1>7, <1>8, <1>9 DEF CrankStep, Change

(* The manager's instructions are changes.                                 *)
LEMMA ManagerChange == TypeOK /\ ScoreBooks /\ ManagerStep => Change
<1> SUFFICES ASSUME TypeOK, ScoreBooks, ManagerStep PROVE Change
  OBVIOUS
<1>1. ASSUME NEW v \in Validator, NEW score, AddValidator(v, score) PROVE Rests
  <2> DEFINE r == NewValidatorRecord(score)
  <2>1. /\ ~validator[v].listed /\ ChangeValidators(v, r)
    BY <1>1 DEF AddValidator
  <2>2. r.active_balance = 0 /\ validator[v].active_balance = 0
    BY <2>1 DEF ScoreBooks, Unlisted, NewValidatorRecord
  <2> HIDE DEF r
  <2> QED
    BY <2>1, <2>2, ValidatorRests
<1>2. ASSUME NEW v \in Validator, RemoveValidator(v) PROVE Rests
  <2>1. /\ validator[v].active_balance = 0 /\ ChangeValidators(v, Unlisted)
        /\ Unlisted.active_balance = 0
    BY <1>2 DEF RemoveValidator, Unlisted, NewValidatorRecord
  <2> QED
    BY <2>1, ValidatorRests
<1>3. ASSUME NEW v \in Validator, NEW score, SetValidatorScore(v, score) PROVE Rests
  <2> DEFINE r == [validator[v] EXCEPT !.score = score]
  <2>1. validator[v] \in ValidatorRecord /\ validator[v].listed /\ ChangeValidators(v, r)
    BY <1>3 DEF SetValidatorScore, TypeOK
  <2>2. r.active_balance = validator[v].active_balance /\ r.listed
    BY <2>1 DEF ValidatorRecord
  <2> HIDE DEF r
  <2> QED
    BY <2>1, <2>2, ValidatorRests
<1>4. ASSUME NEW extra_runs, ConfigValidatorSystem(extra_runs) PROVE Rests
  BY <1>4, StillRests DEF ConfigValidatorSystem, clockVars
<1>5. ASSUME NEW s \in Stake, EmergencyUnstake(s) PROVE Change
  BY <1>5, EmergencyUnstakeCools DEF Change
<1>6. ASSUME NEW s \in Stake, NEW new \in Stake, NEW amount \in UnstakeAmounts,
             PartialUnstake(s, new, amount)
      PROVE  Change
  BY <1>6, PartialUnstakeCools DEF Change
<1> QED
  BY <1>1, <1>2, <1>3, <1>4, <1>5, <1>6 DEF ManagerStep, Change

(* The users' instructions are changes.                                    *)
LEMMA UserChange == TypeOK /\ UserStep => Change
<1> SUFFICES ASSUME TypeOK, UserStep PROVE Change
  OBVIOUS
<1>1. ASSUME NEW lamports \in DepositAmounts, Deposit(lamports) PROVE Rests
  BY <1>1, DepositEffect, StillRests DEF clockVars
<1>2. ASSUME NEW s \in Stake, NEW v \in Validator, NEW delegated \in UserStakes,
             NEW activation \in Activation, DepositStakeAccount(s, v, delegated, activation)
      PROVE  Change
  <2>1. delegated \in Nat
    BY UsersAssumption
  <2> QED
    BY <1>2, <2>1, DepositStakeAccountEnters DEF Change
<1>3. ASSUME NEW s \in Stake, NEW msol_amount \in MsolAmounts,
             WithdrawStakeAccount(s, msol_amount)
      PROVE  Change
  BY <1>3, WithdrawStakeAccountRecounts DEF Change
<1>4. ASSUME NEW t \in Ticket, NEW msol_amount, OrderUnstake(t, msol_amount) \/ Claim(t)
      PROVE  Rests
  BY <1>4, StillRests DEF OrderUnstake, Claim, clockVars
<1> QED
  BY <1>1, <1>2, <1>3, <1>4 DEF UserStep, Change

(* Every step of the program is one of the eight changes.                  *)
LEMMA StepsAreChanges == TypeOK /\ Upgraded /\ ScoreBooks /\ [Next]_vars => Change
<1> SUFFICES ASSUME TypeOK, Upgraded, ScoreBooks, [Next]_vars PROVE Change
  OBVIOUS
<1>1. CASE PoolStep
  BY <1>1, StillRests
     DEF PoolStep, AddLiquidity, RemoveLiquidity, LiquidUnstake, BurnLp, DonateSolLeg,
         stakingVars, clockVars, Change
<1>2. CASE AdminStep
  BY <1>2, StillRests
     DEF AdminStep, ConfigMarinade, ConfigLp, Pause, Resume, adminUnchanged, clockVars, Change
<1>3. CASE UNCHANGED vars
  BY <1>3, StillRests DEF vars, clockVars, Change
<1> QED
  BY <1>1, <1>2, <1>3, EnvironmentRests, CrankChange, ManagerChange, UserChange
     DEF Next, Change

-----------------------------------------------------------------------------
(* The delinquent upgrade stays over.                                      *)

(* update_active counts nothing for it.                                    *)
LEMMA UpdateActiveStaysDone ==
  ASSUME TypeOK, Upgraded, NEW s \in Stake, UpdateActive(s)
  PROVE  delinquent_upgrader' = UpgradeDone
<1> DEFINE rewards == Monus(account[s].delegated, Recorded(s))
           slashed == Monus(Recorded(s), account[s].delegated)
           grown == UpgradeGrowth(s, rewards)
           lost  == IF delinquent_upgrader.stage = "IteratingStakes" THEN slashed ELSE 0
           one   == IF Is(s, "Unknown") THEN 1 ELSE 0
           up    == [delinquent_upgrader EXCEPT
                       !.visited_count = @ + one,
                       !.total_active_balance = @ + grown - lost]
<1>1. Progression(up, Cardinality(Listed), total_active_balance')
  BY DEF UpdateActive
<1>2. delinquent_upgrader = UpgradeDone /\ ~Is(s, "Unknown")
  BY DEF Upgraded
<1>3. grown = 0 /\ lost = 0 /\ one = 0
  <2> HIDE DEF rewards, slashed
  <2> QED
    BY <1>2 DEF UpgradeGrowth, UpgradeDone
<1> HIDE DEF grown, lost, one
<1>4. up = UpgradeDone
  <2>1. up = [UpgradeDone EXCEPT !.visited_count = @ + 0, !.total_active_balance = @ + 0 - 0]
    BY <1>2, <1>3
  <2>2. /\ UpgradeDone.visited_count + 0 = UpgradeDone.visited_count
        /\ UpgradeDone.total_active_balance + 0 - 0 = UpgradeDone.total_active_balance
    BY DEF UpgradeDone
  <2>3. up = [UpgradeDone EXCEPT !.visited_count = @, !.total_active_balance = @]
    BY <2>1, <2>2
  <2> QED
    BY <2>3 DEF UpgradeDone
<1> HIDE DEF up
<1> QED
  BY <1>1, <1>4 DEF Progression, AllVisited, UpgradeDone

(* update_deactivated finds nothing delinquent.                            *)
LEMMA UpdateDeactivatedStaysDone ==
  ASSUME TypeOK, Upgraded, NEW s \in Stake, UpdateDeactivated(s)
  PROVE  delinquent_upgrader' = UpgradeDone
<1>1. PICK cooling :
        Progression([delinquent_upgrader EXCEPT
                       !.total_delinquent_balance = @ + (Recorded(s) - Released(s, cooling))],
                    Cardinality(Listed) - 1, total_active_balance')
  <2> DEFINE emergency == stake[s].is_emergency_unstaking \/ Is(s, "Active")
             cooling   == IF emergency
                          THEN emergency_cooling_down
                                 + IF Is(s, "Active") THEN Recorded(s) ELSE 0
                          ELSE delayed_unstake_cooling_down
  <2>1. Progression([delinquent_upgrader EXCEPT
                       !.total_delinquent_balance = @ + (Recorded(s) - Released(s, cooling))],
                    Cardinality(Listed) - 1, total_active_balance')
    BY DEF UpdateDeactivated
  <2> HIDE DEF cooling
  <2> QED
    BY <2>1
<1>2. delinquent_upgrader = UpgradeDone /\ Released(s, cooling) = Recorded(s)
  BY DEF Upgraded, Released, UpgradeDone
<1>3. Recorded(s) - Recorded(s) = 0
  BY RecordFields
<1> DEFINE delinquent == Recorded(s) - Released(s, cooling)
           up == [delinquent_upgrader EXCEPT !.total_delinquent_balance = @ + delinquent]
<1>4. delinquent = 0
  BY <1>2, <1>3
<1>5. Progression(up, Cardinality(Listed) - 1, total_active_balance')
  BY <1>1
<1> HIDE DEF delinquent
<1>6. up = UpgradeDone
  BY <1>2, <1>4 DEF UpgradeDone
<1> HIDE DEF up
<1> QED
  BY <1>5, <1>6 DEF Progression, AllVisited, UpgradeDone

(* No step starts the upgrade again, or enters a record that waits for it. *)
LEMMA UpgradedStep == TypeOK /\ Upgraded /\ ScoreBooks /\ [Next]_vars => Upgraded'
<1> SUFFICES ASSUME TypeOK, Upgraded, ScoreBooks, [Next]_vars PROVE Upgraded'
  OBVIOUS
<1>1. delinquent_upgrader' = UpgradeDone
  <2>1. delinquent_upgrader = UpgradeDone
    BY DEF Upgraded
  <2>2. CASE Environment
    <3>1. Tick \/ NewEpoch => UNCHANGED delinquent_upgrader
      BY DEF Tick, NewEpoch
    <3>2. ASSUME NEW s \in Stake, NEW lamports
          PROVE  DeactivateDelinquent(s) \/ Tip(s, lamports) \/ Slash(s, lamports)
                   => UNCHANGED delinquent_upgrader
      BY DEF DeactivateDelinquent, Tip, Slash, ChangeAccount
    <3>3. ASSUME NEW lamports
          PROVE  Donate(lamports) \/ BurnMsol(lamports) => UNCHANGED delinquent_upgrader
      BY DEF Donate, BurnMsol
    <3> QED
      BY <2>1, <2>2, <3>1, <3>2, <3>3 DEF Environment, ClusterStep, OutsideStep
  <2>3. CASE CrankStep
    <3>1. ASSUME NEW batch, FinalizeDelinquentUpgrade(batch) PROVE FALSE
      BY <2>1, <3>1 DEF FinalizeDelinquentUpgrade, UpgradeDone
    <3>2. ASSUME NEW v, NEW s,
                 \/ SpendExtraRun(v) \/ StakeReserve(v, s)
                 \/ MergeStakes(v, s) \/ CreateCanonicalStake(v, s)
          PROVE  UNCHANGED delinquent_upgrader
      BY <3>2 DEF SpendExtraRun, StakeReserve, MergeStakes, CreateCanonicalStake
    <3>3. ASSUME NEW s, NEW new, DeactivateStake(s, new)
          PROVE  UNCHANGED delinquent_upgrader
      BY <3>3 DEF DeactivateStake
    <3> QED
      BY <2>1, <2>3, <3>1, <3>2, <3>3, UpdateActiveStaysDone, UpdateDeactivatedStaysDone
         DEF CrankStep
  <2>4. CASE UserStep
    <3>1. ASSUME NEW lamports \in DepositAmounts, Deposit(lamports)
          PROVE  UNCHANGED delinquent_upgrader
      BY <3>1, DepositEffect
    <3>2. ASSUME NEW s, NEW v, NEW delegated, NEW activation,
                 DepositStakeAccount(s, v, delegated, activation)
          PROVE  UNCHANGED delinquent_upgrader
      BY <2>1, <3>2 DEF DepositStakeAccount, CountDeposited, UpgradeDone
    <3>3. ASSUME NEW s, NEW t, NEW msol_amount,
                 \/ WithdrawStakeAccount(s, msol_amount)
                 \/ OrderUnstake(t, msol_amount) \/ Claim(t)
          PROVE  UNCHANGED delinquent_upgrader
      BY <3>3 DEF WithdrawStakeAccount, OrderUnstake, Claim
    <3> QED
      BY <2>1, <2>4, <3>1, <3>2, <3>3 DEF UserStep
  <2>5. CASE PoolStep
    BY <2>1, <2>5 DEF PoolStep, AddLiquidity, RemoveLiquidity, LiquidUnstake, BurnLp,
                      DonateSolLeg, stakingVars
  <2>6. CASE ManagerStep
    <3>1. ASSUME NEW v, NEW score
          PROVE  AddValidator(v, score) \/ RemoveValidator(v) \/ SetValidatorScore(v, score)
                   => UNCHANGED delinquent_upgrader
      BY DEF AddValidator, RemoveValidator, SetValidatorScore, ChangeValidators
    <3>2. ASSUME NEW extra_runs, ConfigValidatorSystem(extra_runs)
          PROVE  UNCHANGED delinquent_upgrader
      BY <3>2 DEF ConfigValidatorSystem
    <3>3. ASSUME NEW s, NEW new, NEW amount,
                 EmergencyUnstake(s) \/ PartialUnstake(s, new, amount)
          PROVE  UNCHANGED delinquent_upgrader
      BY <3>3 DEF EmergencyUnstake, PartialUnstake, MoveToEmergency
    <3> QED
      BY <2>1, <2>6, <3>1, <3>2, <3>3 DEF ManagerStep
  <2>7. CASE AdminStep
    BY <2>1, <2>7 DEF AdminStep, ConfigMarinade, ConfigLp, Pause, Resume, adminUnchanged
  <2>8. CASE UNCHANGED vars
    BY <2>1, <2>8 DEF vars
  <2> QED
    BY <2>2, <2>3, <2>4, <2>5, <2>6, <2>7, <2>8 DEF Next
<1>2. ASSUME NEW u \in Stake PROVE ~Is(u, "Unknown")'
  <2>1. /\ stake[u] \in StakeRecord /\ stake[u].last_update_status # "Unknown"
        /\ \A t \in Stake : stake[t] \in StakeRecord /\ stake[t].last_update_status # "Unknown"
    BY RecordFields DEF Upgraded, Is
  <2> SUFFICES stake'[u].last_update_status # "Unknown"
    BY DEF Is
  <2>2. CASE Untouched(u)
    BY <2>1, <2>2 DEF Untouched
  <2>3. CASE ~Untouched(u)
    <3> USE <2>1, <2>3 DEF OthersUntouched, NoRecord, NewStakeRecord, StakeRecord
    <3>1. ~Rests
      BY DEF Rests
    <3>2. ASSUME NEW s \in Stake, NEW v, NEW amount, Enters(s, v, amount)
          PROVE  stake'[u].last_update_status # "Unknown"
      BY <3>2 DEF Enters
    <3>3. ASSUME NEW s \in Stake, NEW amount, Recounts(s, amount)
          PROVE  stake'[u].last_update_status # "Unknown"
      BY <3>3 DEF Recounts
    <3>4. ASSUME NEW s \in Stake, NEW is_emergency, Cools(s, is_emergency)
          PROVE  stake'[u].last_update_status # "Unknown"
      BY <3>4 DEF Cools
    <3>5. ASSUME NEW s \in Stake, NEW new \in Stake, NEW amount, NEW is_emergency,
                 CoolsPart(s, new, amount, is_emergency)
          PROVE  stake'[u].last_update_status # "Unknown"
      BY <3>5 DEF CoolsPart
    <3>6. ASSUME NEW s \in Stake, Leaves(s)
          PROVE  stake'[u].last_update_status # "Unknown"
      BY <3>6 DEF Leaves
    <3>7. ASSUME NEW canonical \in Stake, NEW source \in Stake, NEW amount,
                 Merges(canonical, source, amount) \/ Renames(canonical, source)
          PROVE  stake'[u].last_update_status # "Unknown"
      BY <3>7 DEF Merges, Renames
    <3> QED
      BY <3>1, <3>2, <3>3, <3>4, <3>5, <3>6, <3>7, StepsAreChanges DEF Change
  <2> QED
    BY <2>2, <2>3
<1> QED
  BY <1>1, <1>2 DEF Upgraded

(* It is over from the start.                                              *)
LEMMA UpgradedHolds == Spec => []Upgraded
<1>1. Init => Upgraded
  BY DEF Init, Upgraded, Is, NoRecord
<1> QED
  BY <1>1, UpgradedStep, TypeCorrect, ScoreBooksHold, PTL DEF Spec
=============================================================================
