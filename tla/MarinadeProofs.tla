--------------------------- MODULE MarinadeProofs ----------------------------
(***************************************************************************)
(* What holds of the whole program, for every value of the constants: the  *)
(* types, that the reserve, the mints, the pool and the tickets are        *)
(* covered, and what the stake delta may move.                             *)
(***************************************************************************)
EXTENDS MarinadeProperties, LamportSumsProofs

-----------------------------------------------------------------------------
(* The arithmetic of Calc stays within the naturals, and a part is never   *)
(* more than the whole: what the subtractions of the handlers that have no *)
(* guard of their own rest on.                                             *)

(* saturating_sub is never negative.                                       *)
LEMMA MonusType ==
  ASSUME NEW a \in Int, NEW b \in Int
  PROVE  Monus(a, b) \in Nat
BY DEF Monus

(* It takes from a natural number at most what is there.                   *)
LEMMA MonusBound ==
  ASSUME NEW a \in Nat, NEW b \in Nat
  PROVE  Monus(a, b) <= a
BY DEF Monus

(* The products computed in u128 are naturals.                             *)
LEMMA ProductType ==
  ASSUME NEW a \in Nat, NEW b \in Nat
  PROVE  a * b \in Nat
OBVIOUS

(* And so are their quotients.                                             *)
LEMMA QuotientType ==
  ASSUME NEW a \in Nat, NEW c \in Nat \ {0}
  PROVE  a \div c \in Nat
OBVIOUS

(* A fraction of a, rounded down, is at most a.                            *)
LEMMA FractionBound ==
  ASSUME NEW a \in Nat, NEW b \in Nat, NEW c \in Nat \ {0}, b <= c
  PROVE  (a * b) \div c <= a
<1>1. a * b <= a * c
  OBVIOUS
<1>2. a * b \in Nat /\ a * c \in Nat
  BY ProductType
<1> DEFINE q == (a * b) \div c
<1>3. q \in Nat
  BY <1>2, QuotientType
<1>4. c * q <= a * b
  BY <1>2, <1>3
<1>5. SUFFICES ASSUME q > a PROVE FALSE
  BY <1>3
<1>6. c * q >= c * (a + 1)
  BY <1>3, <1>5
<1>7. c * (a + 1) = a * c + c
  OBVIOUS
<1> QED
  BY <1>1, <1>2, <1>3, <1>4, <1>6, <1>7

(* Every conversion between lamports and shares yields a natural.          *)
LEMMA ProportionalType ==
  ASSUME NEW a \in Nat, NEW n \in Nat, NEW d \in Nat
  PROVE  Proportional(a, n, d) \in Nat
BY ProductType, QuotientType DEF Proportional

(* The share of n that belongs to a out of d is at most n: a holder of     *)
(* some of the LP tokens takes at most what there is.                      *)
LEMMA ProportionalBound ==
  ASSUME NEW a \in Nat, NEW n \in Nat, NEW d \in Nat, a <= d, d # 0
  PROVE  Proportional(a, n, d) <= n
<1>1. n * a = a * n
  OBVIOUS
<1>2. (n * a) \div d <= n
  BY FractionBound
<1> QED
  BY <1>1, <1>2 DEF Proportional

(* Both directions of the conversion, whatever the totals.                 *)
LEMMA SharesType ==
  ASSUME NEW value \in Nat, NEW total_value \in Nat, NEW total_shares \in Nat
  PROVE  /\ SharesFromValue(value, total_value, total_shares) \in Nat
         /\ ValueFromShares(value, total_value, total_shares) \in Nat
BY ProportionalType DEF SharesFromValue, ValueFromShares

(* A fee of at most 100% is at most the amount it is taken from.           *)
LEMMA FeeBound ==
  ASSUME NEW fee \in 0..MAX_BASIS_POINTS, NEW lamports \in Nat
  PROVE  ApplyFee(fee, lamports) \in Nat /\ ApplyFee(fee, lamports) <= lamports
<1>1. MAX_BASIS_POINTS \in Nat \ {0}
  BY SMT DEF MAX_BASIS_POINTS
<1>2. fee \in Nat /\ fee <= MAX_BASIS_POINTS
  BY <1>1, SMT
<1>3. (lamports * fee) \div MAX_BASIS_POINTS <= lamports
  BY <1>1, <1>2, FractionBound
<1> QED
  BY <1>1, <1>2, <1>3, ProductType, QuotientType DEF ApplyFee

(* The same for fees in hundredths of a basis point.                       *)
LEMMA FeeCentsBound ==
  ASSUME NEW fee \in 0..MAX_BP_CENTS, NEW lamports \in Nat
  PROVE  ApplyFeeCents(fee, lamports) \in Nat /\ ApplyFeeCents(fee, lamports) <= lamports
<1>0. MAX_BASIS_POINTS \in Nat \ {0}
  BY SMT DEF MAX_BASIS_POINTS
<1>1. MAX_BP_CENTS \in Nat \ {0}
  BY <1>0, SMT DEF MAX_BP_CENTS
<1>2. fee \in Nat /\ fee <= MAX_BP_CENTS
  BY <1>1, SMT
<1>3. (lamports * fee) \div MAX_BP_CENTS <= lamports
  BY <1>1, <1>2, FractionBound
<1> QED
  BY <1>1, <1>2, <1>3, ProductType, QuotientType DEF ApplyFeeCents

-----------------------------------------------------------------------------
(* The types.                                                              *)

(* What stands for an absent account, record or ticket is well-typed.      *)
LEMMA EmptySlotType ==
  /\ NoAccount \in Account
  /\ NoRecord \in StakeRecord
  /\ Unlisted \in ValidatorRecord
  /\ ClosedTicket \in TicketRecord
  /\ UpgradeDone \in Upgrader
<1>1. NoAccount \in Account
  BY DEF NoAccount, Account, Activation
<1>2. NoRecord \in StakeRecord
  BY DEF NoRecord, StakeRecord, StakeStatus
<1>3. Unlisted \in ValidatorRecord
  BY DEF Unlisted, NewValidatorRecord, ValidatorRecord
<1>4. ClosedTicket \in TicketRecord
  BY DEF ClosedTicket, TicketRecord
<1>5. UpgradeDone \in Upgrader
  BY DEF UpgradeDone, Upgrader
<1> QED
  BY <1>1, <1>2, <1>3, <1>4, <1>5

(* The books are well-typed when the program starts.                       *)
LEMMA InitType == Init => TypeOK
<1> SUFFICES ASSUME Init PROVE TypeOK
  OBVIOUS
<1> USE RentAssumption, ConfigAssumption DEF Init
<1> QED
  BY EmptySlotType DEF TypeOK

-----------------------------------------------------------------------------
(* The quantities the handlers compute.                                    *)

(* The totals the price is computed from are naturals, the delta an        *)
(* integer.                                                                *)
LEMMA TotalsType ==
  ASSUME TypeOK
  PROVE  /\ TotalCoolingDown \in Nat
         /\ TotalLamportsUnderControl \in Nat
         /\ TotalVirtualStakedLamports \in Nat
         /\ Synced \in Nat
         /\ StakeDelta \in Int
<1>1. /\ total_active_balance \in Nat /\ available_reserve_balance \in Nat
      /\ delayed_unstake_cooling_down \in Nat /\ emergency_cooling_down \in Nat
      /\ reserve_pda \in Nat /\ circulating_ticket_balance \in Nat
  BY DEF TypeOK
<1>2. TotalCoolingDown \in Nat /\ TotalLamportsUnderControl \in Nat
  BY <1>1 DEF TotalCoolingDown, TotalLamportsUnderControl
<1>3. TotalVirtualStakedLamports \in Nat
  BY <1>1, <1>2, MonusType DEF TotalVirtualStakedLamports
<1>4. Synced \in Nat
  BY <1>1, RentAssumption, MonusType DEF Synced
<1>5. StakeDelta \in Int
  <2>1. Monus(reserve_pda, RentExempt) \in Nat
    BY <1>1, RentAssumption, MonusType
  <2> QED
    BY <1>1, <2>1 DEF StakeDelta, Lesser
<1> QED
  BY <1>2, <1>3, <1>4, <1>5

(* A price gives naturals for naturals.                                    *)
LEMMA PricesType ==
  ASSUME TypeOK, NEW amount \in Nat
  PROVE  CalcMsolFromLamports(amount) \in Nat /\ MsolToSol(amount) \in Nat
<1>1. msol_supply \in Nat
  BY DEF TypeOK
<1> QED
  BY <1>1, TotalsType, SharesType DEF CalcMsolFromLamports, MsolToSol

(* The treasury's fee is a natural.                                        *)
LEMMA ProtocolFeesType ==
  ASSUME TypeOK, NEW lamports \in Nat, NEW total \in Nat, NEW supply \in Nat
  PROVE  MintProtocolFees(lamports, total, supply) \in Nat
<1>1. config.reward_fee \in 0..MAX_REWARD_FEE
  BY DEF TypeOK, Config
<1>2. config.reward_fee \in 0..MAX_BASIS_POINTS
  BY <1>1, SMT DEF MAX_REWARD_FEE, MAX_BASIS_POINTS
<1>3. ApplyFee(config.reward_fee, lamports) \in Nat
  BY <1>2, FeeBound
<1> QED
  BY <1>3, SharesType DEF MintProtocolFees

(* The value of the reserve with what an update adds to it.                *)
LEMMA SyncedVirtualType ==
  ASSUME TypeOK, NEW extra \in Nat
  PROVE  SyncedVirtual(extra) \in Nat
<1>1. total_active_balance \in Nat /\ circulating_ticket_balance \in Nat
  BY DEF TypeOK
<1>2. total_active_balance + TotalCoolingDown + Synced + extra \in Nat
  BY <1>1, TotalsType
<1> DEFINE total == total_active_balance + TotalCoolingDown + Synced + extra
<1>3. SyncedVirtual(extra) = Monus(total, circulating_ticket_balance)
  BY DEF SyncedVirtual
<1>4. total \in Int /\ circulating_ticket_balance \in Int
  BY <1>1, <1>2
<1> HIDE DEF total
<1> QED
  BY <1>3, <1>4, MonusType

(* A validator's target is a natural.                                      *)
LEMMA StakeTargetType ==
  ASSUME TypeOK, NEW v \in Validator, NEW total \in Nat
  PROVE  ValidatorStakeTarget(v, total) \in Nat
<1>1. validator[v].score \in Nat /\ total_validator_score \in Nat
  BY DEF TypeOK, ValidatorRecord
<1> QED
  BY <1>1, ProportionalType DEF ValidatorStakeTarget

-----------------------------------------------------------------------------
(* Every action leaves the books well-typed.                               *)

(* The environment: the clock and the stake accounts.                      *)
LEMMA EnvironmentType == TypeOK /\ Environment => TypeOK'
<1> SUFFICES ASSUME TypeOK, Environment PROVE TypeOK'
  OBVIOUS
<1> USE DEF clockVars, reserveVars, msolVars, stakeVars, validatorVars, coolingVars,
            deltaVars, moveVars, ticketVars, adminVars, poolVars
<1>1. CASE Tick
  BY <1>1 DEF Tick, TypeOK, Phase
<1>2. CASE NewEpoch
  <2>1. PICK slow \in SUBSET SlowStake, reward \in Rewards \cup {0}, lucky \in SUBSET Stake :
          account' = [s \in Stake |->
            [account[s] EXCEPT !.activation = NextActivation(s, slow),
                               !.delegated = @ + IF s \in lucky THEN reward ELSE 0]]
    BY <1>2, ZenonT(30) DEF NewEpoch
  <2>2. \A s \in Stake : NextActivation(s, slow) \in Activation
    BY DEF TypeOK, Account, NextActivation, Activation
  <2>3. reward \in Nat
    BY ClusterAssumption
  <2>4. \A s \in Stake, d \in {0, reward} :
          [account[s] EXCEPT !.activation = NextActivation(s, slow),
                             !.delegated = @ + d] \in Account
    <3>1. SUFFICES ASSUME NEW s \in Stake, NEW d \in {0, reward}
                   PROVE  [account[s] EXCEPT !.activation = NextActivation(s, slow),
                                             !.delegated = @ + d] \in Account
      OBVIOUS
    <3>2. account[s] \in Account
      BY DEF TypeOK
    <3>3. NextActivation(s, slow) \in Activation /\ account[s].delegated + d \in Nat
      BY <2>2, <2>3, <3>2 DEF Account
    <3> QED
      BY <3>2, <3>3 DEF Account
  <2>5. account' \in [Stake -> Account]
    BY <2>1, <2>4
  <2>6. /\ epoch' = epoch + 1 /\ phase' = "early"
        /\ UNCHANGED <<reserveVars, msolVars, stake, validatorVars, coolingVars,
                       deltaVars, moveVars, ticketVars, adminVars, staking_sol_cap,
                       delinquent_upgrader, poolVars>>
    BY <1>2 DEF NewEpoch
  <2> QED
    BY <2>5, <2>6 DEF TypeOK, Phase
<1>3. CASE \E s \in Stake : DeactivateDelinquent(s)
  <2>1. PICK s \in Stake : DeactivateDelinquent(s)
    BY <1>3
  <2>2. account' \in [Stake -> Account]
    BY <2>1 DEF DeactivateDelinquent, ChangeAccount, DeactivatedFrom, TypeOK, Account, Activation
  <2> QED
    BY <2>1, <2>2 DEF DeactivateDelinquent, ChangeAccount, TypeOK
<1>4. CASE \E s \in Stake, lamports \in Tips : Tip(s, lamports)
  <2>1. PICK s \in Stake, lamports \in Tips : Tip(s, lamports)
    BY <1>4
  <2>2. account' \in [Stake -> Account]
    BY <2>1, ClusterAssumption DEF Tip, ChangeAccount, TypeOK, Account
  <2> QED
    BY <2>1, <2>2 DEF Tip, ChangeAccount, TypeOK
<1>5. CASE \E s \in Stake, lamports \in Slashes : Slash(s, lamports)
  <2>1. PICK s \in Stake, lamports \in Slashes : Slash(s, lamports)
    BY <1>5
  <2>2. account' \in [Stake -> Account]
    BY <2>1, ClusterAssumption DEF Slash, ChangeAccount, TypeOK, Account
  <2> QED
    BY <2>1, <2>2 DEF Slash, ChangeAccount, TypeOK
<1>6. CASE \E lamports \in Donations : Donate(lamports)
  BY <1>6, ClusterAssumption DEF Donate, TypeOK
<1>7. CASE \E msol \in Burns : BurnMsol(msol)
  <2>1. PICK msol \in Burns : BurnMsol(msol)
    BY <1>7
  <2>2. msol_mint_supply - msol \in Nat
    BY <2>1, ClusterAssumption DEF BurnMsol, UserMsol, TypeOK
  <2> QED
    BY <2>1, <2>2 DEF BurnMsol, TypeOK
<1> QED
  BY <1>1, <1>2, <1>3, <1>4, <1>5, <1>6, <1>7 DEF Environment, ClusterStep, OutsideStep

(* The upgrader's state stays one when the first loop is over.             *)
LEMMA ProgressionType ==
  ASSUME NEW up \in Upgrader, NEW count, NEW total, Progression(up, count, total)
  PROVE  delinquent_upgrader' \in Upgrader
BY DEF Progression, Upgrader, UpgradeDone, AllVisited

(* update_active mints a natural amount.                                   *)
LEMMA UpdateActiveMints ==
  ASSUME TypeOK, NEW s \in Stake, UpdateActive(s)
  PROVE  \E fees \in Nat : /\ msol_mint_supply' = msol_mint_supply + fees
                           /\ msol_supply' = msol_mint_supply'
<1> DEFINE delegated == account[s].delegated
           extra     == account[s].extra
           rewards   == Monus(delegated, Recorded(s))
           extra_fee == MintProtocolFees(extra, SyncedVirtual(extra), msol_mint_supply)
           fee       == MintProtocolFees(rewards, SyncedVirtual(extra),
                                         msol_mint_supply + extra_fee)
<1>1. /\ msol_mint_supply' = msol_mint_supply + extra_fee + fee
      /\ msol_supply' = msol_mint_supply'
  BY DEF UpdateActive
<1>2. msol_mint_supply \in Nat /\ extra \in Nat /\ delegated \in Nat /\ Recorded(s) \in Nat
  BY DEF TypeOK, Account, StakeRecord, Recorded
<1> HIDE DEF delegated, extra
<1>3. rewards \in Nat
  BY <1>2 DEF Monus
<1> HIDE DEF rewards
<1>4. SyncedVirtual(extra) \in Nat
  BY <1>2, SyncedVirtualType
<1>5. extra_fee \in Nat
  BY <1>2, <1>4, ProtocolFeesType
<1> HIDE DEF extra_fee
<1>6. fee \in Nat
  <2>1. msol_mint_supply + extra_fee \in Nat
    BY <1>2, <1>5
  <2> QED
    BY <2>1, <1>3, <1>4, ProtocolFeesType
<1> HIDE DEF fee
<1>7. extra_fee + fee \in Nat /\ msol_mint_supply' = msol_mint_supply + (extra_fee + fee)
  BY <1>1, <1>2, <1>5, <1>6
<1> QED
  BY <1>1, <1>7

(* update_active: the checked subtractions keep the upgrader's totals and  *)
(* the balances natural.                                                   *)
LEMMA UpdateActiveType ==
  ASSUME TypeOK, NEW s \in Stake, UpdateActive(s)
  PROVE  TypeOK'
<1> DEFINE v         == Voter(s)
           delegated == account[s].delegated
           extra     == account[s].extra
           rewards   == Monus(delegated, Recorded(s))
           slashed   == Monus(Recorded(s), delegated)
           grown     == UpgradeGrowth(s, rewards)
           lost      == IF delinquent_upgrader.stage = "IteratingStakes" THEN slashed ELSE 0
           up        == [delinquent_upgrader EXCEPT
                           !.visited_count = @ + IF Is(s, "Unknown") THEN 1 ELSE 0,
                           !.total_active_balance = @ + grown - lost]
<1>1. /\ v \in Validator
      /\ lost <= delinquent_upgrader.total_active_balance + grown
      /\ lost <= validator[v].delinquent_upgrader_active_balance + grown
      /\ slashed <= validator[v].active_balance /\ slashed <= total_active_balance
      /\ staking_sol_cap' = IF msol_mint_supply > msol_supply THEN 0 ELSE staking_sol_cap
  BY DEF UpdateActive, Begin, MovableFrom
<1>2. /\ reserve_pda' = reserve_pda + extra
      /\ available_reserve_balance' = Synced + extra
      /\ account' = [account EXCEPT ![s].extra = 0]
      /\ validator' = [validator EXCEPT
           ![v].active_balance = @ + rewards - slashed,
           ![v].delinquent_upgrader_active_balance = @ + grown - lost]
      /\ total_active_balance' = total_active_balance + rewards - slashed
      /\ stake' = [stake EXCEPT
           ![s].last_update_delegated_lamports = delegated,
           ![s].last_update_status = "Active"]
      /\ Progression(up, Cardinality(Listed), total_active_balance')
      /\ UNCHANGED <<clockVars, coolingVars, deltaVars, moveVars, ticketVars,
                     adminVars, poolVars>>
  BY DEF UpdateActive
<1>3. /\ account[s] \in Account /\ stake[s] \in StakeRecord
      /\ validator[v] \in ValidatorRecord /\ delinquent_upgrader \in Upgrader
      /\ msol_mint_supply \in Nat /\ total_active_balance \in Nat /\ reserve_pda \in Nat
  BY <1>1 DEF TypeOK
<1>4. /\ extra \in Nat /\ delegated \in Nat /\ Recorded(s) \in Nat
      /\ validator[v].active_balance \in Nat
      /\ validator[v].delinquent_upgrader_active_balance \in Nat
      /\ delinquent_upgrader.total_active_balance \in Nat
      /\ delinquent_upgrader.visited_count \in Nat
  BY <1>3 DEF Account, StakeRecord, Recorded, ValidatorRecord, Upgrader
<1> HIDE DEF delegated, extra
<1>5. rewards \in Nat /\ slashed \in Nat
  BY <1>4 DEF Monus
<1>9. grown \in Nat /\ lost \in Nat
  BY <1>4, <1>5 DEF UpgradeGrowth
<1>10. up \in Upgrader
  <2>1. /\ delinquent_upgrader.total_active_balance + grown - lost \in Nat
        /\ delinquent_upgrader.visited_count + (IF Is(s, "Unknown") THEN 1 ELSE 0) \in Nat
    BY <1>1, <1>4, <1>9
  <2> HIDE DEF grown, lost
  <2> QED
    BY <2>1, <1>3 DEF Upgrader
<1> HIDE DEF up, grown, lost, rewards, slashed
<1>11. delinquent_upgrader' \in Upgrader
  BY <1>2, <1>10, ProgressionType
<1>12. /\ reserve_pda' \in Nat /\ msol_mint_supply' \in Nat /\ msol_supply' \in Nat
       /\ available_reserve_balance' \in Nat /\ total_active_balance' \in Nat
  BY <1>1, <1>2, <1>3, <1>4, <1>5, TotalsType, UpdateActiveMints
<1>13. account' \in [Stake -> Account] /\ stake' \in [Stake -> StakeRecord]
  BY <1>2, <1>3, <1>4 DEF TypeOK, Account, StakeRecord, StakeStatus
<1>14. validator' \in [Validator -> ValidatorRecord]
  <2>1. /\ validator[v].active_balance + rewards - slashed \in Nat
        /\ validator[v].delinquent_upgrader_active_balance + grown - lost \in Nat
    BY <1>1, <1>4, <1>5, <1>9
  <2> QED
    BY <2>1, <1>1, <1>2, <1>3 DEF TypeOK, ValidatorRecord
<1>15. staking_sol_cap' \in Nat
  BY <1>1 DEF TypeOK
<1> QED
  BY <1>2, <1>11, <1>12, <1>13, <1>14, <1>15
     DEF TypeOK, clockVars, coolingVars, deltaVars, moveVars, ticketVars, adminVars, poolVars

(* update_deactivated: what reaches the reserve and what is minted.        *)
LEMMA UpdateDeactivatedMints ==
  ASSUME TypeOK, NEW s \in Stake, UpdateDeactivated(s)
  PROVE  \E balance, fees \in Nat : /\ reserve_pda' = reserve_pda + balance
                                    /\ available_reserve_balance' = Synced + balance
                                    /\ msol_mint_supply' = msol_mint_supply + fees
                                    /\ msol_supply' = msol_mint_supply'
<1> DEFINE balance == account[s].delegated + account[s].extra
           rewards == Monus(balance, Recorded(s))
           fee     == MintProtocolFees(rewards, SyncedVirtual(0), msol_mint_supply)
<1>1. /\ reserve_pda' = reserve_pda + balance
      /\ available_reserve_balance' = Synced + balance
      /\ msol_mint_supply' = msol_mint_supply + fee
      /\ msol_supply' = msol_mint_supply'
  BY DEF UpdateDeactivated
<1>2. msol_mint_supply \in Nat /\ balance \in Nat /\ Recorded(s) \in Nat
  BY DEF TypeOK, Account, StakeRecord, Recorded
<1> HIDE DEF balance
<1>3. rewards \in Nat
  BY <1>2 DEF Monus
<1>4. fee \in Nat
  BY <1>2, <1>3, SyncedVirtualType, ProtocolFeesType
<1> HIDE DEF fee
<1> QED
  BY <1>1, <1>2, <1>4

(* update_deactivated: what is taken out of a total was in it.             *)
LEMMA UpdateDeactivatedType ==
  ASSUME TypeOK, NEW s \in Stake, UpdateDeactivated(s)
  PROVE  TypeOK'
<1> DEFINE v         == Voter(s)
           detected  == IF Is(s, "Active") THEN Recorded(s) ELSE 0
           emergency == stake[s].is_emergency_unstaking \/ Is(s, "Active")
           cooling   == IF emergency THEN emergency_cooling_down + detected
                                     ELSE delayed_unstake_cooling_down
           released  == Released(s, cooling)
           delinquent == Recorded(s) - released
           up        == [delinquent_upgrader EXCEPT !.total_delinquent_balance = @ + delinquent]
<1>1. /\ v \in Validator
      /\ detected <= validator[v].active_balance
      /\ detected + delinquent <= total_active_balance
      /\ released <= cooling
      /\ staking_sol_cap' = IF msol_mint_supply > msol_supply THEN 0 ELSE staking_sol_cap
  BY DEF UpdateDeactivated, Begin, MovableFrom
<1>2. /\ validator' = [validator EXCEPT ![v].active_balance = @ - detected]
      /\ total_active_balance' = total_active_balance - detected - delinquent
      /\ \/ /\ emergency_cooling_down' = cooling - released
            /\ UNCHANGED delayed_unstake_cooling_down
         \/ /\ delayed_unstake_cooling_down' = cooling - released
            /\ UNCHANGED emergency_cooling_down
      /\ account' = [account EXCEPT ![s] = NoAccount]
      /\ stake' = [stake EXCEPT ![s] = NoRecord]
      /\ Progression(up, Cardinality(Listed) - 1, total_active_balance')
      /\ UNCHANGED <<clockVars, deltaVars, moveVars, ticketVars, adminVars, poolVars>>
  BY DEF UpdateDeactivated
<1>3. /\ account[s] \in Account /\ stake[s] \in StakeRecord
      /\ validator[v] \in ValidatorRecord /\ delinquent_upgrader \in Upgrader
      /\ msol_mint_supply \in Nat /\ total_active_balance \in Nat /\ reserve_pda \in Nat
      /\ emergency_cooling_down \in Nat /\ delayed_unstake_cooling_down \in Nat
  BY <1>1 DEF TypeOK
<1>4. /\ Recorded(s) \in Nat
      /\ validator[v].active_balance \in Nat
      /\ delinquent_upgrader.total_delinquent_balance \in Nat
  BY <1>3 DEF Account, StakeRecord, Recorded, ValidatorRecord, Upgrader
<1>7. detected \in Nat
  BY <1>4
<1> HIDE DEF detected
<1>8. cooling \in Nat
  BY <1>3, <1>7
<1> HIDE DEF cooling
<1>9. released \in Nat /\ delinquent \in Nat
  BY <1>4, <1>8 DEF Released, Lesser
<1> HIDE DEF released, delinquent
<1>10. up \in Upgrader
  BY <1>3, <1>4, <1>9 DEF Upgrader
<1> HIDE DEF up
<1>11. delinquent_upgrader' \in Upgrader
  BY <1>2, <1>10, ProgressionType
<1>12. /\ reserve_pda' \in Nat /\ msol_mint_supply' \in Nat /\ msol_supply' \in Nat
       /\ available_reserve_balance' \in Nat /\ total_active_balance' \in Nat
  BY <1>1, <1>2, <1>3, <1>7, <1>9, TotalsType, UpdateDeactivatedMints
<1>13. emergency_cooling_down' \in Nat /\ delayed_unstake_cooling_down' \in Nat
  BY <1>1, <1>2, <1>3, <1>8, <1>9
<1>14. account' \in [Stake -> Account] /\ stake' \in [Stake -> StakeRecord]
  BY <1>2, EmptySlotType DEF TypeOK
<1>15. validator' \in [Validator -> ValidatorRecord]
  <2>1. validator[v].active_balance - detected \in Nat
    BY <1>1, <1>4, <1>7
  <2> QED
    BY <2>1, <1>1, <1>2, <1>3 DEF TypeOK, ValidatorRecord
<1>16. staking_sol_cap' \in Nat
  BY <1>1 DEF TypeOK
<1> QED
  BY <1>2, <1>11, <1>12, <1>13, <1>14, <1>15, <1>16
     DEF TypeOK, clockVars, deltaVars, moveVars, ticketVars, adminVars, poolVars

(* finalize_delinquent_upgrade: the excess of a batch is a natural, and is *)
(* taken from a balance at least as large.                                 *)
LEMMA FinalizeDelinquentUpgradeType ==
  ASSUME TypeOK, NEW batch \in SUBSET Validator, FinalizeDelinquentUpgrade(batch)
  PROVE  TypeOK'
<1> DEFINE up     == delinquent_upgrader
           excess == [v \in batch |-> validator[v].active_balance
                                        - validator[v].delinquent_upgrader_active_balance]
<1>0. /\ \A v \in batch : excess[v] >= 0
      /\ Sum(excess) <= up.delinquent_balance_left
  BY DEF FinalizeDelinquentUpgrade
<1>1. /\ validator' = [v \in Validator |->
           IF v \in batch
           THEN [validator[v] EXCEPT
                   !.active_balance = validator[v].delinquent_upgrader_active_balance,
                   !.delinquent_upgrader_active_balance = 0]
           ELSE validator[v]]
      /\ \/ delinquent_upgrader' = UpgradeDone
         \/ delinquent_upgrader' = [up EXCEPT !.visited = @ \cup batch,
              !.delinquent_balance_left = up.delinquent_balance_left - Sum(excess)]
      /\ UNCHANGED <<clockVars, reserveVars, msolVars, stakeVars,
                     total_active_balance, coolingVars, deltaVars, moveVars,
                     ticketVars, adminVars, staking_sol_cap, poolVars>>
  BY DEF FinalizeDelinquentUpgrade
<1>2. \A v \in batch : validator[v] \in ValidatorRecord
  BY DEF TypeOK
<1>3. excess \in [batch -> Nat]
  <2>1. \A v \in batch : excess[v] \in Int
    BY <1>2 DEF ValidatorRecord
  <2>2. \A v \in batch : excess[v] \in Nat
    <3> HIDE DEF excess
    <3> QED
      BY <1>0, <2>1
  <2> QED
    BY <2>2
<1>4. Sum(excess) \in Nat
  <2>1. IsFiniteSet(batch)
    BY ValidatorAssumption, FS_Subset
  <2> QED
    BY <2>1, <1>3, SumType
<1> HIDE DEF excess
<1>5. up \in Upgrader
  BY DEF TypeOK
<1>6. delinquent_upgrader' \in Upgrader
  <2>1. up.delinquent_balance_left \in Nat
    BY <1>5 DEF Upgrader
  <2>2. up.delinquent_balance_left - Sum(excess) \in Nat
    <3> HIDE DEF up
    <3> QED
      BY <1>0, <1>4, <2>1
  <2> QED
    BY <2>2, <1>1, <1>5, EmptySlotType DEF Upgrader
<1>7. validator' \in [Validator -> ValidatorRecord]
  BY <1>1 DEF TypeOK, ValidatorRecord
<1> QED
  BY <1>1, <1>6, <1>7
     DEF TypeOK, clockVars, reserveVars, msolVars, stakeVars, coolingVars, deltaVars,
         moveVars, ticketVars, adminVars, poolVars

(* A new record is well-typed.                                             *)
LEMMA NewStakeRecordType ==
  ASSUME NEW lamports \in Nat, NEW is_emergency \in BOOLEAN, NEW is_active \in BOOLEAN
  PROVE  NewStakeRecord(lamports, is_emergency, is_active) \in StakeRecord
BY DEF NewStakeRecord, StakeRecord, StakeStatus

(* Both ways of deactivating keep accounts and records well-typed.         *)
LEMMA DeactivateWholeType ==
  ASSUME TypeOK, NEW s \in Stake, NEW is_emergency \in BOOLEAN,
         DeactivateWhole(s, is_emergency)
  PROVE  account' \in [Stake -> Account] /\ stake' \in [Stake -> StakeRecord]
<1>1. account[s] \in Account /\ stake[s] \in StakeRecord
  BY DEF TypeOK
<1>2. [account[s] EXCEPT !.activation = DeactivatedFrom(@)] \in Account
  BY <1>1 DEF DeactivatedFrom, Account, Activation
<1>3. [stake[s] EXCEPT !.last_update_status = "Deactivating",
                       !.is_emergency_unstaking = is_emergency] \in StakeRecord
  BY <1>1 DEF StakeRecord, StakeStatus
<1>4. account' \in [Stake -> Account]
  BY <1>2 DEF DeactivateWhole, TypeOK
<1>5. stake' \in [Stake -> StakeRecord]
  BY <1>3 DEF DeactivateWhole, TypeOK
<1> QED
  BY <1>4, <1>5

(* The same when only a part of the account is deactivated.                *)
LEMMA DeactivateSplitType ==
  ASSUME TypeOK, NEW s \in Stake, NEW new \in Stake, NEW amount \in Nat,
         NEW is_emergency \in BOOLEAN, Unstakable(s), amount <= Recorded(s),
         DeactivateSplit(s, new, amount, is_emergency)
  PROVE  account' \in [Stake -> Account] /\ stake' \in [Stake -> StakeRecord]
<1>1. account[s] \in Account /\ stake[s] \in StakeRecord
  BY DEF TypeOK
<1>2. Voter(s) \in Validator /\ account[s].delegated = Recorded(s)
  BY DEF Unstakable
<1>3. account[s].delegated - amount \in Nat
      /\ stake[s].last_update_delegated_lamports - amount \in Nat
  BY <1>1, <1>2 DEF Account, StakeRecord, Recorded
<1>4. NewStakeRecord(amount, is_emergency, FALSE) \in StakeRecord
  BY NewStakeRecordType
<1>5. [activation |-> DeactivatedFrom(account[s].activation),
       voter |-> Voter(s), delegated |-> amount, extra |-> 0] \in Account
  BY <1>2 DEF DeactivatedFrom, Account, Activation
<1>6. account' \in [Stake -> Account]
  BY <1>1, <1>3, <1>5 DEF DeactivateSplit, TypeOK, Account
<1>7. stake' \in [Stake -> StakeRecord]
  BY <1>1, <1>3, <1>4 DEF DeactivateSplit, TypeOK, StakeRecord
<1> QED
  BY <1>6, <1>7

(* What stake_reserve stakes is a natural.                                 *)
LEMMA ReserveStakeTargetType ==
  ASSUME TypeOK, NEW v \in Validator, StakeDelta > 0
  PROVE  ReserveStakeTarget(v) \in Nat
<1> DEFINE target == ValidatorStakeTarget(v, total_active_balance + StakeDelta)
<1>1. StakeDelta \in Nat
  BY TotalsType
<1>2. validator[v].active_balance \in Nat /\ total_active_balance \in Nat
  BY DEF TypeOK, ValidatorRecord
<1>3. total_active_balance + StakeDelta \in Nat
  BY <1>1, <1>2
<1>4. target \in Nat
  BY <1>3, StakeTargetType
<1> HIDE DEF target
<1>5. Monus(target, validator[v].active_balance) \in Nat
  BY <1>2, <1>4 DEF Monus
<1>6. Lesser(Monus(target, validator[v].active_balance), StakeDelta) \in Nat
  BY <1>1, <1>5 DEF Lesser
<1> QED
  BY <1>1, <1>6 DEF ReserveStakeTarget, target

(* stake_reserve: the reserve holds what is staked.                        *)
LEMMA StakeReserveType ==
  ASSUME TypeOK, NEW v \in Validator, NEW s \in Stake, StakeReserve(v, s)
  PROVE  TypeOK'
<1> DEFINE amount == ReserveStakeTarget(v)
<1>1. StakeDelta > 0
  BY DEF StakeReserve, CanStakeReserve
<1>2. amount \in Nat
  BY <1>1, ReserveStakeTargetType
<1>3. /\ amount <= reserve_pda /\ amount <= available_reserve_balance
      /\ reserve_pda' = reserve_pda - amount
      /\ available_reserve_balance' = available_reserve_balance - amount
      /\ account' = [account EXCEPT ![s] =
           [activation |-> "activating", voter |-> v, delegated |-> amount, extra |-> 0]]
      /\ stake' = [stake EXCEPT ![s] = NewStakeRecord(amount, FALSE, TRUE)]
      /\ validator' = [validator EXCEPT ![v].active_balance = @ + amount,
                                        ![v].last_stake_delta_epoch = epoch]
      /\ total_active_balance' = total_active_balance + amount
      /\ last_stake_delta_epoch' = epoch
      /\ \/ extra_stake_delta_runs > 0 /\ extra_stake_delta_runs' = extra_stake_delta_runs - 1
         \/ UNCHANGED extra_stake_delta_runs
      /\ UNCHANGED <<clockVars, msolVars, coolingVars, moveVars, ticketVars, adminVars,
                     staking_sol_cap, delinquent_upgrader, poolVars>>
  BY DEF StakeReserve, OnTransferFromReserve
<1> HIDE DEF amount
<1>4. /\ reserve_pda' \in Nat /\ available_reserve_balance' \in Nat
      /\ total_active_balance' \in Nat
  BY <1>2, <1>3 DEF TypeOK
<1>5. last_stake_delta_epoch' \in Nat \cup {Never} /\ extra_stake_delta_runs' \in Nat
  BY <1>3 DEF TypeOK
<1>6. account' \in [Stake -> Account]
  BY <1>2, <1>3 DEF TypeOK, Account, Activation
<1>7. stake' \in [Stake -> StakeRecord]
  BY <1>2, <1>3, NewStakeRecordType DEF TypeOK
<1>8. validator' \in [Validator -> ValidatorRecord]
  <2>1. validator[v] \in ValidatorRecord /\ epoch \in Nat
    BY DEF TypeOK
  <2>2. validator[v].active_balance + amount \in Nat
    BY <2>1, <1>2 DEF ValidatorRecord
  <2> QED
    BY <2>1, <2>2, <1>3 DEF TypeOK, ValidatorRecord
<1> QED
  BY <1>3, <1>4, <1>5, <1>6, <1>7, <1>8
     DEF TypeOK, clockVars, msolVars, coolingVars, moveVars, ticketVars, adminVars, poolVars

(* deactivate_stake: no more is split off than the account holds.          *)
LEMMA DeactivateStakeType ==
  ASSUME TypeOK, NEW s \in Stake, NEW new \in Stake, DeactivateStake(s, new)
  PROVE  TypeOK'
<1> DEFINE v      == Voter(s)
           over   == UnstakeFromValidator(v, -StakeDelta)
           target == Monus(Recorded(s), Lesser(over, -StakeDelta))
           whole  == TooSmallToKeep(target)
           amount == IF whole THEN Recorded(s) ELSE Recorded(s) - target
<1>1. /\ Unstakable(s) /\ StakeDelta < 0 /\ v \in Validator
      /\ \/ DeactivateWhole(s, FALSE)
         \/ DeactivateSplit(s, new, amount, FALSE)
      /\ amount <= validator[v].active_balance /\ amount <= total_active_balance
  BY DEF DeactivateStake, CoolDownForTickets, MovableFrom, Unstakable
<1>2. /\ \/ validator' = [validator EXCEPT ![v].active_balance = @ - amount,
                                           ![v].last_stake_delta_epoch = @]
         \/ validator' = [validator EXCEPT ![v].active_balance = @ - amount,
                                           ![v].last_stake_delta_epoch = epoch]
      /\ total_active_balance' = total_active_balance - amount
      /\ delayed_unstake_cooling_down' = delayed_unstake_cooling_down + amount
      /\ last_stake_delta_epoch' = epoch
      /\ UNCHANGED <<clockVars, reserveVars, msolVars, extra_stake_delta_runs,
                     emergency_cooling_down, moveVars, ticketVars, adminVars,
                     staking_sol_cap, delinquent_upgrader, poolVars>>
  BY DEF DeactivateStake, CoolDownForTickets
<1>3. /\ Recorded(s) \in Nat /\ validator[v] \in ValidatorRecord
      /\ validator[v].active_balance \in Nat /\ total_active_balance \in Nat /\ epoch \in Nat
  BY <1>1 DEF TypeOK, StakeRecord, Recorded, ValidatorRecord
<1>4. amount \in Nat /\ amount <= Recorded(s)
  <2>1. -StakeDelta \in Nat
    BY <1>1, TotalsType
  <2> DEFINE share == ValidatorStakeTarget(v, Monus(total_active_balance, -StakeDelta))
  <2>2. Monus(total_active_balance, -StakeDelta) \in Nat
    BY <1>3, <2>1 DEF Monus
  <2>3. share \in Nat
    BY <1>1, <2>2, StakeTargetType
  <2>4. over \in Nat
    <3> HIDE DEF share
    <3>1. Monus(validator[v].active_balance, share) \in Nat
      BY <1>3, <2>3 DEF Monus
    <3> QED
      BY <3>1 DEF UnstakeFromValidator, share
  <2> HIDE DEF over
  <2>5. Lesser(over, -StakeDelta) \in Nat
    BY <2>1, <2>4 DEF Lesser
  <2>6. target \in Nat /\ target <= Recorded(s)
    BY <1>3, <2>5 DEF Monus
  <2> HIDE DEF target
  <2> QED
    BY <1>3, <2>6
<1> HIDE DEF amount
<1>5. account' \in [Stake -> Account] /\ stake' \in [Stake -> StakeRecord]
  BY <1>1, <1>4, DeactivateWholeType, DeactivateSplitType
<1>6. total_active_balance' \in Nat /\ delayed_unstake_cooling_down' \in Nat
  BY <1>1, <1>2, <1>3, <1>4 DEF TypeOK
<1>7. validator' \in [Validator -> ValidatorRecord]
  <2>1. validator[v].active_balance - amount \in Nat
    BY <1>1, <1>3, <1>4
  <2> QED
    BY <2>1, <1>1, <1>2, <1>3 DEF TypeOK, ValidatorRecord
<1> QED
  BY <1>2, <1>5, <1>6, <1>7
     DEF TypeOK, clockVars, reserveVars, msolVars, moveVars, ticketVars, adminVars, poolVars

(* merge_stakes: what a merge adds to the books is not negative.           *)
LEMMA MergeStakesType ==
  ASSUME TypeOK, NEW v \in Validator, NEW source \in Stake, MergeStakes(v, source)
  PROVE  TypeOK'
<1> DEFINE canonical == CanonicalStake[v]
           rent   == IF account[source].activation = "activating" THEN StakeRent ELSE 0
           merged == account[canonical].delegated + account[source].delegated + rent
           extra_delegated == ExtraDelegated(canonical, source, merged)
<1>1. canonical \in Stake
  BY CanonicalAssumption
<1>2. /\ account[canonical].delegated = Recorded(canonical)
      /\ account[source].delegated = Recorded(source)
  BY DEF MergeStakes, Updated, Tidy
<1>3. /\ account' = [account EXCEPT ![canonical].delegated = merged, ![source] = NoAccount]
      /\ stake' = [stake EXCEPT ![canonical].last_update_delegated_lamports = merged,
                                ![source] = NoRecord]
      /\ validator' = [validator EXCEPT ![v].active_balance = @ + extra_delegated]
      /\ total_active_balance' = total_active_balance + extra_delegated
      /\ UNCHANGED <<clockVars, reserveVars, msolVars, coolingVars, deltaVars, moveVars,
                     ticketVars, adminVars, staking_sol_cap, delinquent_upgrader, poolVars>>
  BY DEF MergeStakes
<1>4. Recorded(canonical) \in Nat /\ Recorded(source) \in Nat /\ rent \in Nat
  BY <1>1, RentAssumption DEF TypeOK, StakeRecord, Recorded
<1> HIDE DEF canonical, rent
<1>5. merged \in Nat /\ extra_delegated = rent
  BY <1>2, <1>4 DEF ExtraDelegated
<1> HIDE DEF merged, extra_delegated
<1>6. account' \in [Stake -> Account]
  BY <1>1, <1>3, <1>5, EmptySlotType DEF TypeOK, Account
<1>7. stake' \in [Stake -> StakeRecord]
  BY <1>1, <1>3, <1>5, EmptySlotType DEF TypeOK, StakeRecord
<1>8. validator' \in [Validator -> ValidatorRecord] /\ total_active_balance' \in Nat
  BY <1>3, <1>4, <1>5 DEF TypeOK, ValidatorRecord
<1> QED
  BY <1>3, <1>6, <1>7, <1>8
     DEF TypeOK, clockVars, reserveVars, msolVars, coolingVars, deltaVars, moveVars,
         ticketVars, adminVars, poolVars

(* create_canonical_stake moves an account and its record.                 *)
LEMMA CreateCanonicalStakeType ==
  ASSUME TypeOK, NEW v \in Validator, NEW source \in Stake, CreateCanonicalStake(v, source)
  PROVE  TypeOK'
<1>1. CanonicalStake[v] \in Stake
  BY CanonicalAssumption
<1>2. account[source] \in Account
  BY DEF TypeOK
<1>3. NewStakeRecord(account[source].delegated, FALSE, TRUE) \in StakeRecord
  BY <1>2, NewStakeRecordType DEF Account
<1>4. account' \in [Stake -> Account] /\ stake' \in [Stake -> StakeRecord]
  BY <1>1, <1>2, <1>3, EmptySlotType DEF CreateCanonicalStake, TypeOK
<1> QED
  BY <1>4 DEF CreateCanonicalStake, TypeOK, clockVars, reserveVars, msolVars, validatorVars,
              coolingVars, deltaVars, moveVars, ticketVars, adminVars, poolVars

(* The crank.                                                              *)
LEMMA CrankType == TypeOK /\ CrankStep => TypeOK'
<1> SUFFICES ASSUME TypeOK, CrankStep PROVE TypeOK'
  OBVIOUS
<1>1. ASSUME NEW v \in Validator, SpendExtraRun(v)
      PROVE  TypeOK'
  BY <1>1 DEF SpendExtraRun, TypeOK, clockVars, reserveVars, msolVars, stakeVars,
              validatorVars, coolingVars, moveVars, ticketVars, adminVars, poolVars
<1> QED
  BY <1>1, UpdateActiveType, UpdateDeactivatedType, FinalizeDelinquentUpgradeType,
     StakeReserveType, DeactivateStakeType, MergeStakesType, CreateCanonicalStakeType
     DEF CrankStep

-----------------------------------------------------------------------------
(* The manager.                                                            *)

(* The books an unstaking leaves are well-typed.                           *)
LEMMA MoveToEmergencyType ==
  ASSUME TypeOK, NEW v \in Validator, NEW amount \in Nat, MoveToEmergency(v, amount),
         account' \in [Stake -> Account], stake' \in [Stake -> StakeRecord]
  PROVE  TypeOK'
<1>1. /\ amount <= validator[v].active_balance /\ amount <= total_active_balance
      /\ validator' = [validator EXCEPT ![v].active_balance = @ - amount]
      /\ total_active_balance' = total_active_balance - amount
      /\ emergency_cooling_down' = emergency_cooling_down + amount
      /\ last_stake_move_epoch' = epoch
      /\ \/ stake_moved' = amount + stake_moved
         \/ stake_moved' = amount + 0
      /\ UNCHANGED <<clockVars, reserveVars, msolVars, delayed_unstake_cooling_down,
                     deltaVars, ticketVars, adminVars, staking_sol_cap,
                     delinquent_upgrader, poolVars>>
  BY DEF MoveToEmergency, MovableFrom, OnStakeMoved
<1>2. /\ total_active_balance' \in Nat /\ emergency_cooling_down' \in Nat
      /\ last_stake_move_epoch' \in Nat /\ stake_moved' \in Nat
  BY <1>1 DEF TypeOK
<1>3. validator' \in [Validator -> ValidatorRecord]
  <2>1. validator[v] \in ValidatorRecord
    BY DEF TypeOK
  <2>2. validator[v].active_balance - amount \in Nat
    BY <2>1, <1>1 DEF ValidatorRecord
  <2> QED
    BY <2>1, <2>2, <1>1 DEF TypeOK, ValidatorRecord
<1> QED
  BY <1>1, <1>2, <1>3
     DEF TypeOK, clockVars, reserveVars, msolVars, deltaVars, ticketVars, adminVars, poolVars

(* emergency_unstake.                                                      *)
LEMMA EmergencyUnstakeType ==
  ASSUME TypeOK, NEW s \in Stake, EmergencyUnstake(s)
  PROVE  TypeOK'
<1>1. Voter(s) \in Validator /\ MoveToEmergency(Voter(s), Recorded(s))
  BY DEF EmergencyUnstake, Unstakable
<1>2. Recorded(s) \in Nat
  BY DEF TypeOK, StakeRecord, Recorded
<1>3. account' \in [Stake -> Account] /\ stake' \in [Stake -> StakeRecord]
  BY DeactivateWholeType DEF EmergencyUnstake
<1> QED
  BY <1>1, <1>2, <1>3, MoveToEmergencyType

(* partial_unstake: when the account is split, it holds the amount.        *)
LEMMA PartialUnstakeType ==
  ASSUME TypeOK, NEW s \in Stake, NEW new \in Stake, NEW desired \in UnstakeAmounts,
         PartialUnstake(s, new, desired)
  PROVE  TypeOK'
<1> DEFINE v == Voter(s)
           amount == Lesser(desired, AboveTarget(v))
<1>1. Unstakable(s) /\ v \in Validator /\ total_active_balance + StakeDelta >= 0
  BY DEF PartialUnstake, Unstakable
<1>2. Recorded(s) \in Nat /\ validator[v].active_balance \in Nat /\ total_active_balance \in Nat
  BY <1>1 DEF TypeOK, StakeRecord, Recorded, ValidatorRecord
<1>3. amount \in Nat
  <2>1. total_active_balance + StakeDelta \in Nat
    BY <1>1, <1>2, TotalsType
  <2> DEFINE share == ValidatorStakeTarget(v, total_active_balance + StakeDelta)
  <2>2. share \in Nat
    BY <1>1, <2>1, StakeTargetType
  <2> HIDE DEF share
  <2>3. Monus(validator[v].active_balance, share) \in Nat
    BY <1>2, <2>2 DEF Monus
  <2>4. AboveTarget(v) \in Nat
    BY <2>3 DEF AboveTarget, share
  <2>5. desired \in Nat
    BY ManagementAssumption
  <2> QED
    BY <2>4, <2>5 DEF Lesser
<1>4. CASE UnstakesWhole(s, amount)
  <2>1. DeactivateWhole(s, TRUE) /\ MoveToEmergency(v, Recorded(s))
    BY <1>4 DEF PartialUnstake
  <2> QED
    BY <2>1, <1>1, <1>2, DeactivateWholeType, MoveToEmergencyType
<1>5. CASE ~UnstakesWhole(s, amount)
  <2>1. DeactivateSplit(s, new, amount, TRUE) /\ MoveToEmergency(v, amount)
    BY <1>5 DEF PartialUnstake
  <2>2. amount <= Recorded(s)
    <3>1. config.min_stake \in Nat \ {0}
      BY DEF TypeOK, Config
    <3> HIDE DEF amount
    <3> QED
      BY <1>2, <1>3, <1>5, <3>1 DEF UnstakesWhole, Monus
  <2> HIDE DEF amount
  <2>3. account' \in [Stake -> Account] /\ stake' \in [Stake -> StakeRecord]
    BY <2>1, <2>2, <1>1, <1>3, DeactivateSplitType
  <2> QED
    BY <2>1, <2>3, <1>1, <1>3, MoveToEmergencyType
<1> QED
  BY <1>4, <1>5

(* The manager's instructions, those that change the scores included.      *)
LEMMA ManagerType == TypeOK /\ ManagerStep => TypeOK'
<1> SUFFICES ASSUME TypeOK, ManagerStep PROVE TypeOK'
  OBVIOUS
<1> USE DEF clockVars, reserveVars, msolVars, stakeVars, validatorVars, coolingVars,
            deltaVars, moveVars, ticketVars, adminVars, poolVars
<1>1. ASSUME NEW v \in Validator, NEW score \in Scores, AddValidator(v, score)
      PROVE  TypeOK'
  <2>1. score \in Nat
    BY ManagementAssumption
  <2>2. NewValidatorRecord(score) \in ValidatorRecord
    BY <2>1 DEF NewValidatorRecord, ValidatorRecord
  <2> QED
    BY <1>1, <2>1, <2>2 DEF AddValidator, ChangeValidators, TypeOK
<1>2. ASSUME NEW v \in Validator, RemoveValidator(v)
      PROVE  TypeOK'
  <2>1. total_validator_score' \in Nat
    BY <1>2 DEF RemoveValidator, TypeOK, ValidatorRecord
  <2> QED
    BY <1>2, <2>1, EmptySlotType DEF RemoveValidator, ChangeValidators, TypeOK
<1>3. ASSUME NEW v \in Validator, NEW score \in Scores, SetValidatorScore(v, score)
      PROVE  TypeOK'
  <2>1. score \in Nat /\ validator[v] \in ValidatorRecord
    BY ManagementAssumption DEF TypeOK
  <2>2. [validator[v] EXCEPT !.score = score] \in ValidatorRecord
    BY <2>1 DEF ValidatorRecord
  <2>3. total_validator_score' \in Nat
    BY <1>3, <2>1 DEF SetValidatorScore, ScoreReplaced, TypeOK, ValidatorRecord
  <2> QED
    BY <1>3, <2>2, <2>3 DEF SetValidatorScore, ChangeValidators, TypeOK
<1>4. ASSUME NEW extra_runs \in ExtraRuns, ConfigValidatorSystem(extra_runs)
      PROVE  TypeOK'
  BY <1>4, ManagementAssumption DEF ConfigValidatorSystem, TypeOK
<1> QED
  BY <1>1, <1>2, <1>3, <1>4, EmergencyUnstakeType, PartialUnstakeType DEF ManagerStep

-----------------------------------------------------------------------------
(* The users.                                                              *)

(* The fees users pay are at most what they are taken from.                *)
LEMMA UserFees ==
  ASSUME TypeOK, NEW amount \in Nat
  PROVE  \A fee \in {config.delayed_unstake_fee, config.withdraw_stake_account_fee,
                     config.deposit_sol_fee, config.deposit_stake_account_fee} :
           /\ ApplyFeeCents(fee, amount) \in Nat
           /\ ApplyFeeCents(fee, amount) <= amount
<1>1. SUFFICES ASSUME NEW fee \in {config.delayed_unstake_fee, config.withdraw_stake_account_fee,
                                   config.deposit_sol_fee, config.deposit_stake_account_fee}
               PROVE  /\ ApplyFeeCents(fee, amount) \in Nat
                      /\ ApplyFeeCents(fee, amount) <= amount
  OBVIOUS
<1>2. fee \in 0..MAX_FEE_CENTS
  BY DEF TypeOK, Config
<1>3. MAX_FEE_CENTS \in Nat /\ MAX_BP_CENTS \in Nat /\ MAX_FEE_CENTS <= MAX_BP_CENTS
  BY SMT DEF MAX_FEE_CENTS, MAX_BP_CENTS, MAX_BASIS_POINTS
<1>4. fee \in 0..MAX_BP_CENTS
  BY <1>2, <1>3
<1> QED
  BY <1>4, FeeCentsBound

(* deposit: what the four amounts it computes are.  The pool's leg holds   *)
(* the mSOL it sells.                                                      *)
LEMMA DepositEffect ==
  ASSUME TypeOK, NEW lamports \in DepositAmounts, Deposit(lamports)
  PROVE  \E msol_swapped, sol_swapped, sol_deposited, minted \in Nat :
           /\ msol_swapped <= msol_leg
           /\ msol_leg' = msol_leg - msol_swapped
           /\ sol_leg' = sol_leg + sol_swapped
           /\ reserve_pda' = reserve_pda + sol_deposited
           /\ available_reserve_balance' = available_reserve_balance + sol_deposited
           /\ msol_mint_supply' = msol_mint_supply + minted
           /\ msol_supply' = msol_supply + minted
           /\ UNCHANGED <<clockVars, stakeVars, validatorVars, coolingVars, deltaVars, moveVars,
                          ticketVars, adminVars, staking_sol_cap, delinquent_upgrader,
                          lp_mint_supply, lp_supply>>
<1> DEFINE fee           == ApplyFeeCents(config.deposit_sol_fee, lamports)
           buy_order     == CalcMsolFromLamports(Monus(lamports, fee))
           msol_swapped  == Lesser(buy_order, msol_leg)
           sol_swapped   == IF msol_swapped = 0 THEN 0
                            ELSE IF msol_swapped = buy_order THEN lamports
                            ELSE MsolToSol(msol_swapped)
           sol_deposited == lamports - sol_swapped
           minted        == buy_order - msol_swapped
<1>1. /\ sol_deposited >= 0
      /\ msol_leg' = msol_leg - msol_swapped
      /\ sol_leg' = sol_leg + sol_swapped
      /\ reserve_pda' = reserve_pda + sol_deposited
      /\ available_reserve_balance' = available_reserve_balance + sol_deposited
      /\ msol_mint_supply' = msol_mint_supply + minted
      /\ msol_supply' = msol_supply + minted
      /\ UNCHANGED <<clockVars, stakeVars, validatorVars, coolingVars, deltaVars, moveVars,
                     ticketVars, adminVars, staking_sol_cap, delinquent_upgrader,
                     lp_mint_supply, lp_supply>>
  BY DEF Deposit, OnTransferToReserve, OnMsolMint
<1>2. lamports \in Nat
  BY UsersAssumption
<1>3. Monus(lamports, fee) \in Nat
  <2>1. fee \in Nat
    BY <1>2, UserFees
  <2> HIDE DEF fee
  <2> QED
    BY <1>2, <2>1 DEF Monus
<1>4. buy_order \in Nat
  BY <1>3, PricesType
<1>5. msol_leg \in Nat
  BY DEF TypeOK
<1> HIDE DEF buy_order
<1>6. msol_swapped \in Nat /\ msol_swapped <= msol_leg /\ msol_swapped <= buy_order
  BY <1>4, <1>5 DEF Lesser
<1> HIDE DEF msol_swapped
<1>7. sol_swapped \in Nat
  BY <1>2, <1>6, PricesType
<1> HIDE DEF sol_swapped
<1>8. sol_deposited \in Nat /\ minted \in Nat
  BY <1>1, <1>2, <1>4, <1>6, <1>7
<1> HIDE DEF sol_deposited, minted
<1> QED
  BY <1>1, <1>6, <1>7, <1>8

(* deposit leaves natural balances.                                        *)
LEMMA DepositType ==
  ASSUME TypeOK, NEW lamports \in DepositAmounts, Deposit(lamports)
  PROVE  TypeOK'
<1>1. /\ msol_leg' \in Nat /\ sol_leg' \in Nat /\ reserve_pda' \in Nat
      /\ available_reserve_balance' \in Nat
      /\ msol_mint_supply' \in Nat /\ msol_supply' \in Nat
      /\ UNCHANGED <<clockVars, stakeVars, validatorVars, coolingVars, deltaVars, moveVars,
                     ticketVars, adminVars, staking_sol_cap, delinquent_upgrader,
                     lp_mint_supply, lp_supply>>
  BY DepositEffect DEF TypeOK
<1> QED
  BY <1>1 DEF TypeOK, clockVars, stakeVars, validatorVars, coolingVars, deltaVars,
              moveVars, ticketVars, adminVars

(* deposit_stake_account mints a natural amount.                           *)
LEMMA DepositStakeAccountMints ==
  ASSUME TypeOK, NEW s \in Stake, NEW v \in Validator, NEW delegated \in UserStakes,
         NEW activation \in Activation, DepositStakeAccount(s, v, delegated, activation)
  PROVE  \E minted \in Nat : /\ msol_mint_supply' = msol_mint_supply + minted
                             /\ msol_supply' = msol_supply + minted
<1> DEFINE fee    == ApplyFeeCents(config.deposit_stake_account_fee, delegated)
           minted == CalcMsolFromLamports(Monus(delegated, fee))
<1>1. /\ msol_mint_supply' = msol_mint_supply + minted
      /\ msol_supply' = msol_supply + minted
  BY DEF DepositStakeAccount, MintForStake, OnMsolMint
<1>2. delegated \in Nat
  BY UsersAssumption
<1>3. fee \in Nat
  BY <1>2, UserFees
<1> HIDE DEF fee
<1>4. Monus(delegated, fee) \in Nat
  BY <1>2, <1>3 DEF Monus
<1>5. minted \in Nat
  BY <1>4, PricesType
<1> HIDE DEF minted
<1> QED
  BY <1>1, <1>5

(* deposit_stake_account adds the delegation to three balances.            *)
LEMMA DepositStakeAccountType ==
  ASSUME TypeOK, NEW s \in Stake, NEW v \in Validator, NEW delegated \in UserStakes,
         NEW activation \in Activation, DepositStakeAccount(s, v, delegated, activation)
  PROVE  TypeOK'
<1> DEFINE up == delinquent_upgrader
<1>1. /\ account' = [account EXCEPT ![s] =
           [activation |-> activation, voter |-> v, delegated |-> delegated, extra |-> 0]]
      /\ stake' = [stake EXCEPT ![s] = NewStakeRecord(delegated, FALSE, TRUE)]
      /\ \E d \in {0, delegated} : validator' = [validator EXCEPT
           ![v].active_balance = @ + delegated,
           ![v].delinquent_upgrader_active_balance = @ + d]
      /\ total_active_balance' = total_active_balance + delegated
      /\ \/ delinquent_upgrader' = up
         \/ delinquent_upgrader' = [up EXCEPT !.visited_count = @ + 1,
                                              !.total_active_balance = @ + delegated]
      /\ UNCHANGED <<clockVars, reserveVars, coolingVars, deltaVars, moveVars, ticketVars,
                     adminVars, staking_sol_cap, poolVars>>
  BY DEF DepositStakeAccount, CountDeposited, TakeOver
<1>2. delegated \in Nat
  BY UsersAssumption
<1>4. account' \in [Stake -> Account] /\ stake' \in [Stake -> StakeRecord]
  BY <1>1, <1>2, NewStakeRecordType DEF TypeOK, Account
<1>5. validator' \in [Validator -> ValidatorRecord]
  <2>1. PICK d \in {0, delegated} : validator' = [validator EXCEPT
           ![v].active_balance = @ + delegated,
           ![v].delinquent_upgrader_active_balance = @ + d]
    BY <1>1
  <2>2. validator[v] \in ValidatorRecord /\ d \in Nat
    BY <1>2 DEF TypeOK
  <2>3. /\ validator[v].active_balance + delegated \in Nat
        /\ validator[v].delinquent_upgrader_active_balance + d \in Nat
    BY <2>2, <1>2 DEF ValidatorRecord
  <2> QED
    BY <2>1, <2>2, <2>3 DEF TypeOK, ValidatorRecord
<1>6. delinquent_upgrader' \in Upgrader
  <2>1. up \in Upgrader
    BY DEF TypeOK
  <2>2. up.visited_count + 1 \in Nat /\ up.total_active_balance + delegated \in Nat
    BY <2>1, <1>2 DEF Upgrader
  <2> QED
    BY <2>1, <2>2, <1>1 DEF Upgrader
<1>7. /\ total_active_balance' \in Nat /\ msol_mint_supply' \in Nat
      /\ msol_supply' \in Nat
  BY <1>1, <1>2, DepositStakeAccountMints DEF TypeOK
<1> QED
  BY <1>1, <1>4, <1>5, <1>6, <1>7
     DEF TypeOK, clockVars, reserveVars, coolingVars, deltaVars, moveVars, ticketVars,
         adminVars, poolVars

(* withdraw_stake_account: the account holds what leaves, and no more mSOL *)
(* is burned than users hold.                                              *)
LEMMA WithdrawStakeAccountEffect ==
  ASSUME TypeOK, NEW s \in Stake, NEW msol_amount \in MsolAmounts,
         WithdrawStakeAccount(s, msol_amount)
  PROVE  \E split_lamports, burned \in Nat :
           /\ Voter(s) \in Validator /\ account[s].delegated = Recorded(s)
           /\ burned <= msol_mint_supply - msol_leg /\ burned <= msol_supply
           /\ Recorded(s) - split_lamports >= config.min_stake
           /\ split_lamports <= validator[Voter(s)].active_balance
           /\ split_lamports <= total_active_balance
           /\ msol_mint_supply' = msol_mint_supply - burned
           /\ msol_supply' = msol_supply - burned
           /\ account' = [account EXCEPT ![s].delegated = @ - split_lamports]
           /\ stake' = [stake EXCEPT ![s].last_update_delegated_lamports = @ - split_lamports]
           /\ validator' = [validator EXCEPT ![Voter(s)].active_balance = @ - split_lamports]
           /\ total_active_balance' = total_active_balance - split_lamports
           /\ UNCHANGED <<clockVars, reserveVars, coolingVars, deltaVars, moveVars, ticketVars,
                          adminVars, staking_sol_cap, delinquent_upgrader, poolVars>>
<1> DEFINE v              == Voter(s)
           sol_value      == MsolToSol(msol_amount)
           fee            == ApplyFeeCents(config.withdraw_stake_account_fee, sol_value)
           split_lamports == sol_value - fee
           msol_fees      == IF TreasuryReady
                             THEN Monus(msol_amount, CalcMsolFromLamports(split_lamports))
                             ELSE 0
           burned         == msol_amount - msol_fees
<1>1. /\ v \in Validator /\ account[s].delegated = Recorded(s)
      /\ msol_amount <= msol_mint_supply - msol_leg
      /\ Recorded(s) - split_lamports >= config.min_stake
      /\ burned <= msol_supply
      /\ split_lamports <= validator[v].active_balance
      /\ split_lamports <= total_active_balance
  BY DEF WithdrawStakeAccount, SplitToUser, SplitLamports, WithdrawFees, Unstakable,
         UserMsol, EnoughRemains, OnMsolBurn, MovableFrom
<1>2. /\ msol_mint_supply' = msol_mint_supply - burned
      /\ msol_supply' = msol_supply - burned
      /\ account' = [account EXCEPT ![s].delegated = @ - split_lamports]
      /\ stake' = [stake EXCEPT ![s].last_update_delegated_lamports = @ - split_lamports]
      /\ validator' = [validator EXCEPT ![v].active_balance = @ - split_lamports]
      /\ total_active_balance' = total_active_balance - split_lamports
      /\ UNCHANGED <<clockVars, reserveVars, coolingVars, deltaVars, moveVars, ticketVars,
                     adminVars, staking_sol_cap, delinquent_upgrader, poolVars>>
  BY DEF WithdrawStakeAccount, SplitToUser, SplitLamports, WithdrawFees, OnMsolBurn
<1>3. msol_amount \in Nat
  BY UsersAssumption
<1>4. split_lamports \in Nat
  <2>1. sol_value \in Nat
    BY <1>3, PricesType
  <2> HIDE DEF sol_value
  <2>2. fee \in Nat /\ fee <= sol_value
    BY <2>1, UserFees
  <2> HIDE DEF fee
  <2> QED
    BY <2>1, <2>2
<1> HIDE DEF split_lamports
<1>5. burned \in Nat /\ burned <= msol_amount
  <2>1. CalcMsolFromLamports(split_lamports) \in Nat
    BY <1>4, PricesType
  <2>2. msol_fees \in Nat /\ msol_fees <= msol_amount
    BY <1>3, <2>1 DEF Monus
  <2> HIDE DEF msol_fees
  <2> QED
    BY <1>3, <2>2
<1> HIDE DEF burned
<1>6. burned <= msol_mint_supply - msol_leg
  BY <1>1, <1>3, <1>5 DEF TypeOK
<1> QED
  BY <1>1, <1>2, <1>4, <1>5, <1>6

(* withdraw_stake_account leaves natural balances.                         *)
LEMMA WithdrawStakeAccountType ==
  ASSUME TypeOK, NEW s \in Stake, NEW msol_amount \in MsolAmounts,
         WithdrawStakeAccount(s, msol_amount)
  PROVE  TypeOK'
<1> DEFINE v == Voter(s)
<1>1. PICK split_lamports \in Nat, burned \in Nat :
           /\ v \in Validator /\ account[s].delegated = Recorded(s)
           /\ burned <= msol_mint_supply - msol_leg /\ burned <= msol_supply
           /\ Recorded(s) - split_lamports >= config.min_stake
           /\ split_lamports <= validator[v].active_balance
           /\ split_lamports <= total_active_balance
           /\ msol_mint_supply' = msol_mint_supply - burned
           /\ msol_supply' = msol_supply - burned
           /\ account' = [account EXCEPT ![s].delegated = @ - split_lamports]
           /\ stake' = [stake EXCEPT ![s].last_update_delegated_lamports = @ - split_lamports]
           /\ validator' = [validator EXCEPT ![v].active_balance = @ - split_lamports]
           /\ total_active_balance' = total_active_balance - split_lamports
           /\ UNCHANGED <<clockVars, reserveVars, coolingVars, deltaVars, moveVars, ticketVars,
                          adminVars, staking_sol_cap, delinquent_upgrader, poolVars>>
  BY WithdrawStakeAccountEffect
<1>6. /\ account[s] \in Account /\ stake[s] \in StakeRecord
      /\ validator[v] \in ValidatorRecord /\ config.min_stake \in Nat
      /\ total_active_balance \in Nat /\ msol_mint_supply \in Nat /\ msol_supply \in Nat
      /\ msol_leg \in Nat
  BY <1>1 DEF TypeOK, Config
<1>7. /\ account[s].delegated - split_lamports \in Nat
      /\ stake[s].last_update_delegated_lamports - split_lamports \in Nat
      /\ validator[v].active_balance - split_lamports \in Nat
  BY <1>1, <1>6 DEF Account, StakeRecord, ValidatorRecord, Recorded
<1>8. account' \in [Stake -> Account] /\ stake' \in [Stake -> StakeRecord]
  BY <1>1, <1>6, <1>7 DEF TypeOK, Account, StakeRecord
<1>9. validator' \in [Validator -> ValidatorRecord]
  BY <1>1, <1>6, <1>7 DEF TypeOK, ValidatorRecord
<1>10. /\ total_active_balance' \in Nat /\ msol_mint_supply' \in Nat
       /\ msol_supply' \in Nat
  BY <1>1, <1>6
<1> QED
  BY <1>1, <1>8, <1>9, <1>10
     DEF TypeOK, clockVars, reserveVars, coolingVars, deltaVars, moveVars, ticketVars,
         adminVars, poolVars

(* order_unstake: the ticket is over a natural amount, and the mSOL that   *)
(* is burned is not in the pool.                                           *)
LEMMA OrderUnstakeEffect ==
  ASSUME TypeOK, NEW t \in Ticket, NEW msol_amount \in MsolAmounts,
         OrderUnstake(t, msol_amount)
  PROVE  \E lamports, created \in Nat :
           /\ ~ticket[t].open
           /\ msol_amount <= msol_mint_supply - msol_leg /\ msol_amount <= msol_supply
           /\ circulating_ticket_balance' = circulating_ticket_balance + lamports
           /\ circulating_ticket_count' = circulating_ticket_count + 1
           /\ msol_mint_supply' = msol_mint_supply - msol_amount
           /\ msol_supply' = msol_supply - msol_amount
           /\ ticket' = [ticket EXCEPT ![t] =
                [open |-> TRUE, lamports_amount |-> lamports, created_epoch |-> created]]
           /\ UNCHANGED <<clockVars, reserveVars, stakeVars, validatorVars, coolingVars,
                          deltaVars, moveVars, adminVars, staking_sol_cap,
                          delinquent_upgrader, poolVars>>
<1> DEFINE sol_value == MsolToSol(msol_amount)
           fee       == ApplyFeeCents(config.delayed_unstake_fee, sol_value)
           lamports  == sol_value - fee
           created   == CreatedEpoch
<1>1. /\ ~ticket[t].open
      /\ msol_amount <= msol_mint_supply - msol_leg /\ msol_amount <= msol_supply
      /\ circulating_ticket_balance' = circulating_ticket_balance + lamports
      /\ circulating_ticket_count' = circulating_ticket_count + 1
      /\ msol_mint_supply' = msol_mint_supply - msol_amount
      /\ msol_supply' = msol_supply - msol_amount
      /\ ticket' = [ticket EXCEPT ![t] =
           [open |-> TRUE, lamports_amount |-> lamports, created_epoch |-> created]]
      /\ UNCHANGED <<clockVars, reserveVars, stakeVars, validatorVars, coolingVars, deltaVars,
                     moveVars, adminVars, staking_sol_cap, delinquent_upgrader, poolVars>>
  BY DEF OrderUnstake, UserMsol, OnMsolBurn
<1>2. lamports \in Nat
  <2>1. sol_value \in Nat
    BY UsersAssumption, PricesType
  <2> HIDE DEF sol_value
  <2>2. fee \in Nat /\ fee <= sol_value
    BY <2>1, UserFees
  <2> HIDE DEF fee
  <2> QED
    BY <2>1, <2>2
<1>3. created \in Nat
  BY DEF TypeOK, CreatedEpoch
<1> HIDE DEF lamports, created
<1> QED
  BY <1>1, <1>2, <1>3

(* order_unstake leaves natural balances.                                  *)
LEMMA OrderUnstakeType ==
  ASSUME TypeOK, NEW t \in Ticket, NEW msol_amount \in MsolAmounts,
         OrderUnstake(t, msol_amount)
  PROVE  TypeOK'
<1>1. msol_amount \in Nat
  BY UsersAssumption
<1>2. /\ circulating_ticket_balance' \in Nat /\ circulating_ticket_count' \in Nat
      /\ msol_mint_supply' \in Nat /\ msol_supply' \in Nat
      /\ UNCHANGED <<clockVars, reserveVars, stakeVars, validatorVars, coolingVars, deltaVars,
                     moveVars, adminVars, staking_sol_cap, delinquent_upgrader, poolVars>>
  BY <1>1, OrderUnstakeEffect DEF TypeOK
<1>3. ticket' \in [Ticket -> TicketRecord]
  <2>1. PICK lamports \in Nat, created \in Nat : ticket' = [ticket EXCEPT ![t] =
          [open |-> TRUE, lamports_amount |-> lamports, created_epoch |-> created]]
    BY OrderUnstakeEffect
  <2> QED
    BY <2>1 DEF TypeOK, TicketRecord
<1> QED
  BY <1>2, <1>3
     DEF TypeOK, clockVars, reserveVars, stakeVars, validatorVars, coolingVars, deltaVars,
         moveVars, adminVars, poolVars

(* claim: the reserve and the tickets' total hold what is paid.            *)
LEMMA ClaimType ==
  ASSUME TypeOK, NEW t \in Ticket, Claim(t)
  PROVE  TypeOK'
<1> DEFINE lamports == ticket[t].lamports_amount
<1>1. /\ lamports <= circulating_ticket_balance
      /\ lamports <= reserve_pda /\ lamports <= available_reserve_balance
      /\ circulating_ticket_balance' = circulating_ticket_balance - lamports
      /\ circulating_ticket_count > 0
      /\ circulating_ticket_count' = circulating_ticket_count - 1
      /\ ticket' = [ticket EXCEPT ![t] = ClosedTicket]
      /\ reserve_pda' = reserve_pda - lamports
      /\ available_reserve_balance' = available_reserve_balance - lamports
      /\ UNCHANGED <<clockVars, msolVars, stakeVars, validatorVars, coolingVars, deltaVars,
                     moveVars, adminVars, staking_sol_cap, delinquent_upgrader, poolVars>>
  BY DEF Claim, CloseTicket, OnTransferFromReserve
<1>2. lamports \in Nat
  BY DEF TypeOK, TicketRecord
<1> HIDE DEF lamports
<1>3. /\ circulating_ticket_balance' \in Nat /\ circulating_ticket_count' \in Nat
      /\ reserve_pda' \in Nat /\ available_reserve_balance' \in Nat
  BY <1>1, <1>2 DEF TypeOK
<1>4. ticket' \in [Ticket -> TicketRecord]
  BY <1>1, EmptySlotType DEF TypeOK
<1> QED
  BY <1>1, <1>3, <1>4
     DEF TypeOK, clockVars, msolVars, stakeVars, validatorVars, coolingVars, deltaVars,
         moveVars, adminVars, poolVars

(* The users' instructions.                                                *)
LEMMA UserType == TypeOK /\ UserStep => TypeOK'
BY DepositType, DepositStakeAccountType, WithdrawStakeAccountType, OrderUnstakeType, ClaimType
   DEF UserStep

-----------------------------------------------------------------------------
(* The liquidity pool.                                                     *)

(* The fee of liquid_unstake is at most LP_MAX_FEE, wherever the liquidity *)
(* is between nothing and its target.                                      *)
LEMMA LiquidUnstakeFeeType ==
  ASSUME TypeOK, NEW user_remove_lamports \in Nat
  PROVE  LiquidUnstakeFee(user_remove_lamports) \in 0..MAX_BASIS_POINTS
<1>1. /\ config.lp_max_fee \in 0..LP_MAX_FEE /\ config.lp_min_fee \in 0..LP_MAX_FEE
      /\ config.lp_liquidity_target \in Nat /\ sol_leg \in Nat
  BY DEF TypeOK, Config
<1>2. LP_MAX_FEE \in Nat /\ MAX_BASIS_POINTS \in Nat /\ LP_MAX_FEE <= MAX_BASIS_POINTS
  BY SMT DEF LP_MAX_FEE, MAX_BASIS_POINTS
<1> DEFINE liquidity == Monus(sol_leg, RentExempt)
           range     == Monus(config.lp_max_fee, config.lp_min_fee)
<1>3. /\ config.lp_max_fee \in Nat /\ config.lp_min_fee \in Nat
      /\ config.lp_max_fee <= MAX_BASIS_POINTS /\ config.lp_min_fee <= MAX_BASIS_POINTS
  BY <1>1, <1>2
<1>4. liquidity \in Nat
  BY <1>1, RentAssumption DEF Monus
<1>5. range \in Nat /\ range <= config.lp_max_fee
  BY <1>3 DEF Monus
<1> HIDE DEF liquidity, range
<1>6. ASSUME NEW lamports \in Nat
      PROVE  LinearFee(lamports) \in 0..MAX_BASIS_POINTS
  <2>1. CASE lamports >= config.lp_liquidity_target
    BY <2>1, <1>2, <1>3 DEF LinearFee
  <2>2. CASE ~(lamports >= config.lp_liquidity_target)
    <3> DEFINE slope == Proportional(range, lamports, config.lp_liquidity_target)
    <3>1. config.lp_liquidity_target \in Nat \ {0} /\ lamports <= config.lp_liquidity_target
      BY <2>2, <1>1
    <3>2. slope \in Nat
      BY <1>5, <3>1, ProportionalType
    <3>3. slope <= range
      <4>1. (range * lamports) \div config.lp_liquidity_target <= range
        BY <1>5, <3>1, FractionBound
      <4> QED
        BY <3>1, <4>1 DEF Proportional
    <3>4. LinearFee(lamports) = config.lp_max_fee - slope
      BY <2>2 DEF LinearFee, range
    <3> HIDE DEF slope
    <3> QED
      BY <1>2, <1>3, <1>5, <3>2, <3>3, <3>4
  <2> QED
    BY <2>1, <2>2
<1>7. CASE user_remove_lamports >= liquidity
  BY <1>2, <1>3, <1>7 DEF LiquidUnstakeFee, liquidity
<1>8. CASE ~(user_remove_lamports >= liquidity)
  <2>1. liquidity - user_remove_lamports \in Nat
    BY <1>4, <1>8
  <2>2. LiquidUnstakeFee(user_remove_lamports) = LinearFee(liquidity - user_remove_lamports)
    BY <1>8 DEF LiquidUnstakeFee, liquidity
  <2> QED
    BY <1>6, <2>1, <2>2
<1> QED
  BY <1>7, <1>8

(* liquid_unstake: the fee, and the treasury's cut of it, are parts of the *)
(* mSOL the user sells.                                                    *)
LEMMA LiquidUnstakeEffect ==
  ASSUME TypeOK, NEW msol_amount \in MsolAmounts, LiquidUnstake(msol_amount)
  PROVE  \E working, kept \in Nat :
           /\ working + RentExempt <= sol_leg
           /\ kept <= msol_amount
           /\ sol_leg' = sol_leg - working
           /\ msol_leg' = msol_leg + kept
           /\ msol_amount <= msol_mint_supply - msol_leg
           /\ UNCHANGED <<stakingVars, msolVars, lp_mint_supply, lp_supply>>
<1> DEFINE msol_fee == ApplyFee(LiquidUnstakeFee(MsolToSol(msol_amount)), msol_amount)
           working  == MsolToSol(msol_amount - msol_fee)
           cut      == IF TreasuryReady THEN ApplyFee(config.treasury_cut, msol_fee) ELSE 0
           kept     == msol_amount - cut
<1>1. /\ working + RentExempt <= sol_leg
      /\ sol_leg' = sol_leg - working
      /\ msol_leg' = msol_leg + msol_amount - cut
      /\ msol_amount <= msol_mint_supply - msol_leg
      /\ UNCHANGED <<stakingVars, msolVars, lp_mint_supply, lp_supply>>
  BY DEF LiquidUnstake, UserMsol
<1>2. msol_amount \in Nat
  BY UsersAssumption
<1>3. msol_fee \in Nat /\ msol_fee <= msol_amount
  BY <1>2, PricesType, LiquidUnstakeFeeType, FeeBound
<1>4. cut \in Nat /\ cut <= msol_fee
  <2>1. config.treasury_cut \in 0..LP_MAX_TREASURY_CUT
    BY DEF TypeOK, Config
  <2>2. config.treasury_cut \in 0..MAX_BASIS_POINTS
    BY <2>1, SMT DEF LP_MAX_TREASURY_CUT, MAX_BASIS_POINTS
  <2> HIDE DEF msol_fee
  <2>3. /\ ApplyFee(config.treasury_cut, msol_fee) \in Nat
        /\ ApplyFee(config.treasury_cut, msol_fee) <= msol_fee
    BY <1>3, <2>2, FeeBound
  <2> QED
    BY <1>3, <2>3
<1>5. working \in Nat
  <2> HIDE DEF msol_fee
  <2>1. msol_amount - msol_fee \in Nat
    BY <1>2, <1>3
  <2> QED
    BY <2>1, PricesType
<1> HIDE DEF working, cut, msol_fee
<1>6. kept \in Nat /\ kept <= msol_amount /\ msol_leg' = msol_leg + kept
  BY <1>1, <1>2, <1>3, <1>4 DEF TypeOK
<1> HIDE DEF kept
<1> QED
  BY <1>1, <1>5, <1>6

(* liquid_unstake leaves natural balances.                                 *)
LEMMA LiquidUnstakeType ==
  ASSUME TypeOK, NEW msol_amount \in MsolAmounts, LiquidUnstake(msol_amount)
  PROVE  TypeOK'
<1>1. /\ sol_leg' \in Nat /\ msol_leg' \in Nat
      /\ UNCHANGED <<stakingVars, msolVars, lp_mint_supply, lp_supply>>
  BY LiquidUnstakeEffect, RentAssumption DEF TypeOK
<1> QED
  BY <1>1
     DEF TypeOK, stakingVars, clockVars, reserveVars, msolVars, stakeVars, validatorVars,
         coolingVars, deltaVars, moveVars, ticketVars, adminVars

(* add_liquidity.                                                          *)
LEMMA AddLiquidityType ==
  ASSUME TypeOK, NEW lamports \in LiquidityAmounts, AddLiquidity(lamports)
  PROVE  TypeOK'
<1> DEFINE shares == SharesFromValue(lamports, TotalPoolValue, lp_mint_supply)
<1>1. /\ sol_leg >= RentExempt
      /\ sol_leg' = sol_leg + lamports
      /\ lp_mint_supply' = lp_mint_supply + shares
      /\ lp_supply' = lp_mint_supply'
      /\ UNCHANGED <<stakingVars, msolVars, msol_leg>>
  BY DEF AddLiquidity
<1>2. lamports \in Nat
  BY LiqPoolAssumption
<1>3. sol_leg \in Nat /\ msol_leg \in Nat /\ lp_mint_supply \in Nat
  BY DEF TypeOK
<1>4. TotalPoolValue \in Nat
  <2>1. MsolToSol(msol_leg) \in Nat
    BY <1>3, PricesType
  <2> QED
    BY <2>1, <1>1, <1>3, RentAssumption DEF TotalPoolValue, SolLegLiquidity
<1>5. shares \in Nat
  BY <1>2, <1>3, <1>4, SharesType
<1> HIDE DEF shares
<1>6. sol_leg' \in Nat /\ lp_mint_supply' \in Nat /\ lp_supply' \in Nat
  BY <1>1, <1>2, <1>3, <1>5
<1> QED
  BY <1>1, <1>6
     DEF TypeOK, stakingVars, clockVars, reserveVars, msolVars, stakeVars, validatorVars,
         coolingVars, deltaVars, moveVars, ticketVars, adminVars

(* remove_liquidity: both legs hold the share that leaves.                 *)
LEMMA RemoveLiquidityEffect ==
  ASSUME TypeOK, NEW tokens \in LpAmounts, RemoveLiquidity(tokens)
  PROVE  \E supply, sol_out, msol_out \in Nat :
           /\ tokens <= lp_mint_supply /\ tokens <= supply
           /\ supply <= lp_supply /\ supply <= lp_mint_supply
           /\ sol_out <= sol_leg - RentExempt /\ msol_out <= msol_leg
           /\ sol_leg' = sol_leg - sol_out
           /\ msol_leg' = msol_leg - msol_out
           /\ lp_mint_supply' = lp_mint_supply - tokens
           /\ lp_supply' = supply - tokens
           /\ (lp_mint_supply <= lp_supply => supply = lp_mint_supply)
           /\ UNCHANGED <<stakingVars, msolVars>>
<1> DEFINE supply   == IF lp_mint_supply > lp_supply THEN lp_supply ELSE lp_mint_supply
           sol_out  == Proportional(tokens, SolLegLiquidity, supply)
           msol_out == Proportional(tokens, msol_leg, supply)
<1>1. /\ tokens <= lp_mint_supply /\ tokens <= supply /\ sol_leg >= RentExempt
      /\ sol_out <= sol_leg /\ msol_out <= msol_leg
      /\ sol_leg' = sol_leg - sol_out
      /\ msol_leg' = msol_leg - msol_out
      /\ lp_mint_supply' = lp_mint_supply - tokens
      /\ lp_supply' = supply - tokens
      /\ UNCHANGED <<stakingVars, msolVars>>
  BY DEF RemoveLiquidity
<1>2. tokens \in Nat
  BY LiqPoolAssumption
<1>3. /\ sol_leg \in Nat /\ msol_leg \in Nat /\ lp_mint_supply \in Nat
      /\ lp_supply \in Nat /\ supply \in Nat
      /\ supply <= lp_supply /\ supply <= lp_mint_supply
      /\ (lp_mint_supply <= lp_supply => supply = lp_mint_supply)
  BY DEF TypeOK
<1> HIDE DEF supply
<1>4. SolLegLiquidity \in Nat
  BY <1>1, <1>3, RentAssumption DEF SolLegLiquidity
<1>5. sol_out \in Nat /\ msol_out \in Nat
  BY <1>2, <1>3, <1>4, ProportionalType
<1>6. sol_out <= SolLegLiquidity
  <2>1. CASE supply = 0
    BY <2>1, <1>1, <1>2, <1>4 DEF Proportional
  <2>2. CASE supply # 0
    BY <2>2, <1>1, <1>2, <1>3, <1>4, ProportionalBound
  <2> QED
    BY <2>1, <2>2
<1> HIDE DEF sol_out, msol_out
<1> QED
  BY <1>1, <1>3, <1>5, <1>6 DEF SolLegLiquidity

(* remove_liquidity leaves natural balances.                               *)
LEMMA RemoveLiquidityType ==
  ASSUME TypeOK, NEW tokens \in LpAmounts, RemoveLiquidity(tokens)
  PROVE  TypeOK'
<1>1. tokens \in Nat
  BY LiqPoolAssumption
<1>2. /\ sol_leg' \in Nat /\ msol_leg' \in Nat /\ lp_mint_supply' \in Nat
      /\ lp_supply' \in Nat
      /\ UNCHANGED <<stakingVars, msolVars>>
  BY <1>1, RemoveLiquidityEffect, RentAssumption DEF TypeOK
<1> QED
  BY <1>2
     DEF TypeOK, stakingVars, clockVars, reserveVars, msolVars, stakeVars, validatorVars,
         coolingVars, deltaVars, moveVars, ticketVars, adminVars

(* The pool's instructions, and what reaches the pool from outside.        *)
LEMMA PoolType == TypeOK /\ PoolStep => TypeOK'
<1> SUFFICES ASSUME TypeOK, PoolStep PROVE TypeOK'
  OBVIOUS
<1> USE DEF stakingVars, clockVars, reserveVars, msolVars, stakeVars, validatorVars,
            coolingVars, deltaVars, moveVars, ticketVars, adminVars
<1>1. ASSUME NEW tokens \in LpAmounts, BurnLp(tokens)
      PROVE  TypeOK'
  <2>1. lp_mint_supply' \in Nat
    BY <1>1, LiqPoolAssumption DEF BurnLp, TypeOK
  <2> QED
    BY <1>1, <2>1 DEF BurnLp, TypeOK
<1>2. ASSUME NEW lamports \in Donations, DonateSolLeg(lamports)
      PROVE  TypeOK'
  <2>1. sol_leg' \in Nat
    BY <1>2, ClusterAssumption DEF DonateSolLeg, TypeOK
  <2> QED
    BY <1>2, <2>1 DEF DonateSolLeg, TypeOK
<1> QED
  BY <1>1, <1>2, AddLiquidityType, RemoveLiquidityType, LiquidUnstakeType DEF PoolStep

-----------------------------------------------------------------------------
(* The admin.                                                              *)
LEMMA AdminType == TypeOK /\ AdminStep => TypeOK'
<1> SUFFICES ASSUME TypeOK, AdminStep PROVE TypeOK'
  OBVIOUS
<1> USE DEF adminUnchanged, clockVars, reserveVars, msolVars, stakeVars, validatorVars,
            coolingVars, deltaVars, moveVars, ticketVars, poolVars
<1>1. ASSUME NEW new_config \in ConfigChoices, NEW new_cap \in CapChoices,
             ConfigMarinade(new_config, new_cap)
      PROVE  TypeOK'
  <2>1. config' \in Config /\ staking_sol_cap' \in Nat
    BY <1>1, ConfigAssumption DEF ConfigMarinade, TypeOK, Config
  <2> QED
    BY <1>1, <2>1 DEF ConfigMarinade, TypeOK
<1>4. ASSUME NEW new_config \in ConfigChoices, ConfigLp(new_config)
      PROVE  TypeOK'
  <2>1. config' \in Config
    BY <1>4, ConfigAssumption DEF ConfigLp, TypeOK, Config
  <2> QED
    BY <1>4, <2>1 DEF ConfigLp, TypeOK
<1>2. CASE Pause
  BY <1>2 DEF Pause, TypeOK
<1>3. CASE Resume
  BY <1>3 DEF Resume, TypeOK
<1> QED
  BY <1>1, <1>2, <1>3, <1>4 DEF AdminStep

-----------------------------------------------------------------------------
(* Every reachable state is well-typed: no unsigned balance of the program *)
(* is ever negative, whatever the instances and the order of instructions. *)
LEMMA StepType == TypeOK /\ [Next]_vars => TypeOK'
<1>1. TypeOK /\ UNCHANGED vars => TypeOK'
  BY DEF TypeOK, vars, clockVars, reserveVars, msolVars, stakeVars, validatorVars,
         coolingVars, deltaVars, moveVars, ticketVars, adminVars, poolVars
<1> QED
  BY <1>1, EnvironmentType, CrankType, UserType, PoolType, ManagerType, AdminType DEF Next

(* TypeOK of MarinadeProperties, for every value of the constants.         *)
THEOREM TypeCorrect == Spec => []TypeOK
BY InitType, StepType, PTL DEF Spec

-----------------------------------------------------------------------------
(* The balances outside the State account cover what the State says of     *)
(* them, the tickets' totals are sums, and stake is moved for the tickets  *)
(* and towards the shares as far as the stake delta asks.  The invariants  *)
(* are inductive on top of TypeOK.                                         *)

\* The steps that leave the reserve, the mSOL, the tickets and the pool alone.
Quiet ==
  \/ Tick
  \/ NewEpoch
  \/ \E s \in Stake : DeactivateDelinquent(s)
  \/ \E s \in Stake, lamports \in Tips : Tip(s, lamports)
  \/ \E s \in Stake, lamports \in Slashes : Slash(s, lamports)
  \/ \E batch \in SUBSET Validator : FinalizeDelinquentUpgrade(batch)
  \/ \E v \in Validator : SpendExtraRun(v)
  \/ \E s, new \in Stake : DeactivateStake(s, new)
  \/ \E v \in Validator, source \in Stake : MergeStakes(v, source)
  \/ \E v \in Validator, source \in Stake : CreateCanonicalStake(v, source)
  \/ ManagerStep
  \/ AdminStep
  \/ UNCHANGED vars

covered == <<reserveVars, msolVars, ticketVars, poolVars>>

(* A quiet step leaves these variables alone.                              *)
LEMMA QuietFrame == Quiet => UNCHANGED covered
<1> USE DEF covered, reserveVars, msolVars, ticketVars, poolVars
<1>1. Tick \/ NewEpoch => UNCHANGED covered
  BY DEF Tick, NewEpoch
<1>2. ASSUME NEW s \in Stake
      PROVE  /\ DeactivateDelinquent(s) => UNCHANGED covered
             /\ \A lamports : Tip(s, lamports) => UNCHANGED covered
             /\ \A lamports : Slash(s, lamports) => UNCHANGED covered
  BY DEF DeactivateDelinquent, Tip, Slash, ChangeAccount
<1>3. ASSUME NEW batch, FinalizeDelinquentUpgrade(batch)
      PROVE  UNCHANGED covered
  BY <1>3 DEF FinalizeDelinquentUpgrade
<1>4. ASSUME NEW v \in Validator
      PROVE  /\ SpendExtraRun(v) => UNCHANGED covered
             /\ \A source : MergeStakes(v, source) => UNCHANGED covered
             /\ \A source : CreateCanonicalStake(v, source) => UNCHANGED covered
  BY DEF SpendExtraRun, MergeStakes, CreateCanonicalStake
<1>5. ASSUME NEW s, NEW new, DeactivateStake(s, new)
      PROVE  UNCHANGED covered
  BY <1>5 DEF DeactivateStake
<1>6. ManagerStep => UNCHANGED covered
  <2>1. ASSUME NEW v, NEW score
        PROVE  AddValidator(v, score) \/ RemoveValidator(v) \/ SetValidatorScore(v, score)
                 => UNCHANGED covered
    BY DEF AddValidator, RemoveValidator, SetValidatorScore, ChangeValidators
  <2>2. ASSUME NEW extra_runs, ConfigValidatorSystem(extra_runs)
        PROVE  UNCHANGED covered
    BY <2>2 DEF ConfigValidatorSystem
  <2>3. ASSUME NEW v, NEW amount, MoveToEmergency(v, amount)
        PROVE  UNCHANGED covered
    BY <2>3 DEF MoveToEmergency
  <2>4. ASSUME NEW s, NEW new, NEW amount
        PROVE  EmergencyUnstake(s) \/ PartialUnstake(s, new, amount) => UNCHANGED covered
    BY <2>3 DEF EmergencyUnstake, PartialUnstake
  <2> QED
    BY <2>1, <2>2, <2>4 DEF ManagerStep
<1>7. AdminStep => UNCHANGED covered
  BY DEF AdminStep, ConfigMarinade, ConfigLp, Pause, Resume, adminUnchanged
<1>8. UNCHANGED vars => UNCHANGED covered
  BY DEF vars
<1> QED
  BY <1>1, <1>2, <1>3, <1>4, <1>5, <1>6, <1>7, <1>8 DEF Quiet

-----------------------------------------------------------------------------
(* ReserveCovered: what the books call available is in the reserve.        *)
LEMMA ReserveCoveredStep == TypeOK /\ ReserveCovered /\ [Next]_vars => ReserveCovered'
<1> SUFFICES ASSUME TypeOK, ReserveCovered, [Next]_vars PROVE ReserveCovered'
  OBVIOUS
<1> USE DEF ReserveCovered
<1>1. ASSUME UNCHANGED reserveVars PROVE ReserveCovered'
  BY <1>1 DEF reserveVars
<1>2. CASE Quiet
  BY <1>1, <1>2, QuietFrame DEF covered
<1>3. ASSUME NEW s \in Stake, UpdateActive(s) PROVE ReserveCovered'
  <2>1. /\ reserve_pda' = available_reserve_balance' + RentExempt
        /\ available_reserve_balance' = Synced + account[s].extra
    BY <1>3 DEF UpdateActive
  <2>2. available_reserve_balance' \in Nat
    BY <1>3, UpdateActiveType DEF TypeOK
  <2> QED
    BY <2>1, <2>2, RentAssumption
<1>4. ASSUME NEW s \in Stake, UpdateDeactivated(s) PROVE ReserveCovered'
  <2>1. Synced = reserve_pda - RentExempt
    BY RentAssumption DEF Synced, Monus, TypeOK
  <2> QED
    BY <1>4, <2>1, UpdateDeactivatedMints, RentAssumption DEF TypeOK
<1>5. ASSUME NEW v \in Validator, NEW s \in Stake, StakeReserve(v, s) PROVE ReserveCovered'
  <2>1. ReserveStakeTarget(v) \in Nat
    BY <1>5, ReserveStakeTargetType DEF StakeReserve, CanStakeReserve
  <2>2. /\ reserve_pda' = reserve_pda - ReserveStakeTarget(v)
        /\ available_reserve_balance' = available_reserve_balance - ReserveStakeTarget(v)
    BY <1>5 DEF StakeReserve, OnTransferFromReserve
  <2> QED
    BY <2>1, <2>2, RentAssumption DEF TypeOK
<1>6. ASSUME NEW lamports \in DepositAmounts, Deposit(lamports) PROVE ReserveCovered'
  BY <1>6, DepositEffect, RentAssumption DEF TypeOK
<1>7. ASSUME NEW t \in Ticket, Claim(t) PROVE ReserveCovered'
  <2>1. ticket[t].lamports_amount \in Nat
    BY DEF TypeOK, TicketRecord
  <2>2. /\ reserve_pda' = reserve_pda - ticket[t].lamports_amount
        /\ available_reserve_balance' = available_reserve_balance - ticket[t].lamports_amount
    BY <1>7 DEF Claim, OnTransferFromReserve
  <2> QED
    BY <2>1, <2>2, RentAssumption DEF TypeOK
<1>8. ASSUME NEW lamports \in Donations, Donate(lamports) PROVE ReserveCovered'
  BY <1>8, ClusterAssumption, RentAssumption DEF Donate, TypeOK
<1>9. ASSUME NEW msol \in Burns, BurnMsol(msol) PROVE ReserveCovered'
  BY <1>9, <1>1 DEF BurnMsol
<1>10. CASE \E s \in Stake, v \in Validator, delegated \in UserStakes, activation \in Activation :
              DepositStakeAccount(s, v, delegated, activation)
  BY <1>1, <1>10 DEF DepositStakeAccount
<1>11. CASE \E s \in Stake, msol_amount \in MsolAmounts : WithdrawStakeAccount(s, msol_amount)
  BY <1>1, <1>11 DEF WithdrawStakeAccount
<1>12. CASE \E t \in Ticket, msol_amount \in MsolAmounts : OrderUnstake(t, msol_amount)
  BY <1>1, <1>12 DEF OrderUnstake
<1>13. CASE PoolStep
  BY <1>1, <1>13 DEF PoolStep, AddLiquidity, RemoveLiquidity, LiquidUnstake, BurnLp,
                     DonateSolLeg, stakingVars
<1> QED
  BY <1>2, <1>3, <1>4, <1>5, <1>6, <1>7, <1>8, <1>9, <1>10, <1>11, <1>12, <1>13
     DEF Next, Quiet, Environment, ClusterStep, OutsideStep, CrankStep, UserStep

(* The check begin of update.rs calls impossible to fail never fails.      *)
THEOREM ReserveAlwaysCovered == Spec => []ReserveCovered
<1>1. Init => ReserveCovered
  BY RentAssumption DEF Init, ReserveCovered
<1> QED
  BY <1>1, ReserveCoveredStep, TypeCorrect, PTL DEF Spec

-----------------------------------------------------------------------------
(* MintCovered: no mSOL exists that the books do not know of.              *)
LEMMA MintCoveredStep == TypeOK /\ MintCovered /\ [Next]_vars => MintCovered'
<1> SUFFICES ASSUME TypeOK, MintCovered, [Next]_vars PROVE MintCovered'
  OBVIOUS
<1> USE DEF MintCovered
<1>0. msol_leg \in Nat /\ msol_mint_supply \in Nat /\ msol_supply \in Nat
  BY DEF TypeOK
<1>1. ASSUME UNCHANGED <<msolVars, msol_leg>> PROVE MintCovered'
  BY <1>1 DEF msolVars
<1>2. CASE Quiet
  BY <1>1, <1>2, QuietFrame DEF covered, poolVars
<1>3. ASSUME NEW s \in Stake, UpdateActive(s) PROVE MintCovered'
  <2>1. msol_leg' = msol_leg
    BY <1>3 DEF UpdateActive, poolVars
  <2> QED
    BY <1>0, <1>3, <2>1, UpdateActiveMints
<1>4. ASSUME NEW s \in Stake, UpdateDeactivated(s) PROVE MintCovered'
  <2>1. msol_leg' = msol_leg
    BY <1>4 DEF UpdateDeactivated, poolVars
  <2> QED
    BY <1>0, <1>4, <2>1, UpdateDeactivatedMints
<1>5. CASE \E v \in Validator, s \in Stake : StakeReserve(v, s)
  BY <1>1, <1>5 DEF StakeReserve, poolVars
<1>6. ASSUME NEW lamports \in DepositAmounts, Deposit(lamports) PROVE MintCovered'
  BY <1>0, <1>6, DepositEffect
<1>7. CASE \E t \in Ticket : Claim(t)
  BY <1>1, <1>7 DEF Claim, poolVars
<1>8. CASE \E lamports \in Donations : Donate(lamports)
  BY <1>1, <1>8 DEF Donate, poolVars
<1>9. ASSUME NEW msol \in Burns, BurnMsol(msol) PROVE MintCovered'
  <2>1. /\ msol \in Nat /\ msol <= msol_mint_supply - msol_leg
        /\ msol_mint_supply' = msol_mint_supply - msol
        /\ UNCHANGED <<msol_supply, msol_leg>>
    BY <1>9, ClusterAssumption DEF BurnMsol, UserMsol, poolVars
  <2> QED
    BY <1>0, <2>1
<1>10. ASSUME NEW s \in Stake, NEW v \in Validator, NEW delegated \in UserStakes,
              NEW activation \in Activation, DepositStakeAccount(s, v, delegated, activation)
       PROVE  MintCovered'
  <2>1. msol_leg' = msol_leg
    BY <1>10 DEF DepositStakeAccount, poolVars
  <2> QED
    BY <1>0, <1>10, <2>1, DepositStakeAccountMints
<1>11. ASSUME NEW s \in Stake, NEW msol_amount \in MsolAmounts,
              WithdrawStakeAccount(s, msol_amount)
       PROVE  MintCovered'
  <2>1. msol_leg' = msol_leg
    BY <1>11 DEF WithdrawStakeAccount, poolVars
  <2> QED
    BY <1>0, <1>11, <2>1, WithdrawStakeAccountEffect
<1>12. ASSUME NEW t \in Ticket, NEW msol_amount \in MsolAmounts, OrderUnstake(t, msol_amount)
       PROVE  MintCovered'
  <2>1. msol_leg' = msol_leg /\ msol_amount \in Nat
    BY <1>12, UsersAssumption DEF OrderUnstake, poolVars
  <2> QED
    BY <1>0, <1>12, <2>1, OrderUnstakeEffect
<1>13. CASE \/ \E lamports \in LiquidityAmounts : AddLiquidity(lamports)
            \/ \E tokens \in LpAmounts : BurnLp(tokens)
            \/ \E lamports \in Donations : DonateSolLeg(lamports)
  BY <1>1, <1>13 DEF AddLiquidity, BurnLp, DonateSolLeg
<1>14. ASSUME NEW tokens \in LpAmounts, RemoveLiquidity(tokens) PROVE MintCovered'
  BY <1>0, <1>14, RemoveLiquidityEffect DEF msolVars
<1>15. ASSUME NEW msol_amount \in MsolAmounts, LiquidUnstake(msol_amount) PROVE MintCovered'
  <2>1. msol_amount \in Nat
    BY UsersAssumption
  <2> QED
    BY <1>0, <1>15, <2>1, LiquidUnstakeEffect DEF msolVars
<1> QED
  BY <1>2, <1>3, <1>4, <1>5, <1>6, <1>7, <1>8, <1>9, <1>10, <1>11, <1>12, <1>13, <1>14, <1>15
     DEF Next, Quiet, Environment, ClusterStep, OutsideStep, CrankStep, UserStep, PoolStep

(* The deposits' check that the mint is registered never fails, and the    *)
(* "registered a hack" branch of begin is never taken.                     *)
THEOREM MintAlwaysCovered == Spec => []MintCovered
<1>1. Init => MintCovered
  BY DEF Init, MintCovered
<1> QED
  BY <1>1, MintCoveredStep, TypeCorrect, PTL DEF Spec

-----------------------------------------------------------------------------
(* PoolCovered: the SOL leg keeps its rent, and no LP token is unknown.    *)
LEMMA PoolCoveredStep == TypeOK /\ PoolCovered /\ [Next]_vars => PoolCovered'
<1> SUFFICES ASSUME TypeOK, PoolCovered, [Next]_vars PROVE PoolCovered'
  OBVIOUS
<1> USE DEF PoolCovered
<1>0. /\ sol_leg \in Nat /\ lp_mint_supply \in Nat /\ lp_supply \in Nat
      /\ RentExempt \in Nat
  BY RentAssumption DEF TypeOK
<1>1. ASSUME UNCHANGED <<sol_leg, lp_mint_supply, lp_supply>> PROVE PoolCovered'
  BY <1>1
<1>2. CASE Quiet
  BY <1>1, <1>2, QuietFrame DEF covered, poolVars
<1>3. CASE \E s \in Stake : UpdateActive(s) \/ UpdateDeactivated(s)
  BY <1>1, <1>3 DEF UpdateActive, UpdateDeactivated, poolVars
<1>4. CASE \E v \in Validator, s \in Stake : StakeReserve(v, s)
  BY <1>1, <1>4 DEF StakeReserve, poolVars
<1>5. CASE \/ \E lamports \in Donations : Donate(lamports)
           \/ \E msol \in Burns : BurnMsol(msol)
  BY <1>1, <1>5 DEF Donate, BurnMsol, poolVars
<1>6. ASSUME NEW lamports \in DepositAmounts, Deposit(lamports) PROVE PoolCovered'
  BY <1>0, <1>6, DepositEffect
<1>7. ASSUME NEW s, NEW v, NEW amount, NEW activation
      PROVE  DepositStakeAccount(s, v, amount, activation) \/ WithdrawStakeAccount(s, amount)
               => PoolCovered'
  <2>1. DepositStakeAccount(s, v, amount, activation) => UNCHANGED poolVars
    BY DEF DepositStakeAccount
  <2>2. WithdrawStakeAccount(s, amount) => UNCHANGED poolVars
    BY DEF WithdrawStakeAccount
  <2> QED
    BY <1>1, <2>1, <2>2 DEF poolVars
<1>8. CASE \/ \E t \in Ticket, msol_amount \in MsolAmounts : OrderUnstake(t, msol_amount)
           \/ \E t \in Ticket : Claim(t)
  BY <1>1, <1>8 DEF OrderUnstake, Claim, poolVars
<1>9. ASSUME NEW lamports \in LiquidityAmounts, AddLiquidity(lamports) PROVE PoolCovered'
  <2>1. lp_mint_supply' \in Nat
    BY <1>9, AddLiquidityType DEF TypeOK
  <2>2. lp_supply' = lp_mint_supply' /\ sol_leg' = sol_leg + lamports
    BY <1>9 DEF AddLiquidity
  <2> QED
    BY <1>0, <2>1, <2>2, LiqPoolAssumption
<1>10. ASSUME NEW tokens \in LpAmounts, RemoveLiquidity(tokens) PROVE PoolCovered'
  <2>1. tokens \in Nat
    BY LiqPoolAssumption
  <2> QED
    BY <1>0, <1>10, <2>1, RemoveLiquidityEffect
<1>11. ASSUME NEW msol_amount \in MsolAmounts, LiquidUnstake(msol_amount) PROVE PoolCovered'
  BY <1>0, <1>11, LiquidUnstakeEffect
<1>12. ASSUME NEW tokens \in LpAmounts, BurnLp(tokens) PROVE PoolCovered'
  <2>1. /\ tokens \in Nat /\ lp_mint_supply' = lp_mint_supply - tokens
        /\ UNCHANGED <<sol_leg, lp_supply>>
    BY <1>12, LiqPoolAssumption DEF BurnLp
  <2> QED
    BY <1>0, <2>1
<1>13. ASSUME NEW lamports \in Donations, DonateSolLeg(lamports) PROVE PoolCovered'
  <2>1. /\ lamports \in Nat /\ sol_leg' = sol_leg + lamports
        /\ UNCHANGED <<lp_mint_supply, lp_supply>>
    BY <1>13, ClusterAssumption DEF DonateSolLeg
  <2> QED
    BY <1>0, <2>1
<1> QED
  BY <1>2, <1>3, <1>4, <1>5, <1>6, <1>7, <1>8, <1>9, <1>10, <1>11, <1>12, <1>13
     DEF Next, Quiet, Environment, ClusterStep, OutsideStep, CrankStep, UserStep, PoolStep

(* The subtraction of the leg's rent never aborts an instruction.          *)
THEOREM PoolAlwaysCovered == Spec => []PoolCovered
<1>1. Init => PoolCovered
  BY RentAssumption DEF Init, PoolCovered
<1> QED
  BY <1>1, PoolCoveredStep, TypeCorrect, PTL DEF Spec

-----------------------------------------------------------------------------
(* TicketBooks: the totals are sums over the open tickets.                 *)
TicketAmount == [t \in Ticket |-> ticket[t].lamports_amount]

(* The sum when one ticket changes.                                        *)
LEMMA TicketSumUpdate ==
  ASSUME TypeOK, NEW t \in Ticket, NEW record \in TicketRecord,
         ticket' = [ticket EXCEPT ![t] = record]
  PROVE  /\ Sum(TicketAmount') = Sum(TicketAmount) - ticket[t].lamports_amount
                                   + record.lamports_amount
         /\ Sum(TicketAmount) \in Nat
<1>1. TicketAmount \in [Ticket -> Nat]
  BY DEF TicketAmount, TypeOK, TicketRecord
<1>2. TicketAmount' \in [Ticket -> Nat]
  BY DEF TicketAmount, TypeOK, TicketRecord
<1>3. \A u \in Ticket \ {t} : TicketAmount'[u] = TicketAmount[u]
  BY DEF TicketAmount, TypeOK
<1>4. /\ TicketAmount[t] = ticket[t].lamports_amount
      /\ TicketAmount'[t] = record.lamports_amount
  BY DEF TicketAmount, TypeOK
<1>5. Sum(TicketAmount') - TicketAmount'[t] = Sum(TicketAmount) - TicketAmount[t]
  BY <1>1, <1>2, <1>3, StakeAssumption, SumUpdate
<1>6. Sum(TicketAmount) \in Nat /\ Sum(TicketAmount') \in Nat
  BY <1>1, <1>2, StakeAssumption, SumType
<1>7. ticket[t].lamports_amount \in Nat /\ record.lamports_amount \in Nat
  BY DEF TypeOK, TicketRecord
<1> QED
  BY <1>4, <1>5, <1>6, <1>7

(* order_unstake and claim are the only instructions that touch a ticket.  *)
LEMMA TicketBooksStep == TypeOK /\ TicketBooks /\ [Next]_vars => TicketBooks'
<1> SUFFICES ASSUME TypeOK, TicketBooks, [Next]_vars PROVE TicketBooks'
  OBVIOUS
<1>0. /\ circulating_ticket_balance = Sum(TicketAmount)
      /\ circulating_ticket_count = Cardinality(OpenTickets)
      /\ \A t \in Ticket \ OpenTickets : ticket[t] = ClosedTicket
      /\ circulating_ticket_balance \in Nat
      /\ IsFiniteSet(OpenTickets) /\ Cardinality(OpenTickets) \in Nat
  BY StakeAssumption, FS_Subset, FS_CardinalityType DEF TicketBooks, TicketAmount, OpenTickets, TypeOK
<1>1. ASSUME UNCHANGED ticketVars PROVE TicketBooks'
  BY <1>1 DEF ticketVars, TicketBooks, OpenTickets
<1>2. CASE Quiet
  BY <1>1, <1>2, QuietFrame DEF covered
<1>3. CASE \E s \in Stake : UpdateActive(s) \/ UpdateDeactivated(s)
  BY <1>1, <1>3 DEF UpdateActive, UpdateDeactivated
<1>4. CASE \E v \in Validator, s \in Stake : StakeReserve(v, s)
  BY <1>1, <1>4 DEF StakeReserve
<1>5. CASE \/ \E lamports \in Donations : Donate(lamports)
           \/ \E msol \in Burns : BurnMsol(msol)
  BY <1>1, <1>5 DEF Donate, BurnMsol
<1>6. ASSUME NEW s, NEW v, NEW amount, NEW activation
      PROVE  \/ Deposit(amount)
             \/ DepositStakeAccount(s, v, amount, activation)
             \/ WithdrawStakeAccount(s, amount)
             => TicketBooks'
  <2>1. Deposit(amount) => UNCHANGED ticketVars
    BY DEF Deposit
  <2>2. DepositStakeAccount(s, v, amount, activation) => UNCHANGED ticketVars
    BY DEF DepositStakeAccount
  <2>3. WithdrawStakeAccount(s, amount) => UNCHANGED ticketVars
    BY DEF WithdrawStakeAccount
  <2> QED
    BY <1>1, <2>1, <2>2, <2>3
<1>7. CASE PoolStep
  BY <1>1, <1>7 DEF PoolStep, AddLiquidity, RemoveLiquidity, LiquidUnstake, BurnLp,
                    DonateSolLeg, stakingVars
<1>8. ASSUME NEW t \in Ticket, NEW msol_amount \in MsolAmounts, OrderUnstake(t, msol_amount)
      PROVE  TicketBooks'
  <2>1. PICK lamports \in Nat, created \in Nat :
          /\ ~ticket[t].open
          /\ circulating_ticket_balance' = circulating_ticket_balance + lamports
          /\ circulating_ticket_count' = circulating_ticket_count + 1
          /\ ticket' = [ticket EXCEPT ![t] =
               [open |-> TRUE, lamports_amount |-> lamports, created_epoch |-> created]]
    BY <1>8, OrderUnstakeEffect
  <2> DEFINE record == [open |-> TRUE, lamports_amount |-> lamports, created_epoch |-> created]
  <2>2. record \in TicketRecord /\ record.lamports_amount = lamports
    BY DEF TicketRecord
  <2>3. t \notin OpenTickets /\ ticket[t].lamports_amount = 0
    BY <1>0, <2>1 DEF OpenTickets, ClosedTicket
  <2>4. circulating_ticket_balance' = Sum(TicketAmount')
    <3>1. ticket' = [ticket EXCEPT ![t] = record]
      BY <2>1
    <3> HIDE DEF record
    <3>2. /\ Sum(TicketAmount') = Sum(TicketAmount) - ticket[t].lamports_amount
                                     + record.lamports_amount
          /\ Sum(TicketAmount) \in Nat
      BY <2>2, <3>1, TicketSumUpdate
    <3> QED
      BY <1>0, <2>1, <2>2, <2>3, <3>2
  <2>5. OpenTickets' = OpenTickets \cup {t}
    BY <2>1 DEF OpenTickets, TypeOK
  <2>6. circulating_ticket_count' = Cardinality(OpenTickets')
    BY <1>0, <2>1, <2>3, <2>5, FS_AddElement
  <2>7. \A u \in Ticket \ OpenTickets' : ticket'[u] = ClosedTicket
    BY <1>0, <2>1, <2>5 DEF TypeOK
  <2> QED
    BY <2>4, <2>6, <2>7 DEF TicketBooks, TicketAmount
<1>9. ASSUME NEW t \in Ticket, Claim(t) PROVE TicketBooks'
  <2>1. /\ ticket[t].open
        /\ circulating_ticket_balance' = circulating_ticket_balance - ticket[t].lamports_amount
        /\ circulating_ticket_count' = circulating_ticket_count - 1
        /\ ticket' = [ticket EXCEPT ![t] = ClosedTicket]
    BY <1>9 DEF Claim, CloseTicket
  <2>2. ticket[t].lamports_amount \in Nat /\ ClosedTicket.lamports_amount = 0
    BY DEF TypeOK, TicketRecord, ClosedTicket
  <2>3. circulating_ticket_balance' = Sum(TicketAmount')
    <3>1. /\ Sum(TicketAmount') = Sum(TicketAmount) - ticket[t].lamports_amount
                                     + ClosedTicket.lamports_amount
          /\ Sum(TicketAmount) \in Nat
      BY <2>1, EmptySlotType, TicketSumUpdate
    <3> QED
      BY <1>0, <2>1, <2>2, <3>1
  <2>4. t \in OpenTickets /\ OpenTickets' = OpenTickets \ {t}
    BY <2>1 DEF OpenTickets, ClosedTicket, TypeOK
  <2>5. circulating_ticket_count' = Cardinality(OpenTickets')
    BY <1>0, <2>1, <2>4, FS_RemoveElement
  <2>6. \A u \in Ticket \ OpenTickets' : ticket'[u] = ClosedTicket
    BY <1>0, <2>1, <2>4 DEF TypeOK
  <2> QED
    BY <2>3, <2>5, <2>6 DEF TicketBooks, TicketAmount
<1> QED
  BY <1>2, <1>3, <1>4, <1>5, <1>6, <1>7, <1>8, <1>9
     DEF Next, Quiet, Environment, ClusterStep, OutsideStep, CrankStep, UserStep

(* claim never finds the totals smaller than the ticket it closes.         *)
THEOREM TicketBooksHold == Spec => []TicketBooks
<1>1. Init => TicketBooks
  <2>1. ASSUME Init PROVE TicketBooks
    <3>1. TicketAmount \in [Ticket -> Nat] /\ \A t \in Ticket : TicketAmount[t] = 0
      BY <2>1 DEF Init, TicketAmount, ClosedTicket
    <3>2. Sum(TicketAmount) = 0
      BY <3>1, SumZero
    <3>3. OpenTickets = {}
      BY <2>1 DEF Init, OpenTickets, ClosedTicket
    <3> QED
      BY <2>1, <3>2, <3>3, FS_EmptySet DEF Init, TicketBooks, TicketAmount
  <2> QED
    BY <2>1
<1> QED
  BY <1>1, TicketBooksStep, TypeCorrect, PTL DEF Spec

-----------------------------------------------------------------------------
(* The dates of the tickets.                                               *)

(* The clock goes forward, one epoch at a time.                            *)
LEMMA EpochStep ==
  ASSUME [Next]_vars
  PROVE  epoch' = epoch \/ epoch' = epoch + 1
<1> DEFINE kept == UNCHANGED clockVars
<1>1. Environment => epoch' = epoch \/ epoch' = epoch + 1
  <2>1. Tick => epoch' = epoch
    BY DEF Tick
  <2>2. NewEpoch => epoch' = epoch + 1
    BY DEF NewEpoch
  <2>3. ASSUME NEW s, NEW lamports
        PROVE  \/ DeactivateDelinquent(s) \/ Tip(s, lamports) \/ Slash(s, lamports)
               \/ Donate(lamports) \/ BurnMsol(lamports)
               => kept
    BY DEF DeactivateDelinquent, Tip, Slash, ChangeAccount, Donate, BurnMsol
  <2> QED
    BY <2>1, <2>2, <2>3 DEF Environment, ClusterStep, OutsideStep, clockVars
<1>2. ASSUME NEW s, NEW new, NEW v, NEW batch
      PROVE  /\ UpdateActive(s) \/ UpdateDeactivated(s) => kept
             /\ FinalizeDelinquentUpgrade(batch) \/ StakeReserve(v, s) => kept
             /\ SpendExtraRun(v) \/ DeactivateStake(s, new) => kept
             /\ MergeStakes(v, s) \/ CreateCanonicalStake(v, s) => kept
  BY DEF UpdateActive, UpdateDeactivated, FinalizeDelinquentUpgrade, StakeReserve,
     SpendExtraRun, DeactivateStake, MergeStakes, CreateCanonicalStake
<1>3. UserStep => kept
  BY DEF UserStep, Deposit, DepositStakeAccount, WithdrawStakeAccount, OrderUnstake, Claim
<1>4. PoolStep => kept
  BY DEF PoolStep, AddLiquidity, RemoveLiquidity, LiquidUnstake, BurnLp, DonateSolLeg,
     stakingVars
<1>5. ManagerStep => kept
  <2>1. ASSUME NEW v, NEW score, NEW extra_runs
        PROVE  \/ AddValidator(v, score) \/ RemoveValidator(v) \/ SetValidatorScore(v, score)
               \/ ConfigValidatorSystem(extra_runs)
               => kept
    BY DEF AddValidator, RemoveValidator, SetValidatorScore, ChangeValidators,
       ConfigValidatorSystem
  <2>2. ASSUME NEW v, NEW amount, MoveToEmergency(v, amount)
        PROVE  kept
    BY <2>2 DEF MoveToEmergency
  <2>3. ASSUME NEW s, NEW new, NEW amount
        PROVE  EmergencyUnstake(s) \/ PartialUnstake(s, new, amount) => kept
    BY <2>2 DEF EmergencyUnstake, PartialUnstake
  <2> QED
    BY <2>1, <2>3 DEF ManagerStep
<1>6. AdminStep => kept
  BY DEF AdminStep, ConfigMarinade, ConfigLp, Pause, Resume, adminUnchanged
<1>7. UNCHANGED vars => kept
  BY DEF vars
<1>8. kept => epoch' = epoch
  BY DEF clockVars
<1> HIDE DEF kept
<1> QED
  BY <1>1, <1>2, <1>3, <1>4, <1>5, <1>6, <1>7, <1>8 DEF Next, CrankStep

(* The last stake delta is the one begun in this epoch, once one has.      *)
LEMMA DeltaStep ==
  ASSUME [Next]_vars
  PROVE  last_stake_delta_epoch' \in {last_stake_delta_epoch, epoch}
<1> DEFINE kept == UNCHANGED last_stake_delta_epoch
<1>0. UNCHANGED deltaVars => kept
  BY DEF deltaVars
<1>1. Environment => UNCHANGED deltaVars
  <2>1. (Tick => UNCHANGED deltaVars) /\ (NewEpoch => UNCHANGED deltaVars)
    BY DEF Tick, NewEpoch
  <2>2. ASSUME NEW s, NEW lamports
        PROVE  \/ DeactivateDelinquent(s) \/ Tip(s, lamports) \/ Slash(s, lamports)
               \/ Donate(lamports) \/ BurnMsol(lamports)
               => UNCHANGED deltaVars
    BY DEF DeactivateDelinquent, Tip, Slash, ChangeAccount, Donate, BurnMsol
  <2> QED
    BY <2>1, <2>2 DEF Environment, ClusterStep, OutsideStep
<1>2. ASSUME NEW s, NEW v, NEW batch
      PROVE  /\ UpdateActive(s) \/ UpdateDeactivated(s) => UNCHANGED deltaVars
             /\ FinalizeDelinquentUpgrade(batch) => UNCHANGED deltaVars
             /\ MergeStakes(v, s) \/ CreateCanonicalStake(v, s) => UNCHANGED deltaVars
             /\ SpendExtraRun(v) => kept
  BY DEF UpdateActive, UpdateDeactivated, FinalizeDelinquentUpgrade, SpendExtraRun,
     MergeStakes, CreateCanonicalStake
<1>3. ASSUME NEW v, NEW s, StakeReserve(v, s)
      PROVE  last_stake_delta_epoch' = epoch
  BY <1>3 DEF StakeReserve
<1>4. ASSUME NEW s, NEW new, DeactivateStake(s, new)
      PROVE  last_stake_delta_epoch' = epoch
  BY <1>4 DEF DeactivateStake, CoolDownForTickets
<1>5. UserStep => UNCHANGED deltaVars
  BY DEF UserStep, Deposit, DepositStakeAccount, WithdrawStakeAccount, OrderUnstake, Claim
<1>6. PoolStep => UNCHANGED deltaVars
  BY DEF PoolStep, AddLiquidity, RemoveLiquidity, LiquidUnstake, BurnLp, DonateSolLeg,
     stakingVars
<1>7. ManagerStep => kept
  <2>1. ASSUME NEW v, NEW score
        PROVE  AddValidator(v, score) \/ RemoveValidator(v) \/ SetValidatorScore(v, score)
                 => UNCHANGED deltaVars
    BY DEF AddValidator, RemoveValidator, SetValidatorScore, ChangeValidators
  <2>2. ASSUME NEW extra_runs, ConfigValidatorSystem(extra_runs)
        PROVE  kept
    BY <2>2 DEF ConfigValidatorSystem
  <2>3. ASSUME NEW v, NEW amount, MoveToEmergency(v, amount)
        PROVE  UNCHANGED deltaVars
    BY <2>3 DEF MoveToEmergency
  <2>4. ASSUME NEW s, NEW new, NEW amount
        PROVE  EmergencyUnstake(s) \/ PartialUnstake(s, new, amount) => UNCHANGED deltaVars
    BY <2>3 DEF EmergencyUnstake, PartialUnstake
  <2> QED
    BY <1>0, <2>1, <2>2, <2>4 DEF ManagerStep
<1>8. AdminStep => UNCHANGED deltaVars
  BY DEF AdminStep, ConfigMarinade, ConfigLp, Pause, Resume, adminUnchanged
<1>9. UNCHANGED vars => UNCHANGED deltaVars
  BY DEF vars
<1> QED
  BY <1>0, <1>1, <1>2, <1>3, <1>4, <1>5, <1>6, <1>7, <1>8, <1>9 DEF Next, CrankStep

(* A ticket is opened with the date order_unstake gives it, rests, or is   *)
(* closed when it is due.                                                  *)
LEMMA TicketStep ==
  ASSUME TypeOK, [Next]_vars, NEW t \in Ticket
  PROVE  \/ ticket'[t] = ticket[t]
         \/ /\ ~ticket[t].open
            /\ ticket'[t].created_epoch = CreatedEpoch
         \/ /\ TicketDue(t)
            /\ ~ticket'[t].open
<1>1. CASE UNCHANGED ticketVars
  BY <1>1 DEF ticketVars
<1>2. CASE \E u \in Ticket, msol_amount \in MsolAmounts : OrderUnstake(u, msol_amount)
  <2>1. PICK u \in Ticket, msol_amount \in MsolAmounts : OrderUnstake(u, msol_amount)
    BY <1>2
  <2>2. PICK lamports : /\ ~ticket[u].open
                        /\ ticket' = [ticket EXCEPT ![u] =
                             [open |-> TRUE, lamports_amount |-> lamports,
                              created_epoch |-> CreatedEpoch]]
    BY <2>1 DEF OrderUnstake
  <2> QED
    BY <2>2 DEF TypeOK
<1>3. CASE \E u \in Ticket : Claim(u)
  BY <1>3 DEF Claim, CloseTicket, ClosedTicket, TypeOK
<1>4. \/ UNCHANGED ticketVars
      \/ \E u \in Ticket, msol_amount \in MsolAmounts : OrderUnstake(u, msol_amount)
      \/ \E u \in Ticket : Claim(u)
  <2>1. Quiet => UNCHANGED ticketVars
    BY QuietFrame DEF covered
  <2>2. ASSUME NEW s, NEW v, NEW lamports, NEW activation
        PROVE  \/ UpdateActive(s) \/ UpdateDeactivated(s) \/ StakeReserve(v, s)
               \/ Donate(lamports) \/ BurnMsol(lamports)
               \/ Deposit(lamports) \/ WithdrawStakeAccount(s, lamports)
               \/ DepositStakeAccount(s, v, lamports, activation)
               => UNCHANGED ticketVars
    BY DEF UpdateActive, UpdateDeactivated, StakeReserve, Donate, BurnMsol, Deposit,
       WithdrawStakeAccount, DepositStakeAccount
  <2>3. PoolStep => UNCHANGED ticketVars
    BY DEF PoolStep, AddLiquidity, RemoveLiquidity, LiquidUnstake, BurnLp, DonateSolLeg,
       stakingVars
  <2> QED
    BY <2>1, <2>2, <2>3
       DEF Next, Quiet, Environment, ClusterStep, OutsideStep, CrankStep, UserStep
<1> QED
  BY <1>1, <1>2, <1>3, <1>4

\* From a moment on at which the stake delta of epoch e had begun and ticket t
\* was not open: t can be open only with a later date.
LateOrUnordered(t, e) ==
  /\ epoch >= e
  /\ epoch = e => last_stake_delta_epoch = e
  /\ ticket[t].open => ticket[t].created_epoch >= e + 1

(* It stays so: an order of epoch e comes after its stake delta.           *)
LEMMA LateOrUnorderedStep ==
  ASSUME NEW t \in Ticket, NEW e \in Nat, TypeOK, [Next]_vars, LateOrUnordered(t, e)
  PROVE  LateOrUnordered(t, e)'
<1>1. epoch \in Nat /\ epoch' \in Nat /\ epoch' >= epoch
  BY EpochStep DEF TypeOK
<1>2. epoch' >= e
  BY <1>1 DEF LateOrUnordered
<1>3. epoch' = e => last_stake_delta_epoch' = e
  BY <1>1, DeltaStep DEF LateOrUnordered
<1>4. ASSUME ticket'[t].open PROVE ticket'[t].created_epoch >= e + 1
  <2>1. CASE ticket'[t] = ticket[t]
    BY <1>4, <2>1 DEF LateOrUnordered
  <2>2. CASE ticket'[t].created_epoch = CreatedEpoch
    BY <1>1, <2>2 DEF LateOrUnordered, CreatedEpoch
  <2> QED
    BY <1>4, <2>1, <2>2, TicketStep
<1> QED
  BY <1>2, <1>3, <1>4 DEF LateOrUnordered

(* Such a ticket is not due before epoch e + 2.                            *)
LEMMA LateStaysOpen ==
  ASSUME NEW t \in Ticket, NEW e \in Nat, TypeOK, [Next]_vars, LateOrUnordered(t, e),
         epoch <= e + 1 => ticket[t].open
  PROVE  epoch' <= e + 1 => ticket'[t].open
<1> SUFFICES ASSUME epoch' <= e + 1 PROVE ticket'[t].open
  OBVIOUS
<1>1. epoch \in Nat /\ epoch <= e + 1
  BY EpochStep DEF TypeOK
<1>2. ticket[t].open /\ ticket[t].created_epoch >= e + 1 /\ ticket[t].created_epoch \in Nat
  BY <1>1 DEF LateOrUnordered, TypeOK, TicketRecord
<1>3. ~TicketDue(t)
  BY <1>1, <1>2 DEF TicketDue, WAIT_EPOCHS
<1> QED
  BY <1>2, <1>3, TicketStep

(* LateTicketsWait for one ticket and one epoch.                           *)
LEMMA LateTicketWaits ==
  ASSUME NEW t \in Ticket, NEW e \in Nat
  PROVE  Spec => [](DeltaBegun(e) /\ ~ticket[t].open => StaysOpen(t, e))
<1> DEFINE begun == DeltaBegun(e) /\ ~ticket[t].open
           late  == LateOrUnordered(t, e)
           open  == ticket[t].open
           stays == epoch <= e + 1 => ticket[t].open
<1>1. begun => late
  BY DEF DeltaBegun, LateOrUnordered
<1>2. TypeOK /\ late /\ [Next]_vars => late'
  BY LateOrUnorderedStep
<1>3. TypeOK /\ late /\ stays /\ [Next]_vars => stays'
  BY LateStaysOpen
<1>4. open => stays
  OBVIOUS
<1>5. StaysOpen(t, e) <=> [](open => []stays)
  BY PTL DEF StaysOpen
<1> HIDE DEF begun, late, open, stays
<1>6. Spec => [](begun => [](open => []stays))
  BY <1>1, <1>2, <1>3, <1>4, TypeCorrect, PTL DEF Spec
<1> QED
  BY <1>5, <1>6, PTL DEF begun

(* A ticket ordered after the stake delta of its epoch had begun is never  *)
(* paid before the epoch after the next, whatever happens in between.      *)
THEOREM LateTicketsAlwaysWait == Spec => LateTicketsWait
BY LateTicketWaits, ClusterAssumption DEF LateTicketsWait

-----------------------------------------------------------------------------
(* The stake delta: which instructions move stake.                         *)

(* Only stake_reserve and claim take lamports out of the reserve.          *)
LEMMA ReserveFalls ==
  ASSUME TypeOK, [Next]_vars, reserve_pda' < reserve_pda
  PROVE  \/ \E v \in Validator, s \in Stake : StakeReserve(v, s)
         \/ \E t \in Ticket : Claim(t)
<1>0. reserve_pda \in Nat
  BY DEF TypeOK
<1>1. ~UNCHANGED reserve_pda
  BY <1>0
<1> USE DEF reserveVars
<1>2. ~Quiet
  BY <1>1, QuietFrame DEF covered
<1>3. ASSUME NEW s \in Stake, UpdateActive(s) PROVE FALSE
  <2>1. reserve_pda' = reserve_pda + account[s].extra /\ account[s].extra \in Nat
    BY <1>3 DEF UpdateActive, TypeOK, Account
  <2> QED
    BY <1>0, <2>1
<1>4. ASSUME NEW s \in Stake, UpdateDeactivated(s) PROVE FALSE
  BY <1>0, <1>4, UpdateDeactivatedMints
<1>5. ASSUME NEW lamports \in DepositAmounts, Deposit(lamports) PROVE FALSE
  BY <1>0, <1>5, DepositEffect
<1>6. ASSUME NEW lamports \in Donations, Donate(lamports) PROVE FALSE
  BY <1>0, <1>6, ClusterAssumption DEF Donate
<1>7. ~(\E msol \in Burns : BurnMsol(msol))
  BY <1>1 DEF BurnMsol
<1>8. ASSUME NEW s, NEW v, NEW t, NEW delegated, NEW activation
      PROVE  ~ \/ DepositStakeAccount(s, v, delegated, activation)
               \/ WithdrawStakeAccount(s, delegated)
               \/ OrderUnstake(t, delegated)
  BY <1>1 DEF DepositStakeAccount, WithdrawStakeAccount, OrderUnstake
<1>9. ~PoolStep
  BY <1>1 DEF PoolStep, AddLiquidity, RemoveLiquidity, LiquidUnstake, BurnLp, DonateSolLeg,
     stakingVars
<1> QED
  BY <1>2, <1>3, <1>4, <1>5, <1>6, <1>7, <1>8, <1>9
     DEF Next, Quiet, Environment, ClusterStep, OutsideStep, CrankStep, UserStep

(* So stake comes from the reserve by stake_reserve.                       *)
LEMMA StakesReserveSteps ==
  ASSUME TypeOK, [Next]_vars, StakesReserve
  PROVE  \E v \in Validator, s \in Stake : StakeReserve(v, s)
<1>1. total_active_balance' # total_active_balance /\ reserve_pda' < reserve_pda
  BY DEF StakesReserve, TypeOK
<1>2. ASSUME NEW t \in Ticket, Claim(t) PROVE FALSE
  BY <1>1, <1>2 DEF Claim, validatorVars
<1> QED
  BY <1>1, <1>2, ReserveFalls

(* Most steps leave what cools down alone.                                 *)
LEMMA CoolingRests ==
  ASSUME [Next]_vars
  PROVE  \/ UNCHANGED coolingVars
         \/ \E s \in Stake : UpdateDeactivated(s)
         \/ \E s, new \in Stake : DeactivateStake(s, new)
         \/ \E s \in Stake : EmergencyUnstake(s)
         \/ \E s, new \in Stake, amount \in UnstakeAmounts : PartialUnstake(s, new, amount)
<1>1. Environment => UNCHANGED coolingVars
  <2>1. Tick \/ NewEpoch => UNCHANGED coolingVars
    BY DEF Tick, NewEpoch
  <2>2. ASSUME NEW s, NEW lamports
        PROVE  DeactivateDelinquent(s) \/ Tip(s, lamports) \/ Slash(s, lamports)
                 => UNCHANGED coolingVars
    BY DEF DeactivateDelinquent, Tip, Slash, ChangeAccount
  <2>3. ASSUME NEW lamports
        PROVE  Donate(lamports) \/ BurnMsol(lamports) => UNCHANGED coolingVars
    BY DEF Donate, BurnMsol
  <2> QED
    BY <2>1, <2>2, <2>3 DEF Environment, ClusterStep, OutsideStep
<1>2. ASSUME NEW v, NEW s, NEW batch,
             \/ UpdateActive(s) \/ FinalizeDelinquentUpgrade(batch)
             \/ StakeReserve(v, s) \/ SpendExtraRun(v)
             \/ MergeStakes(v, s) \/ CreateCanonicalStake(v, s)
      PROVE  UNCHANGED coolingVars
  BY <1>2 DEF UpdateActive, FinalizeDelinquentUpgrade, StakeReserve, SpendExtraRun, MergeStakes,
     CreateCanonicalStake
<1>3. UserStep => UNCHANGED coolingVars
  BY DEF UserStep, Deposit, DepositStakeAccount, WithdrawStakeAccount, OrderUnstake, Claim
<1>4. PoolStep => UNCHANGED coolingVars
  BY DEF PoolStep, AddLiquidity, RemoveLiquidity, LiquidUnstake, BurnLp, DonateSolLeg,
     stakingVars
<1>5. ASSUME NEW v, NEW score, NEW extra_runs,
             \/ AddValidator(v, score) \/ RemoveValidator(v) \/ SetValidatorScore(v, score)
             \/ ConfigValidatorSystem(extra_runs)
      PROVE  UNCHANGED coolingVars
  BY <1>5 DEF AddValidator, RemoveValidator, SetValidatorScore, ChangeValidators,
     ConfigValidatorSystem
<1>6. AdminStep => UNCHANGED coolingVars
  BY DEF AdminStep, ConfigMarinade, ConfigLp, Pause, Resume, adminUnchanged
<1>7. UNCHANGED vars => UNCHANGED coolingVars
  BY DEF vars
<1> QED
  BY <1>1, <1>2, <1>3, <1>4, <1>5, <1>6, <1>7 DEF Next, CrankStep, ManagerStep

(* A collected account leaves its cooling total, whatever it was booked as *)
(* before and whatever the upgrade finds missing: none of the two grows.   *)
LEMMA CollectionCools ==
  ASSUME TypeOK, NEW s \in Stake, UpdateDeactivated(s)
  PROVE  /\ delayed_unstake_cooling_down' <= delayed_unstake_cooling_down
         /\ emergency_cooling_down' <= emergency_cooling_down
<1> DEFINE detected  == IF Is(s, "Active") THEN Recorded(s) ELSE 0
           emergency == stake[s].is_emergency_unstaking \/ Is(s, "Active")
           cooling   == IF emergency THEN emergency_cooling_down + detected
                                     ELSE delayed_unstake_cooling_down
           released  == Released(s, cooling)
<1>1. IF emergency
      THEN /\ emergency_cooling_down' = cooling - released
           /\ UNCHANGED delayed_unstake_cooling_down
      ELSE /\ delayed_unstake_cooling_down' = cooling - released
           /\ UNCHANGED emergency_cooling_down
  BY DEF UpdateDeactivated
<1>2. /\ Recorded(s) \in Nat
      /\ delayed_unstake_cooling_down \in Nat /\ emergency_cooling_down \in Nat
  BY DEF TypeOK, StakeRecord, Recorded
<1>3. cooling \in Nat /\ detected \in Nat /\ detected <= Recorded(s)
  BY <1>2
<1>4. cooling >= detected /\ (emergency => cooling = emergency_cooling_down + detected)
  BY <1>2
<1> HIDE DEF cooling
<1>5. released \in Nat /\ released >= detected
  BY <1>2, <1>3, <1>4 DEF Released, Lesser
<1> HIDE DEF released
<1>6. CASE emergency
  BY <1>1, <1>2, <1>3, <1>4, <1>5, <1>6
<1>7. CASE ~emergency
  <2>1. cooling = delayed_unstake_cooling_down
    BY <1>7 DEF cooling
  <2> HIDE DEF emergency
  <2> QED
    BY <1>1, <1>2, <1>5, <1>7, <2>1
<1> QED
  BY <1>6, <1>7

-----------------------------------------------------------------------------
(* How far they move it.                                                   *)

(* What the stake delta is: what the tickets do not need of the reserve,   *)
(* or what they need beyond all that cools down.                           *)
LEMMA DeltaBacking ==
  ASSUME TypeOK, ReserveCovered
  PROVE  /\ TicketBacking \in Int /\ StakeDelta \in Int
         /\ emergency_cooling_down \in Nat
         /\ StakeDelta > 0 => StakeDelta = TicketBacking
         /\ StakeDelta < 0 => StakeDelta = TicketBacking + emergency_cooling_down
<1>1. /\ reserve_pda \in Nat /\ RentExempt \in Nat /\ available_reserve_balance \in Nat
      /\ delayed_unstake_cooling_down \in Nat /\ emergency_cooling_down \in Nat
      /\ circulating_ticket_balance \in Nat
  BY RentAssumption DEF TypeOK
<1>2. Monus(reserve_pda, RentExempt) = reserve_pda - RentExempt
  BY <1>1 DEF ReserveCovered, Monus
<1>3. TicketBacking \in Int
  BY <1>1 DEF TicketBacking
<1>4. StakeDelta = IF TicketBacking >= 0 THEN TicketBacking
                   ELSE Lesser(TicketBacking + emergency_cooling_down, 0)
  BY <1>2 DEF StakeDelta, TicketBacking
<1> QED
  BY <1>1, <1>3, <1>4 DEF Lesser

(* A share of the stake there will be, once the delta is acted upon.       *)
LEMMA ShareType ==
  ASSUME TypeOK, NEW v \in Validator
  PROVE  /\ FairShare(v) \in Nat
         /\ total_active_balance + StakeDelta >= 0
              => FairShare(v) = ValidatorStakeTarget(v, total_active_balance + StakeDelta)
         /\ FairShare(v) = ValidatorStakeTarget(v, Monus(total_active_balance, -StakeDelta))
<1>1. total_active_balance \in Nat /\ StakeDelta \in Int
  BY TotalsType DEF TypeOK
<1> DEFINE there == Monus(total_active_balance + StakeDelta, 0)
<1>2. there \in Nat
  BY <1>1 DEF Monus
<1>3. total_active_balance + StakeDelta >= 0 => there = total_active_balance + StakeDelta
  BY <1>1 DEF Monus
<1>4. there = Monus(total_active_balance, -StakeDelta)
  BY <1>1 DEF Monus
<1>5. FairShare(v) = ValidatorStakeTarget(v, there)
  BY DEF FairShare
<1> HIDE DEF there
<1> QED
  BY <1>2, <1>3, <1>4, <1>5, StakeTargetType

(* stake_reserve stakes no more than the delta, and less than min_stake    *)
(* more than what the validator lacks.                                     *)
LEMMA StakeReserveMoves ==
  ASSUME TypeOK, ReserveCovered, NEW v \in Validator, NEW s \in Stake, StakeReserve(v, s)
  PROVE  /\ TicketBacking' >= 0
         /\ \A w \in Validator :
              Gains(w) => validator'[w].active_balance < FairShare(w) + config.min_stake
<1> DEFINE amount   == ReserveStakeTarget(v)
           share    == FairShare(v)
           balance  == validator[v].active_balance
           shortage == Lesser(Monus(share, balance), StakeDelta)
<1>1. /\ StakeDelta > 0 /\ UnderStaked(v)
      /\ reserve_pda' = reserve_pda - amount
      /\ validator' = [validator EXCEPT ![v].active_balance = @ + amount,
                                        ![v].last_stake_delta_epoch = epoch]
      /\ UNCHANGED <<coolingVars, ticketVars>>
  BY DEF StakeReserve, CanStakeReserve, OnTransferFromReserve
<1>2. /\ StakeDelta \in Nat /\ StakeDelta = TicketBacking
      /\ config.min_stake \in Nat \ {0} /\ total_active_balance \in Nat
      /\ validator[v] \in ValidatorRecord /\ balance \in Nat /\ share \in Nat
      /\ reserve_pda \in Nat /\ RentExempt \in Nat
      /\ delayed_unstake_cooling_down \in Nat /\ circulating_ticket_balance \in Nat
  BY <1>1, DeltaBacking, ShareType, RentAssumption DEF TypeOK, Config, ValidatorRecord
<1>3. share = ValidatorStakeTarget(v, total_active_balance + StakeDelta)
  BY <1>1, <1>2, ShareType
<1>4. balance < share
  BY <1>1, <1>3 DEF UnderStaked
<1> HIDE DEF share
<1>5. amount = IF StakeDelta - shortage < config.min_stake THEN StakeDelta ELSE shortage
  BY <1>3 DEF ReserveStakeTarget
<1>6. shortage \in Nat /\ shortage <= StakeDelta /\ balance + shortage <= share
  BY <1>2, <1>4 DEF Monus, Lesser
<1> HIDE DEF shortage, amount
<1>7. amount \in Nat /\ amount <= StakeDelta /\ balance + amount < share + config.min_stake
  <2> HIDE DEF balance
  <2> QED
    BY <1>2, <1>5, <1>6
<1>8. TicketBacking' >= 0
  BY <1>1, <1>2, <1>7 DEF TicketBacking, coolingVars, ticketVars
<1>9. /\ validator'[v].active_balance = balance + amount
      /\ \A w \in Validator \ {v} : validator'[w] = validator[w]
  BY <1>1, <1>2 DEF ValidatorRecord, TypeOK
<1>10. \A w \in Validator \ {v} : ~Gains(w)
  BY <1>9 DEF Gains, TypeOK, ValidatorRecord
<1> QED
  BY <1>7, <1>8, <1>9, <1>10 DEF share

(* deactivate_stake takes less than twice min_stake more than the tickets  *)
(* lack, and than what the validator has above its share.                  *)
LEMMA DeactivateStakeMoves ==
  ASSUME TypeOK, ReserveCovered, NEW s \in Stake, NEW new \in Stake, DeactivateStake(s, new)
  PROVE  /\ TicketBacking + emergency_cooling_down < 0
         /\ TicketBacking' + emergency_cooling_down' < 2 * config.min_stake
         /\ UNCHANGED <<reserve_pda, emergency_cooling_down>>
         /\ \A w \in Validator :
              Loses(w) => validator'[w].active_balance + 2 * config.min_stake > FairShare(w)
<1> DEFINE v       == Voter(s)
           over    == UnstakeFromValidator(v, -StakeDelta)
           target  == Monus(Recorded(s), Lesser(over, -StakeDelta))
           whole   == TooSmallToKeep(target)
           amount  == IF whole THEN Recorded(s) ELSE Recorded(s) - target
           share   == FairShare(v)
           balance == validator[v].active_balance
<1>1. /\ StakeDelta < 0 /\ v \in Validator /\ over > 0
      /\ CoolDownForTickets(v, amount, whole)
      /\ UNCHANGED <<reserveVars, emergency_cooling_down, ticketVars>>
  BY DEF DeactivateStake, Unstakable
<1> DEFINE d == IF whole THEN validator[v].last_stake_delta_epoch ELSE epoch
<1>2. /\ delayed_unstake_cooling_down' = delayed_unstake_cooling_down + amount
      /\ validator' = [validator EXCEPT ![v].active_balance = @ - amount,
                                        ![v].last_stake_delta_epoch = d]
  BY <1>1 DEF CoolDownForTickets
<1>3. /\ StakeDelta \in Int /\ StakeDelta = TicketBacking + emergency_cooling_down
      /\ TicketBacking \in Int /\ emergency_cooling_down \in Nat
      /\ config.min_stake \in Nat \ {0}
      /\ validator[v] \in ValidatorRecord /\ balance \in Nat /\ share \in Nat
      /\ Recorded(s) \in Nat
      /\ reserve_pda \in Nat /\ RentExempt \in Nat
      /\ delayed_unstake_cooling_down \in Nat /\ circulating_ticket_balance \in Nat
  BY <1>1, DeltaBacking, ShareType, RentAssumption
     DEF TypeOK, Config, ValidatorRecord, StakeRecord, Recorded
<1>4. over = Monus(balance, share)
  BY <1>1, ShareType DEF UnstakeFromValidator
<1> HIDE DEF share, d
<1>5. over \in Nat \ {0} /\ balance = share + over
  <2> HIDE DEF over, balance
  <2> QED
    BY <1>1, <1>3, <1>4 DEF Monus
<1> HIDE DEF over, balance
<1>6. /\ target \in Nat /\ target <= Recorded(s)
      /\ Recorded(s) - target <= over /\ Recorded(s) - target <= -StakeDelta
  BY <1>1, <1>3, <1>5 DEF Monus, Lesser
<1> HIDE DEF target
<1>7. whole => target < 2 * config.min_stake
  BY DEF TooSmallToKeep
<1> HIDE DEF whole
<1>8. /\ amount \in Nat
      /\ amount < over + 2 * config.min_stake /\ amount < -StakeDelta + 2 * config.min_stake
  BY <1>3, <1>5, <1>6, <1>7
<1> HIDE DEF amount
<1>9. TicketBacking' = TicketBacking + amount
  BY <1>1, <1>2, <1>3, <1>8 DEF TicketBacking, reserveVars, ticketVars
<1>10. /\ TicketBacking + emergency_cooling_down < 0
       /\ TicketBacking' + emergency_cooling_down' < 2 * config.min_stake
  BY <1>1, <1>3, <1>8, <1>9
<1>11. /\ validator'[v].active_balance = balance - amount
       /\ \A w \in Validator \ {v} : validator'[w].active_balance = validator[w].active_balance
  BY <1>1, <1>2, <1>3 DEF ValidatorRecord, TypeOK, balance
<1>12. \A w \in Validator \ {v} : ~Loses(w)
  BY <1>11 DEF Loses, TypeOK, ValidatorRecord
<1>13. validator'[v].active_balance + 2 * config.min_stake > share
  BY <1>3, <1>5, <1>8, <1>11
<1> QED
  BY <1>1, <1>10, <1>12, <1>13 DEF share, reserveVars

(* What the manager's unstaking does to the balance of each validator.     *)
LEMMA ToEmergencyMoves ==
  ASSUME TypeOK, NEW v \in Validator, NEW amount \in Nat, MoveToEmergency(v, amount),
         FairShare(v) < validator[v].active_balance - amount + config.min_stake
  PROVE  \A w \in Validator :
           Loses(w) => validator'[w].active_balance + config.min_stake > FairShare(w)
<1>1. validator[v] \in ValidatorRecord /\ validator[v].active_balance \in Nat
  BY DEF TypeOK, ValidatorRecord
<1>2. /\ validator'[v].active_balance = validator[v].active_balance - amount
      /\ \A w \in Validator \ {v} : validator'[w].active_balance = validator[w].active_balance
  BY <1>1 DEF MoveToEmergency, ValidatorRecord, TypeOK
<1>3. \A w \in Validator \ {v} : ~Loses(w)
  BY <1>2 DEF Loses, TypeOK, ValidatorRecord
<1>4. FairShare(v) \in Nat /\ config.min_stake \in Nat
  BY ShareType DEF TypeOK, Config
<1>5. validator'[v].active_balance + config.min_stake > FairShare(v)
  BY <1>1, <1>2, <1>4
<1> QED
  BY <1>3, <1>5

(* emergency_unstake is for a score of zero, whose share is nothing.       *)
LEMMA EmergencyUnstakeMoves ==
  ASSUME TypeOK, NEW s \in Stake, EmergencyUnstake(s)
  PROVE  \A w \in Validator :
           Loses(w) => validator'[w].active_balance + config.min_stake > FairShare(w)
<1> DEFINE v == Voter(s)
<1>1. /\ v \in Validator /\ validator[v].score = 0
      /\ MoveToEmergency(v, Recorded(s))
  BY DEF EmergencyUnstake, Unstakable
<1>2. /\ Recorded(s) \in Nat /\ validator[v].active_balance \in Nat
      /\ config.min_stake \in Nat \ {0} /\ total_validator_score \in Nat
  BY <1>1 DEF TypeOK, Config, StakeRecord, Recorded, ValidatorRecord
<1>3. Recorded(s) <= validator[v].active_balance
  BY <1>1 DEF MoveToEmergency, MovableFrom
<1>4. FairShare(v) = 0
  <2> DEFINE there == Monus(total_active_balance + StakeDelta, 0)
  <2>1. there \in Nat
    BY TotalsType DEF TypeOK, Monus
  <2>2. FairShare(v) = ValidatorStakeTarget(v, there)
    BY DEF FairShare
  <2> HIDE DEF there
  <2>3. there * 0 = 0 /\ (total_validator_score # 0 => 0 \div total_validator_score = 0)
    BY <1>2, <2>1
  <2>4. total_validator_score # 0
          => ValidatorStakeTarget(v, there) = (there * 0) \div total_validator_score
    BY <1>1 DEF ValidatorStakeTarget, Proportional
  <2> QED
    BY <2>2, <2>3, <2>4 DEF ValidatorStakeTarget
<1>5. FairShare(v) < validator[v].active_balance - Recorded(s) + config.min_stake
  BY <1>2, <1>3, <1>4
<1> QED
  BY <1>1, <1>2, <1>5, ToEmergencyMoves

(* partial_unstake takes what is above the share, and a rest of less than  *)
(* min_stake that would not be worth an account.                           *)
LEMMA PartialUnstakeMoves ==
  ASSUME TypeOK, NEW s \in Stake, NEW new \in Stake, NEW desired \in UnstakeAmounts,
         PartialUnstake(s, new, desired)
  PROVE  \A w \in Validator :
           Loses(w) => validator'[w].active_balance + config.min_stake > FairShare(w)
<1> DEFINE v       == Voter(s)
           amount  == Lesser(desired, AboveTarget(v))
           share   == FairShare(v)
           balance == validator[v].active_balance
           taken   == IF UnstakesWhole(s, amount) THEN Recorded(s) ELSE amount
<1>1. /\ v \in Validator /\ total_active_balance + StakeDelta >= 0
      /\ AboveTarget(v) > config.min_stake
      /\ MoveToEmergency(v, taken)
  BY DEF PartialUnstake, Unstakable
<1>2. /\ Recorded(s) \in Nat /\ balance \in Nat /\ share \in Nat
      /\ config.min_stake \in Nat \ {0} /\ desired \in Nat
  BY <1>1, ShareType, ManagementAssumption
     DEF TypeOK, Config, StakeRecord, Recorded, ValidatorRecord
<1>3. AboveTarget(v) = Monus(balance, share)
  BY <1>1, ShareType DEF AboveTarget
<1> HIDE DEF share, balance
<1>4. AboveTarget(v) \in Nat /\ balance = share + AboveTarget(v)
  BY <1>1, <1>2, <1>3 DEF Monus
<1>5. amount \in Nat /\ amount <= AboveTarget(v)
  BY <1>2, <1>4 DEF Lesser
<1>6. UnstakesWhole(s, amount) => Recorded(s) < amount + config.min_stake
  <2> HIDE DEF amount
  <2> QED
    BY <1>2, <1>5 DEF UnstakesWhole, Monus
<1> HIDE DEF amount
<1>7. taken \in Nat /\ taken < AboveTarget(v) + config.min_stake
  BY <1>2, <1>4, <1>5, <1>6
<1> HIDE DEF taken
<1>8. share < balance - taken + config.min_stake
  BY <1>2, <1>4, <1>7
<1> QED
  BY <1>1, <1>7, <1>8, ToEmergencyMoves DEF share, balance

-----------------------------------------------------------------------------
(* The action properties.                                                  *)

(* Only deactivate_stake cools stake down for the tickets.                 *)
LEMMA CoolsForTicketsSteps ==
  ASSUME TypeOK, [Next]_vars, CoolsForTickets
  PROVE  \E s, new \in Stake : DeactivateStake(s, new)
<1>1. delayed_unstake_cooling_down' > delayed_unstake_cooling_down
      /\ delayed_unstake_cooling_down \in Nat
  BY DEF CoolsForTickets, TypeOK
<1>2. ~UNCHANGED coolingVars
  BY <1>1 DEF coolingVars
<1>3. ASSUME NEW s \in Stake, UpdateDeactivated(s) PROVE FALSE
  <2>1. delayed_unstake_cooling_down' \in Int
    BY <1>3, StepType DEF TypeOK
  <2> QED
    BY <1>1, <1>3, <2>1, CollectionCools
<1>4. ASSUME NEW v, NEW amount, MoveToEmergency(v, amount) PROVE FALSE
  BY <1>1, <1>4 DEF MoveToEmergency
<1>5. ASSUME NEW s, EmergencyUnstake(s) PROVE FALSE
  BY <1>4, <1>5 DEF EmergencyUnstake
<1>6. ASSUME NEW s, NEW new, NEW amount, PartialUnstake(s, new, amount) PROVE FALSE
  BY <1>4, <1>6, Zenon DEF PartialUnstake
<1> QED
  BY <1>2, <1>3, <1>5, <1>6, CoolingRests

(* Only the manager's unstaking does in an emergency.                      *)
LEMMA MovesStakeSteps ==
  ASSUME TypeOK, ReserveCovered, [Next]_vars, MovesStake
  PROVE  \/ \E s \in Stake : EmergencyUnstake(s)
         \/ \E s, new \in Stake, amount \in UnstakeAmounts : PartialUnstake(s, new, amount)
<1>1. emergency_cooling_down' > emergency_cooling_down /\ emergency_cooling_down \in Nat
  BY DEF MovesStake, TypeOK
<1>2. ~UNCHANGED coolingVars
  BY <1>1 DEF coolingVars
<1>3. ASSUME NEW s \in Stake, UpdateDeactivated(s) PROVE FALSE
  <2>1. emergency_cooling_down' \in Int
    BY <1>3, StepType DEF TypeOK
  <2> QED
    BY <1>1, <1>3, <2>1, CollectionCools
<1>4. ASSUME NEW s, NEW new, DeactivateStake(s, new) PROVE FALSE
  BY <1>1, <1>4 DEF DeactivateStake
<1> QED
  BY <1>2, <1>3, <1>4, CoolingRests

(* Staking the reserve leaves the tickets covered: what stays and what     *)
(* cools down for them is all they claim.                                  *)
THEOREM TicketsCovered == Spec => TicketsStayCovered
<1>1. TypeOK /\ ReserveCovered /\ [Next]_vars => [StakesReserve => TicketBacking' >= 0]_vars
  BY StakesReserveSteps, StakeReserveMoves
<1> QED
  BY <1>1, TypeCorrect, ReserveAlwaysCovered, PTL DEF Spec, TicketsStayCovered

\* What UnstakesNoMoreThanNeeded says of a step.
NeededStep ==
  CoolsForTickets =>
    /\ TicketBacking + emergency_cooling_down < 0
    /\ TicketBacking' + emergency_cooling_down' < 2 * config.min_stake

(* Stake cools down for the tickets only when they lack it, the emergency  *)
(* cooling counted, and less than twice min_stake more than they lack.     *)
THEOREM UnstakingIsNeeded == Spec => UnstakesNoMoreThanNeeded
<1>1. TypeOK /\ ReserveCovered /\ [Next]_vars => NeededStep
  <2> SUFFICES ASSUME TypeOK, ReserveCovered, [Next]_vars, CoolsForTickets
               PROVE  /\ TicketBacking + emergency_cooling_down < 0
                      /\ TicketBacking' + emergency_cooling_down' < 2 * config.min_stake
    BY Zenon DEF NeededStep
  <2>1. PICK s \in Stake, new \in Stake : DeactivateStake(s, new)
    BY CoolsForTicketsSteps, Zenon
  <2> QED
    BY <2>1, DeactivateStakeMoves, Zenon
<1>2. TypeOK /\ ReserveCovered /\ [Next]_vars => [NeededStep]_vars
  BY <1>1, Zenon
<1>3. UnstakesNoMoreThanNeeded <=> [][NeededStep]_vars
  BY PTL DEF UnstakesNoMoreThanNeeded, NeededStep
<1> QED
  BY <1>2, <1>3, TypeCorrect, ReserveAlwaysCovered, PTL DEF Spec

\* What MovesRespectShares says of a step.
SharesStep ==
  \A v \in Validator :
    LET after == validator'[v].active_balance
    IN /\ StakesReserve /\ Gains(v)   => after < FairShare(v) + config.min_stake
       /\ CoolsForTickets /\ Loses(v) => after + 2 * config.min_stake > FairShare(v)
       /\ MovesStake /\ Loses(v)      => after + config.min_stake > FairShare(v)

(* Stake moves towards the shares of the scores, up to min_stake when it   *)
(* is staked, twice that when it is unstaked for tickets, and min_stake    *)
(* when the manager unstakes it.                                           *)
THEOREM SharesRespected == Spec => MovesRespectShares
<1>1. TypeOK /\ ReserveCovered /\ [Next]_vars => SharesStep
  <2> SUFFICES ASSUME TypeOK, ReserveCovered, [Next]_vars, NEW v \in Validator
      PROVE
        /\ StakesReserve /\ Gains(v)
             => validator'[v].active_balance < FairShare(v) + config.min_stake
        /\ CoolsForTickets /\ Loses(v)
             => validator'[v].active_balance + 2 * config.min_stake > FairShare(v)
        /\ MovesStake /\ Loses(v)
             => validator'[v].active_balance + config.min_stake > FairShare(v)
    BY Zenon DEF SharesStep
  <2>1. ASSUME StakesReserve, Gains(v)
        PROVE  validator'[v].active_balance < FairShare(v) + config.min_stake
    <3>1. PICK w \in Validator, s \in Stake : StakeReserve(w, s)
      BY <2>1, StakesReserveSteps, Zenon
    <3> QED
      BY <2>1, <3>1, StakeReserveMoves, Zenon
  <2>2. ASSUME CoolsForTickets, Loses(v)
        PROVE  validator'[v].active_balance + 2 * config.min_stake > FairShare(v)
    <3>1. PICK s \in Stake, new \in Stake : DeactivateStake(s, new)
      BY <2>2, CoolsForTicketsSteps, Zenon
    <3> QED
      BY <2>2, <3>1, DeactivateStakeMoves, Zenon
  <2>3. ASSUME MovesStake, Loses(v)
        PROVE  validator'[v].active_balance + config.min_stake > FairShare(v)
    BY <2>3, MovesStakeSteps, EmergencyUnstakeMoves, PartialUnstakeMoves, Zenon
  <2> QED
    BY <2>1, <2>2, <2>3
<1>2. TypeOK /\ ReserveCovered /\ [Next]_vars => [SharesStep]_vars
  BY <1>1, Zenon
<1>3. MovesRespectShares <=> [][SharesStep]_vars
  BY PTL DEF MovesRespectShares, SharesStep
<1> QED
  BY <1>2, <1>3, TypeCorrect, ReserveAlwaysCovered, PTL DEF Spec
=============================================================================
