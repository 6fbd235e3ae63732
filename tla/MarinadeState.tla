--------------------------- MODULE MarinadeState ---------------------------
(***************************************************************************)
(* The accounts the program reads and writes: the State account with its   *)
(* stake list and validator list, the users' tickets, and the balances it  *)
(* does not own but acts on (the reserve, the mSOL mint, the stake         *)
(* accounts of the Solana stake program, the legs of the liquidity pool).  *)
(* The handlers are in Crank, Management, Users, LiqPool and Marinade, one *)
(* module for each family of instructions.                                 *)
(***************************************************************************)
EXTENDS LamportSums, Calc

CONSTANTS
  Validator,          \* vote accounts
  Stake,              \* addresses of stake accounts
  Ticket,             \* addresses of ticket accounts
  CanonicalStake,     \* the canonical stake address of each validator (a PDA)
  StakeListCapacity,  \* records that fit in the stake list account
  RentExempt,         \* rent_exempt_for_token_acc: what stays in reserve and leg
  StakeRent,          \* rent_exempt_reserve of every stake account
  TreasuryReady,      \* treasury_msol_account is a token account of the mint
  None                \* no voter

ASSUME ValidatorAssumption == IsFiniteSet(Validator) /\ None \notin Validator

ASSUME StakeAssumption == IsFiniteSet(Stake) /\ IsFiniteSet(Ticket)

ASSUME CanonicalAssumption ==
  /\ CanonicalStake \in [Validator -> Stake]
  /\ \A v, w \in Validator : v # w => CanonicalStake[v] # CanonicalStake[w]

ASSUME RentAssumption ==
  /\ StakeListCapacity \in Nat
  /\ RentExempt \in Nat
  /\ StakeRent \in Nat
  /\ TreasuryReady \in BOOLEAN

VARIABLES
  epoch,                         \* Clock::epoch
  phase,                         \* where in the epoch the slot is
  account,                       \* the native stake accounts
  reserve_pda,                   \* lamports of the reserve, its rent included
  msol_mint_supply,              \* supply of the mSOL mint
  stake,                         \* the StakeRecords of the stake list
  validator,                     \* the ValidatorRecords of the validator list
  total_validator_score,
  total_active_balance,
  delayed_unstake_cooling_down,
  emergency_cooling_down,
  available_reserve_balance,
  msol_supply,
  last_stake_delta_epoch,
  extra_stake_delta_runs,
  last_stake_move_epoch,
  stake_moved,
  ticket,                        \* the TicketAccountData accounts
  circulating_ticket_balance,
  circulating_ticket_count,
  staking_sol_cap,
  paused,
  config,                        \* the parameters the admin sets
  delinquent_upgrader,
  sol_leg,                       \* lamports of the pool's SOL leg, rent included
  msol_leg,                      \* mSOL of the pool's other leg
  lp_mint_supply,
  lp_supply

clockVars     == <<epoch, phase>>
reserveVars   == <<reserve_pda, available_reserve_balance>>
msolVars      == <<msol_mint_supply, msol_supply>>
stakeVars     == <<account, stake>>
validatorVars == <<validator, total_active_balance>>
coolingVars   == <<delayed_unstake_cooling_down, emergency_cooling_down>>
deltaVars     == <<last_stake_delta_epoch, extra_stake_delta_runs>>
moveVars      == <<last_stake_move_epoch, stake_moved>>
ticketVars    == <<ticket, circulating_ticket_balance, circulating_ticket_count>>
adminVars     == <<config, paused, total_validator_score>>
poolVars      == <<sol_leg, msol_leg, lp_mint_supply, lp_supply>>

vars == <<clockVars, reserveVars, msolVars, stakeVars, validatorVars,
          coolingVars, deltaVars, moveVars, ticketVars, adminVars,
          staking_sol_cap, delinquent_upgrader, poolVars>>

-----------------------------------------------------------------------------
(* The accounts.                                                           *)

\* The slot within the epoch, as far as the program looks at it: less than
\* EXTRA_WAIT_SECONDS after the epoch began, later, or in the last
\* slots_for_stake_delta slots.
Phase == {"early", "middle", "window"}

\* A native stake account.  Its lamports are StakeRent + delegated + extra.
Activation == {"none", "activating", "active", "deactivating", "inactive"}

Account == [activation : Activation, voter : Validator \cup {None},
            delegated : Nat, extra : Nat]

NoAccount == [activation |-> "none", voter |-> None, delegated |-> 0, extra |-> 0]

\* A stake record; status "None" when the address is not in the list.
StakeStatus == {"None", "Unknown", "Active", "Deactivating"}

StakeRecord == [last_update_delegated_lamports : Nat,
                is_emergency_unstaking : BOOLEAN,
                last_update_status : StakeStatus]

NoRecord == [last_update_delegated_lamports |-> 0,
             is_emergency_unstaking |-> FALSE,
             last_update_status |-> "None"]

\* A validator record; Never is the Epoch::MAX of a new record, and of a new
\* State.
Never == -1

ValidatorRecord == [listed : BOOLEAN, active_balance : Nat, score : Nat,
                    last_stake_delta_epoch : Nat \cup {Never},
                    delinquent_upgrader_active_balance : Nat]

NewValidatorRecord(score) ==
  [listed |-> TRUE, active_balance |-> 0, score |-> score,
   last_stake_delta_epoch |-> Never, delinquent_upgrader_active_balance |-> 0]

Unlisted == [NewValidatorRecord(0) EXCEPT !.listed = FALSE]

TicketRecord == [open : BOOLEAN, lamports_amount : Nat, created_epoch : Nat]

ClosedTicket == [open |-> FALSE, lamports_amount |-> 0, created_epoch |-> 0]

\* DelinquentUpgraderState; the fields of the other variants are at rest.
Upgrader == [stage : {"IteratingStakes", "IteratingValidators", "Done"},
             visited_count : Nat, total_active_balance : Nat,
             total_delinquent_balance : Nat,
             visited : SUBSET Validator, delinquent_balance_left : Nat]

UpgradeDone == [stage |-> "Done", visited_count |-> 0, total_active_balance |-> 0,
                total_delinquent_balance |-> 0,
                visited |-> {}, delinquent_balance_left |-> 0]

IsDone == delinquent_upgrader.stage = "Done"

-----------------------------------------------------------------------------
(* The parameters and the limits that config_marinade and config_lp put on *)
(* them.  A fee is in basis points (Fee) or in their hundredths (FeeCents).*)

Fee == 0..MAX_BASIS_POINTS

MAX_REWARD_FEE == 1000

MAX_FEE_CENTS == 2000    \* the four MAX_..._FEE of 0.2%

LP_MAX_FEE == 1000       \* LiqPool::MAX_FEE

LP_MAX_TREASURY_CUT == 7500

Config == [reward_fee : 0..MAX_REWARD_FEE,
           min_stake : Nat \ {0}, min_deposit : Nat, min_withdraw : Nat,
           delayed_unstake_fee : 0..MAX_FEE_CENTS,
           withdraw_stake_account_fee : 0..MAX_FEE_CENTS,
           withdraw_stake_account_enabled : BOOLEAN,
           max_stake_moved_per_epoch : Nat,
           deposit_sol_fee : 0..MAX_FEE_CENTS,
           deposit_stake_account_fee : 0..MAX_FEE_CENTS,
           liquidity_sol_cap : Nat,
           lp_liquidity_target : Nat, lp_max_fee : 0..LP_MAX_FEE,
           lp_min_fee : 0..LP_MAX_FEE, treasury_cut : 0..LP_MAX_TREASURY_CUT]

-----------------------------------------------------------------------------
(* Lists.                                                                  *)

Listed == {s \in Stake : stake[s].last_update_status # "None"}

ListedValidators == {v \in Validator : validator[v].listed}

\* List::push fails on a full account.
RoomFor(n) == Cardinality(Listed) + n <= StakeListCapacity

\* An address at which an instruction can make a new stake account.
FreshStake == {s \in Stake : account[s] = NoAccount /\ s \notin Listed}

\* Of these, the ones a caller can choose: a PDA is not a keypair.
Keypair == FreshStake \ {CanonicalStake[v] : v \in Validator}

\* Mutant: the status of a new record is the wrong way round.
NewStakeRecordInverted(lamports, is_emergency_unstaking, is_active) ==
  [last_update_delegated_lamports |-> lamports,
   is_emergency_unstaking |-> is_emergency_unstaking,
   last_update_status |-> IF is_active THEN "Deactivating" ELSE "Active"]

\* StakeRecord::new
NewStakeRecord(lamports, is_emergency_unstaking, is_active) ==
  [last_update_delegated_lamports |-> lamports,
   is_emergency_unstaking |-> is_emergency_unstaking,
   last_update_status |-> IF is_active THEN "Active" ELSE "Deactivating"]

-----------------------------------------------------------------------------
(* The functions of State.                                                 *)

TotalCoolingDown == delayed_unstake_cooling_down + emergency_cooling_down

TotalLamportsUnderControl ==
  total_active_balance + TotalCoolingDown + available_reserve_balance

CheckStakingCap(lamports) ==
  TotalLamportsUnderControl + lamports <= staking_sol_cap

TotalVirtualStakedLamports ==
  Monus(TotalLamportsUnderControl, circulating_ticket_balance)

CalcMsolFromLamports(lamports) ==
  SharesFromValue(lamports, TotalVirtualStakedLamports, msol_supply)

\* Mutant: the value of mSOL is rounded up.
MsolToSolRoundedUp(msol) ==
  ValueFromShares(msol, TotalVirtualStakedLamports, msol_supply) + 1

MsolToSol(msol) ==
  ValueFromShares(msol, TotalVirtualStakedLamports, msol_supply)

\* Mutant: what cools down for the tickets is forgotten.
StakeDeltaForgetsCooling ==
  LET raw == Monus(reserve_pda, RentExempt) - circulating_ticket_balance
  IN IF raw >= 0 THEN raw ELSE Lesser(raw + emergency_cooling_down, 0)

\* Mutant: emergency cooling counts as lamports to stake.
StakeDeltaCountsEmergency ==
  Monus(reserve_pda, RentExempt) + TotalCoolingDown - circulating_ticket_balance

\* Mutant: the tickets are forgotten.
StakeDeltaForgetsTickets ==
  Monus(reserve_pda, RentExempt) + delayed_unstake_cooling_down

StakeDelta ==
  LET raw == Monus(reserve_pda, RentExempt) + delayed_unstake_cooling_down
               - circulating_ticket_balance
  IN IF raw >= 0 THEN raw ELSE Lesser(raw + emergency_cooling_down, 0)

ValidatorStakeTarget(v, total_stake_target) ==
  IF total_validator_score = 0
  THEN 0
  ELSE Proportional(total_stake_target, validator[v].score, total_validator_score)

\* Mutant: the transfer is registered twice.
OnTransferToReserveTwice(amount) ==
  /\ reserve_pda' = reserve_pda + amount
  /\ available_reserve_balance' = available_reserve_balance + 2 * amount

OnTransferToReserve(amount) ==
  /\ reserve_pda' = reserve_pda + amount
  /\ available_reserve_balance' = available_reserve_balance + amount

\* Mutant: available_reserve_balance is left alone.
OnTransferFromReserveForgets(amount) ==
  /\ amount <= reserve_pda
  /\ reserve_pda' = reserve_pda - amount
  /\ UNCHANGED available_reserve_balance

OnTransferFromReserve(amount) ==
  /\ amount <= reserve_pda
  /\ amount <= available_reserve_balance
  /\ reserve_pda' = reserve_pda - amount
  /\ available_reserve_balance' = available_reserve_balance - amount

\* Mutant: the mint is not registered.
OnMsolMintUnregistered(amount) ==
  /\ msol_mint_supply' = msol_mint_supply + amount
  /\ UNCHANGED msol_supply

OnMsolMint(amount) ==
  /\ msol_mint_supply' = msol_mint_supply + amount
  /\ msol_supply' = msol_supply + amount

\* Mutant: the burn is not registered.
OnMsolBurnUnregistered(amount) ==
  /\ msol_mint_supply' = msol_mint_supply - amount
  /\ UNCHANGED msol_supply

OnMsolBurn(amount) ==
  /\ amount <= msol_supply
  /\ msol_mint_supply' = msol_mint_supply - amount
  /\ msol_supply' = msol_supply - amount

\* Mutant: an earlier move of the epoch is forgotten.
OnStakeMovedForgets(amount) ==
  /\ amount <= ApplyFee(config.max_stake_moved_per_epoch, TotalLamportsUnderControl)
  /\ last_stake_move_epoch' = epoch
  /\ stake_moved' = amount

OnStakeMoved(amount) ==
  LET moved == amount + IF epoch = last_stake_move_epoch THEN stake_moved ELSE 0
  IN /\ moved <= ApplyFee(config.max_stake_moved_per_epoch, TotalLamportsUnderControl)
     /\ last_stake_move_epoch' = epoch
     /\ stake_moved' = moved

\* mSOL in the hands of users and of the treasury.  Their wallets are one:
\* check_token_source_account asks that somebody holds the amount.
UserMsol == msol_mint_supply - msol_leg

\* a - b over the two balances that hold a validator's active stake
MovableFrom(v, amount) ==
  amount <= validator[v].active_balance /\ amount <= total_active_balance
=============================================================================
