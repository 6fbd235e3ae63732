------------------------------- MODULE Users --------------------------------
(***************************************************************************)
(* The instructions of the users: instructions/user (deposit, deposit and  *)
(* withdraw a stake account) and instructions/delayed_unstake (order a     *)
(* ticket, claim it).                                                      *)
(***************************************************************************)
EXTENDS Crank

CONSTANTS
  DepositAmounts,   \* lamports of a deposit
  UserStakes,       \* delegations of the stake accounts users bring
  MsolAmounts       \* msol_amount of order_unstake, withdraw_stake_account, liquid_unstake

ASSUME UsersAssumption ==
  DepositAmounts \subseteq Nat /\ UserStakes \subseteq Nat /\ MsolAmounts \subseteq Nat

\* The mint authority is a PDA: no instruction mints but through the books.
MsolMintRegistered == msol_mint_supply <= msol_supply

-----------------------------------------------------------------------------
(* deposit: sell the user the mSOL of the pool's leg, at the price and     *)
(* without a fee, and mint the rest.                                       *)
Deposit(lamports) ==
  LET buy_order     == CalcMsolFromLamports(
                         Monus(lamports, ApplyFeeCents(config.deposit_sol_fee, lamports)))
      msol_swapped  == Lesser(buy_order, msol_leg)
      sol_swapped   == IF msol_swapped = 0 THEN 0
                       ELSE IF msol_swapped = buy_order THEN lamports
                       ELSE MsolToSol(msol_swapped)
      sol_deposited == lamports - sol_swapped
  IN /\ ~paused
     /\ lamports >= config.min_deposit
     /\ Affordable(lamports)
     /\ MsolMintRegistered
     /\ sol_deposited >= 0
     /\ sol_deposited > 0 => CheckStakingCap(sol_deposited)
     /\ msol_leg' = msol_leg - msol_swapped
     /\ sol_leg' = sol_leg + sol_swapped
     /\ OnTransferToReserve(sol_deposited)
     /\ OnMsolMint(buy_order - msol_swapped)
     /\ UNCHANGED <<clockVars, stakeVars, validatorVars, coolingVars, deltaVars, moveVars,
                    ticketVars, adminVars, staking_sol_cap, delinquent_upgrader,
                    lp_mint_supply, lp_supply>>

\* The delegation is counted with v; during an upgrade, as visited already by
\* the stage that has not come to it.
CountDeposited(v, delegated) ==
  LET up        == delinquent_upgrader
      iterating == up.stage = "IteratingStakes"
      \* a validator that finalize_delinquent_upgrade has not reached
      pending   == iterating \/ (up.stage = "IteratingValidators" /\ v \notin up.visited)
  IN /\ validator' = [validator EXCEPT
          ![v].active_balance = @ + delegated,
          ![v].delinquent_upgrader_active_balance = @ + IF pending THEN delegated ELSE 0]
     /\ total_active_balance' = total_active_balance + delegated
     /\ delinquent_upgrader' =
          IF iterating
          THEN [up EXCEPT !.visited_count = @ + 1, !.total_active_balance = @ + delegated]
          ELSE up

\* The account, free of lockup and of its former authorities, enters the list.
TakeOver(s, v, delegated, activation) ==
  /\ RoomFor(1)
  /\ account' = [account EXCEPT ![s] =
       [activation |-> activation, voter |-> v, delegated |-> delegated, extra |-> 0]]
  /\ stake' = [stake EXCEPT ![s] = NewStakeRecord(delegated, FALSE, TRUE)]

MintForStake(delegated) ==
  OnMsolMint(CalcMsolFromLamports(
    Monus(delegated, ApplyFeeCents(config.deposit_stake_account_fee, delegated))))

(* deposit_stake_account: the user's account s, delegated to v, becomes    *)
(* one of the program's.                                                   *)
DepositStakeAccount(s, v, delegated, activation) ==
  /\ ~paused
  /\ MsolMintRegistered
  /\ s \in Keypair
  /\ activation \in {"activating", "active"}
  /\ delegated >= config.min_stake
  /\ Affordable(delegated)
  /\ CheckStakingCap(delegated)
  /\ validator[v].listed
  /\ CountDeposited(v, delegated)
  /\ TakeOver(s, v, delegated, activation)
  /\ MintForStake(delegated)
  /\ UNCHANGED <<clockVars, reserveVars, coolingVars, deltaVars, moveVars, ticketVars,
                 adminVars, staking_sol_cap, poolVars>>

NothingNeedRemain(s, split_lamports) == TRUE     \* mutant

EnoughRemains(s, split_lamports) == Recorded(s) - split_lamports >= config.min_stake

\* The lamports msol_amount buys, less the fee, and the part of it that goes to
\* the treasury instead of being burned.
SplitLamports(msol_amount) ==
  MsolToSol(msol_amount)
    - ApplyFeeCents(config.withdraw_stake_account_fee, MsolToSol(msol_amount))

WithdrawFees(msol_amount) ==
  IF TreasuryReady
  THEN Monus(msol_amount, CalcMsolFromLamports(SplitLamports(msol_amount)))
  ELSE 0

\* split_lamports of account s leave, in an account of the user's own.
SplitToUser(s, split_lamports) ==
  /\ MovableFrom(Voter(s), split_lamports)
  /\ account' = [account EXCEPT ![s].delegated = @ - split_lamports]
  /\ stake' = [stake EXCEPT ![s].last_update_delegated_lamports = @ - split_lamports]
  /\ validator' = [validator EXCEPT ![Voter(s)].active_balance = @ - split_lamports]
  /\ total_active_balance' = total_active_balance - split_lamports

(* withdraw_stake_account: part of account s, worth the mSOL less the fee, *)
(* leaves with the user.                                                   *)
WithdrawStakeAccount(s, msol_amount) ==
  /\ ~paused
  /\ config.withdraw_stake_account_enabled
  /\ IsDone
  /\ msol_amount <= UserMsol
  /\ s \in Listed
  /\ Unstakable(s)
  /\ CanDeactivate(s)          \* deactivation_epoch is u64::MAX
  /\ MsolToSol(msol_amount) >= config.min_withdraw
  /\ SplitLamports(msol_amount) >= config.min_stake
  /\ EnoughRemains(s, SplitLamports(msol_amount))
  /\ OnMsolBurn(msol_amount - WithdrawFees(msol_amount))
  /\ SplitToUser(s, SplitLamports(msol_amount))
  /\ UNCHANGED <<clockVars, reserveVars, coolingVars, deltaVars, moveVars, ticketVars,
                 adminVars, staking_sol_cap, delinquent_upgrader, poolVars>>

-----------------------------------------------------------------------------
CreatedEpochAlwaysNow == epoch     \* mutant

\* Once the stake delta of the epoch has begun, a ticket counts for the next.
CreatedEpoch == epoch + IF epoch = last_stake_delta_epoch THEN 1 ELSE 0

(* order_unstake: burn mSOL for a ticket over its value less the fee.      *)
OrderUnstake(t, msol_amount) ==
  LET sol_value == MsolToSol(msol_amount)
      lamports  == sol_value - ApplyFeeCents(config.delayed_unstake_fee, sol_value)
  IN /\ ~paused
     /\ ~ticket[t].open
     /\ msol_amount <= UserMsol
     /\ lamports >= config.min_withdraw
     /\ circulating_ticket_balance' = circulating_ticket_balance + lamports
     /\ circulating_ticket_count' = circulating_ticket_count + 1
     /\ OnMsolBurn(msol_amount)
     /\ ticket' = [ticket EXCEPT ![t] =
          [open |-> TRUE, lamports_amount |-> lamports, created_epoch |-> CreatedEpoch]]
     /\ UNCHANGED <<clockVars, reserveVars, stakeVars, validatorVars, coolingVars, deltaVars,
                    moveVars, adminVars, staking_sol_cap, delinquent_upgrader, poolVars>>

WAIT_EPOCHS == 1

\* check_ticket_account
TicketDue(t) ==
  /\ ticket[t].lamports_amount # 0
  /\ epoch >= ticket[t].created_epoch + WAIT_EPOCHS
  /\ epoch = ticket[t].created_epoch + WAIT_EPOCHS => phase # "early"

\* Mutant: the tickets' total keeps the closed ticket.
CloseTicketForgets(t) ==
  /\ circulating_ticket_count > 0
  /\ circulating_ticket_count' = circulating_ticket_count - 1
  /\ ticket' = [ticket EXCEPT ![t] = ClosedTicket]
  /\ UNCHANGED circulating_ticket_balance

CloseTicket(t) ==
  /\ ticket[t].lamports_amount <= circulating_ticket_balance
  /\ circulating_ticket_count > 0
  /\ circulating_ticket_balance' = circulating_ticket_balance - ticket[t].lamports_amount
  /\ circulating_ticket_count' = circulating_ticket_count - 1
  /\ ticket' = [ticket EXCEPT ![t] = ClosedTicket]

(* claim: pay a due ticket from the reserve and close it.                  *)
Claim(t) ==
  LET lamports == ticket[t].lamports_amount
  IN /\ ~paused
     /\ ticket[t].open
     /\ TicketDue(t)
     /\ lamports <= reserve_pda - RentExempt
     /\ CloseTicket(t)
     /\ OnTransferFromReserve(lamports)
     /\ UNCHANGED <<clockVars, msolVars, stakeVars, validatorVars, coolingVars, deltaVars,
                    moveVars, adminVars, staking_sol_cap, delinquent_upgrader, poolVars>>
=============================================================================
