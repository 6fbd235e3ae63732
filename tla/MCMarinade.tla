----------------------------- MODULE MCMarinade -----------------------------
(***************************************************************************)
(* The instances TLC checks.  Each of the specifications below allows the  *)
(* instructions that take part in one question, over two validators; the   *)
(* .cfg file of the run gives the amounts.                                 *)
(***************************************************************************)
EXTENDS MarinadeProperties, TLC

CONSTANTS v1, v2, c1, c2, s1, s2, s3

MCCanonicalStake == [v \in Validator |-> IF v = v1 THEN c1 ELSE c2]

\* Fees of 0.2% vanish on the small amounts of the staking runs; AdminSpec
\* and PoolSpec use larger amounts.
MCConfig ==
  [reward_fee |-> 1000, min_stake |-> 5, min_deposit |-> 1, min_withdraw |-> 1,
   delayed_unstake_fee |-> 0, withdraw_stake_account_fee |-> 0,
   withdraw_stake_account_enabled |-> TRUE, max_stake_moved_per_epoch |-> 10000,
   deposit_sol_fee |-> 0, deposit_stake_account_fee |-> 0,
   liquidity_sol_cap |-> 1000, lp_liquidity_target |-> 100,
   lp_max_fee |-> 1000, lp_min_fee |-> 100, treasury_cut |-> 5000]

\* A limit on moved stake that a second move of an epoch can meet.
MCMoveConfig == [MCConfig EXCEPT !.max_stake_moved_per_epoch = 7000]

\* A pool that one addition and a few other steps fill.
MCPoolConfig == [MCConfig EXCEPT !.liquidity_sol_cap = 24, !.lp_liquidity_target = 30]

\* The fees of liquid_unstake dropped, and the treasury's part of them.
MCLpChoices == {[MCPoolConfig EXCEPT !.lp_max_fee = 0, !.lp_min_fee = 0, !.treasury_cut = 0]}

KeypairSymmetry == Permutations({s1, s2, s3})

-----------------------------------------------------------------------------
(* The stake-delta cycle: deposits, tickets, staking, unstaking, updates   *)
(* and claims.                                                             *)
DeltaNext ==
  \/ ClusterStep
  \/ \E v \in Validator, score \in Scores : AddValidator(v, score)
  \/ \E s \in Stake : UpdateActive(s) \/ UpdateDeactivated(s)
  \/ \E v \in Validator, s \in Stake : StakeReserve(v, s)
  \/ \E s, new \in Stake : DeactivateStake(s, new)
  \/ \E lamports \in DepositAmounts : Deposit(lamports)
  \/ \E t \in Ticket, msol_amount \in MsolAmounts : OrderUnstake(t, msol_amount)
  \/ \E t \in Ticket : Claim(t)

DeltaSpec == Init /\ [][DeltaNext]_vars

-----------------------------------------------------------------------------
(* The manager moves stake between validators while the crank works for    *)
(* tickets, and a validator's stake is deactivated from outside.           *)
ManageNext ==
  \/ ClusterStep
  \/ ManagerStep
  \/ \E s \in Stake : UpdateActive(s) \/ UpdateDeactivated(s)
  \/ \E v \in Validator, s \in Stake : StakeReserve(v, s)
  \/ \E s, new \in Stake : DeactivateStake(s, new)
  \/ \E lamports \in DepositAmounts : Deposit(lamports)
  \/ \E t \in Ticket, msol_amount \in MsolAmounts : OrderUnstake(t, msol_amount)

ManageSpec == Init /\ [][ManageNext]_vars

-----------------------------------------------------------------------------
(* Stake accounts come from users and leave with them, and are merged into *)
(* the canonical accounts.                                                 *)
AccountsNext ==
  \/ ClusterStep
  \/ OutsideStep
  \/ \E s \in Stake : UpdateActive(s) \/ UpdateDeactivated(s)
  \/ \E s, new \in Stake : DeactivateStake(s, new)
  \/ \E v \in Validator, source \in Stake :
       MergeStakes(v, source) \/ CreateCanonicalStake(v, source)
  \/ \E v \in Validator, score \in Scores : AddValidator(v, score)
  \/ \E s \in Stake, v \in Validator, delegated \in UserStakes, activation \in Activation :
       DepositStakeAccount(s, v, delegated, activation)
  \/ \E s \in Stake, msol_amount \in MsolAmounts : WithdrawStakeAccount(s, msol_amount)
  \/ \E t \in Ticket, msol_amount \in MsolAmounts : OrderUnstake(t, msol_amount)

AccountsSpec == Init /\ [][AccountsNext]_vars

-----------------------------------------------------------------------------
(* The liquidity pool, with the deposits that buy its mSOL, and what       *)
(* reaches the reserve and the mint from outside: a later update of the    *)
(* stake account notices it and changes the price under the pool.          *)
PoolNext ==
  \/ OutsideStep
  \/ PoolStep
  \/ \E new_config \in ConfigChoices : ConfigLp(new_config)
  \/ \E lamports \in DepositAmounts : Deposit(lamports)
  \/ \E v \in Validator, score \in Scores : AddValidator(v, score)
  \/ \E s \in Stake, v \in Validator, delegated \in UserStakes :
       DepositStakeAccount(s, v, delegated, "active")
  \/ \E s \in Stake : UpdateActive(s)

\* The pool does not look at the clock.
PoolInit == Init /\ phase = "early"

PoolSpec == PoolInit /\ [][PoolNext]_vars

-----------------------------------------------------------------------------
(* The admin pauses, resumes and changes the parameters at any time.       *)
\* New fees of 0.2%, another min_stake, no withdrawal of stake accounts.
OtherConfig ==
  [MCConfig EXCEPT !.min_stake = 400, !.withdraw_stake_account_enabled = FALSE,
                   !.delayed_unstake_fee = 2000, !.deposit_sol_fee = 2000,
                   !.deposit_stake_account_fee = 2000,
                   !.withdraw_stake_account_fee = 2000]

FeeConfig == [OtherConfig EXCEPT !.withdraw_stake_account_enabled = TRUE, !.min_stake = 100]

OtherConfigs == {OtherConfig, FeeConfig}

AdminNext ==
  \/ ClusterStep
  \/ OutsideStep
  \/ AdminStep
  \/ CrankStep
  \/ UserStep
  \/ \E v \in Validator, score \in Scores : AddValidator(v, score)
  \/ \E extra_runs \in ExtraRuns : ConfigValidatorSystem(extra_runs)

AdminSpec == Init /\ [][AdminNext]_vars
=============================================================================
