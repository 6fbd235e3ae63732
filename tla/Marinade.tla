------------------------------ MODULE Marinade ------------------------------
(***************************************************************************)
(* The whole program: initialize, the instructions of the admin, and one   *)
(* action for every instruction of lib.rs that changes the modelled state. *)
(***************************************************************************)
EXTENDS Management, LiqPool

CONSTANTS
  ConfigChoices,    \* the parameter sets the admin may install
  CapChoices,       \* values of staking_sol_cap
  InitialConfig,    \* the parameters initialize installs
  InitialCap,       \* u64::MAX, or any cap above SolSupply
  FirstEpoch        \* the epoch of initialize

ASSUME ConfigAssumption ==
  /\ ConfigChoices \subseteq Config
  /\ InitialConfig \in Config
  /\ CapChoices \subseteq Nat
  /\ InitialCap \in Nat
  /\ FirstEpoch \in Nat

-----------------------------------------------------------------------------
(* initialize: the books are empty, the reserve and the SOL leg hold their *)
(* rent.  The clock can be anywhere in an epoch.                           *)
Init ==
  /\ epoch = FirstEpoch
  /\ phase \in Phase
  /\ account = [s \in Stake |-> NoAccount]
  /\ reserve_pda = RentExempt
  /\ msol_mint_supply = 0
  /\ stake = [s \in Stake |-> NoRecord]
  /\ validator = [v \in Validator |-> Unlisted]
  /\ total_validator_score = 0
  /\ total_active_balance = 0
  /\ delayed_unstake_cooling_down = 0
  /\ emergency_cooling_down = 0
  /\ available_reserve_balance = 0
  /\ msol_supply = 0
  /\ last_stake_delta_epoch = Never
  /\ extra_stake_delta_runs = 0
  /\ last_stake_move_epoch = 0
  /\ stake_moved = 0
  /\ ticket = [t \in Ticket |-> ClosedTicket]
  /\ circulating_ticket_balance = 0
  /\ circulating_ticket_count = 0
  /\ staking_sol_cap = InitialCap
  /\ paused = FALSE
  /\ config = InitialConfig
  /\ delinquent_upgrader = UpgradeDone
  /\ sol_leg = RentExempt
  /\ msol_leg = 0
  /\ lp_mint_supply = 0
  /\ lp_supply = 0

-----------------------------------------------------------------------------
(* instructions/admin.                                                     *)

adminUnchanged == <<clockVars, reserveVars, msolVars, stakeVars, validatorVars,
                    coolingVars, deltaVars, moveVars, ticketVars,
                    total_validator_score, delinquent_upgrader, poolVars>>

\* config_marinade: new parameters of the stake pool, and the caps.  Each is
\* within the limits of Config; what the others are does not matter.
ConfigMarinade(new_config, new_cap) ==
  /\ config' = [new_config EXCEPT !.lp_liquidity_target = config.lp_liquidity_target,
                                  !.lp_max_fee = config.lp_max_fee,
                                  !.lp_min_fee = config.lp_min_fee,
                                  !.treasury_cut = config.treasury_cut]
  /\ staking_sol_cap' = new_cap
  /\ UNCHANGED <<adminUnchanged, paused>>

\* config_lp: new parameters of the liquidity pool, which must fit together.
ConfigLp(new_config) ==
  /\ new_config.lp_min_fee <= new_config.lp_max_fee
  /\ config' = [config EXCEPT !.lp_liquidity_target = new_config.lp_liquidity_target,
                              !.lp_max_fee = new_config.lp_max_fee,
                              !.lp_min_fee = new_config.lp_min_fee,
                              !.treasury_cut = new_config.treasury_cut]
  /\ UNCHANGED <<adminUnchanged, paused, staking_sol_cap>>

Pause ==
  /\ ~paused
  /\ paused' = TRUE
  /\ UNCHANGED <<adminUnchanged, config, staking_sol_cap>>

Resume ==
  /\ paused
  /\ paused' = FALSE
  /\ UNCHANGED <<adminUnchanged, config, staking_sol_cap>>

-----------------------------------------------------------------------------
ClusterStep ==
  \/ Tick
  \/ NewEpoch
  \/ \E s \in Stake : DeactivateDelinquent(s)

\* What anybody sends or burns without asking the program.
OutsideStep ==
  \/ \E s \in Stake, lamports \in Tips : Tip(s, lamports)
  \/ \E lamports \in Donations : Donate(lamports)
  \/ \E msol \in Burns : BurnMsol(msol)

Environment ==
  \/ ClusterStep
  \/ OutsideStep
  \/ \E s \in Stake, lamports \in Slashes : Slash(s, lamports)

CrankStep ==
  \/ \E s \in Stake : UpdateActive(s)
  \/ \E s \in Stake : UpdateDeactivated(s)
  \/ \E batch \in SUBSET Validator : FinalizeDelinquentUpgrade(batch)
  \/ \E v \in Validator, s \in Stake : StakeReserve(v, s)
  \/ \E v \in Validator : SpendExtraRun(v)
  \/ \E s, new \in Stake : DeactivateStake(s, new)
  \/ \E v \in Validator, source \in Stake : MergeStakes(v, source)
  \/ \E v \in Validator, source \in Stake : CreateCanonicalStake(v, source)

UserStep ==
  \/ \E lamports \in DepositAmounts : Deposit(lamports)
  \/ \E s \in Stake, v \in Validator, delegated \in UserStakes, activation \in Activation :
       DepositStakeAccount(s, v, delegated, activation)
  \/ \E s \in Stake, msol_amount \in MsolAmounts : WithdrawStakeAccount(s, msol_amount)
  \/ \E t \in Ticket, msol_amount \in MsolAmounts : OrderUnstake(t, msol_amount)
  \/ \E t \in Ticket : Claim(t)

PoolStep ==
  \/ \E lamports \in LiquidityAmounts : AddLiquidity(lamports)
  \/ \E tokens \in LpAmounts : RemoveLiquidity(tokens)
  \/ \E msol_amount \in MsolAmounts : LiquidUnstake(msol_amount)
  \/ \E tokens \in LpAmounts : BurnLp(tokens)
  \/ \E lamports \in Donations : DonateSolLeg(lamports)

ManagerStep ==
  \/ \E v \in Validator, score \in Scores : AddValidator(v, score)
  \/ \E v \in Validator : RemoveValidator(v)
  \/ \E v \in Validator, score \in Scores : SetValidatorScore(v, score)
  \/ \E extra_runs \in ExtraRuns : ConfigValidatorSystem(extra_runs)
  \/ \E s \in Stake : EmergencyUnstake(s)
  \/ \E s, new \in Stake, amount \in UnstakeAmounts : PartialUnstake(s, new, amount)

AdminStep ==
  \/ \E new_config \in ConfigChoices, new_cap \in CapChoices :
       ConfigMarinade(new_config, new_cap)
  \/ \E new_config \in ConfigChoices : ConfigLp(new_config)
  \/ Pause
  \/ Resume

Next ==
  \/ Environment
  \/ CrankStep
  \/ UserStep
  \/ PoolStep
  \/ ManagerStep
  \/ AdminStep

Spec == Init /\ [][Next]_vars
=============================================================================
