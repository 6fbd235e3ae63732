----------------------------- MODULE Management -----------------------------
(***************************************************************************)
(* The instructions of the validator manager, instructions/management, and *)
(* config_validator_system.                                                *)
(***************************************************************************)
EXTENDS Crank

CONSTANTS
  Scores,           \* scores the manager gives
  UnstakeAmounts,   \* desired_unstake_amount of partial_unstake
  ExtraRuns         \* extra_runs of config_validator_system

ASSUME ManagementAssumption ==
  Scores \subseteq Nat /\ UnstakeAmounts \subseteq Nat /\ ExtraRuns \subseteq Nat

ChangeValidators(v, record) ==
  /\ validator' = [validator EXCEPT ![v] = record]
  /\ UNCHANGED <<clockVars, reserveVars, msolVars, stakeVars, total_active_balance,
                 coolingVars, deltaVars, moveVars, ticketVars, config, paused,
                 staking_sol_cap, delinquent_upgrader, poolVars>>

\* add_validator; the duplication flag account keeps a validator from being
\* listed twice.
AddValidator(v, score) ==
  /\ ~paused
  /\ IsDone
  /\ ~validator[v].listed
  /\ total_validator_score' = total_validator_score + score
  /\ ChangeValidators(v, NewValidatorRecord(score))

RemoveValidator(v) ==
  /\ ~paused
  /\ IsDone
  /\ validator[v].listed
  /\ validator[v].active_balance = 0
  /\ validator[v].score <= total_validator_score
  /\ total_validator_score' = total_validator_score - validator[v].score
  /\ ChangeValidators(v, Unlisted)

ScoreAdded(v, score) == total_validator_score + score     \* mutant

ScoreReplaced(v, score) == total_validator_score - validator[v].score + score

SetValidatorScore(v, score) ==
  /\ ~paused
  /\ validator[v].listed
  /\ validator[v].score <= total_validator_score
  /\ total_validator_score' = ScoreReplaced(v, score)
  /\ ChangeValidators(v, [validator[v] EXCEPT !.score = score])

ConfigValidatorSystem(extra_runs) ==
  /\ extra_stake_delta_runs' = extra_runs
  /\ UNCHANGED <<clockVars, reserveVars, msolVars, stakeVars, validatorVars,
                 last_stake_delta_epoch, coolingVars, moveVars, ticketVars,
                 adminVars, staking_sol_cap, delinquent_upgrader, poolVars>>

-----------------------------------------------------------------------------
\* What both unstake instructions do to the books for amount lamports of v.
MoveToEmergency(v, amount) ==
  /\ OnStakeMoved(amount)
  /\ MovableFrom(v, amount)
  /\ validator' = [validator EXCEPT ![v].active_balance = @ - amount]
  /\ total_active_balance' = total_active_balance - amount
  /\ emergency_cooling_down' = emergency_cooling_down + amount
  /\ UNCHANGED <<clockVars, reserveVars, msolVars, delayed_unstake_cooling_down,
                 deltaVars, ticketVars, adminVars, staking_sol_cap,
                 delinquent_upgrader, poolVars>>

EmergencyUnstake(s) ==
  /\ ~paused
  /\ IsDone
  /\ s \in Listed
  /\ Unstakable(s)
  /\ validator[Voter(s)].score = 0
  /\ DeactivateWhole(s, TRUE)
  /\ MoveToEmergency(Voter(s), Recorded(s))

AboveTargetAll(v) == validator[v].active_balance     \* mutant

\* How far v is above its share of the stake there will be.
AboveTarget(v) ==
  Monus(validator[v].active_balance,
        ValidatorStakeTarget(v, total_active_balance + StakeDelta))

NeverWhole(s, amount) == FALSE     \* mutant

\* What would remain in the account is less than min_stake.
UnstakesWhole(s, amount) == Monus(Recorded(s), amount) < config.min_stake

PartialUnstake(s, new, desired_unstake_amount) ==
  /\ ~paused
  /\ IsDone
  /\ desired_unstake_amount >= config.min_stake
  /\ s \in Listed
  /\ Unstakable(s)
  /\ total_active_balance + StakeDelta >= 0
  /\ AboveTarget(Voter(s)) > config.min_stake
  /\ LET amount == Lesser(desired_unstake_amount, AboveTarget(Voter(s)))
     IN IF UnstakesWhole(s, amount)
        THEN DeactivateWhole(s, TRUE) /\ MoveToEmergency(Voter(s), Recorded(s))
        ELSE DeactivateSplit(s, new, amount, TRUE) /\ MoveToEmergency(Voter(s), amount)
=============================================================================
