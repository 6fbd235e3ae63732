------------------------------- MODULE Crank --------------------------------
(***************************************************************************)
(* The permissionless instructions that keep the books in line with the    *)
(* stake accounts and move stake towards its targets: instructions/crank.  *)
(* Only successful calls are steps.  A call that returns Ok after changing *)
(* nothing is a stuttering step and is not written down; stake_reserve has *)
(* one early return that does change the state (SpendExtraRun).            *)
(***************************************************************************)
EXTENDS Cluster

Is(s, status) == stake[s].last_update_status = status

Voter(s) == account[s].voter

Recorded(s) == stake[s].last_update_delegated_lamports

-----------------------------------------------------------------------------
(* UpdateCommon.                                                           *)

\* available_reserve_balance and msol_supply as begin leaves them.
SyncedWithRent == reserve_pda     \* mutant

Synced == Monus(reserve_pda, RentExempt)

Begin(s) ==
  /\ s \in Listed
  /\ Voter(s) \in Validator
  /\ validator[Voter(s)].listed
  /\ staking_sol_cap' = IF msol_mint_supply > msol_supply THEN 0 ELSE staking_sol_cap

\* The virtual staked lamports once the reserve holds extra more than synced.
SyncedVirtual(extra) ==
  Monus(total_active_balance + TotalCoolingDown + Synced + extra,
        circulating_ticket_balance)

\* The mSOL minted to the treasury for lamports_incoming, at the price total / supply.
MintProtocolFees(lamports_incoming, total, supply) ==
  IF TreasuryReady
  THEN SharesFromValue(ApplyFee(config.reward_fee, lamports_incoming), total, supply)
  ELSE 0

\* check_delinquent_upgrade_state_progression, given the stake count and the
\* total active balance the instruction ends with.
AllButOneVisited(up, count) ==    \* mutant
  up.stage = "IteratingStakes" /\ up.visited_count + 1 >= count

AllVisited(up, count) == up.stage = "IteratingStakes" /\ up.visited_count = count

\* Mutant: the delinquent balance is not handed on to the second stage.
ProgressionForgets(up, count, total) ==
  /\ AllVisited(up, count) => up.total_active_balance = total
  /\ delinquent_upgrader' = IF AllVisited(up, count)
                            THEN [UpgradeDone EXCEPT !.stage = "IteratingValidators"]
                            ELSE up

Progression(up, count, total) ==
  /\ AllVisited(up, count) => up.total_active_balance = total
  /\ delinquent_upgrader' =
       IF AllVisited(up, count)
       THEN [UpgradeDone EXCEPT !.stage = "IteratingValidators",
                                !.delinquent_balance_left = up.total_delinquent_balance]
       ELSE up

-----------------------------------------------------------------------------
\* Mutant: rewards found during the upgrade are not counted in it.
UpgradeGrowthWithoutRewards(s, rewards) ==
  IF Is(s, "Unknown") THEN Recorded(s) ELSE 0

\* What delinquent_upgrade and delinquent_upgrade_on_rewards add.
UpgradeGrowth(s, rewards) ==
  IF delinquent_upgrader.stage = "IteratingStakes"
  THEN rewards + IF Is(s, "Unknown") THEN Recorded(s) ELSE 0
  ELSE 0

(* update_active: account the rewards of a stake account.                  *)
UpdateActive(s) ==
  /\ ~paused
  /\ delinquent_upgrader.stage # "IteratingValidators"
  /\ Begin(s)
  /\ account[s].activation \in {"activating", "active"}
  /\ ~Is(s, "Deactivating")
  /\ Is(s, "Unknown") => delinquent_upgrader.stage = "IteratingStakes"
  /\ LET v         == Voter(s)
         delegated == account[s].delegated
         extra     == account[s].extra
         rewards   == Monus(delegated, Recorded(s))
         slashed   == Monus(Recorded(s), delegated)
         extra_fee == MintProtocolFees(extra, SyncedVirtual(extra), msol_mint_supply)
         fee       == MintProtocolFees(rewards, SyncedVirtual(extra),
                                       msol_mint_supply + extra_fee)
         grown     == UpgradeGrowth(s, rewards)
         \* delinquent_upgrade_on_slash
         lost      == IF delinquent_upgrader.stage = "IteratingStakes" THEN slashed ELSE 0
         up        == [delinquent_upgrader EXCEPT
                         !.visited_count = @ + IF Is(s, "Unknown") THEN 1 ELSE 0,
                         !.total_active_balance = @ + grown - lost]
     IN /\ Is(s, "Unknown") =>
             /\ delinquent_upgrader.total_active_balance + Recorded(s) <= total_active_balance
             /\ validator[v].delinquent_upgrader_active_balance + Recorded(s)
                  <= validator[v].active_balance
        /\ lost <= delinquent_upgrader.total_active_balance + grown
        /\ lost <= validator[v].delinquent_upgrader_active_balance + grown
        /\ MovableFrom(v, slashed)
        /\ reserve_pda' = reserve_pda + extra
        /\ available_reserve_balance' = Synced + extra
        /\ reserve_pda' = available_reserve_balance' + RentExempt   \* the assert_eq!
        /\ msol_mint_supply' = msol_mint_supply + extra_fee + fee
        /\ msol_supply' = msol_mint_supply'
        /\ account' = [account EXCEPT ![s].extra = 0]
        /\ validator' = [validator EXCEPT
             ![v].active_balance = @ + rewards - slashed,
             ![v].delinquent_upgrader_active_balance = @ + grown - lost]
        /\ total_active_balance' = total_active_balance + rewards - slashed
        /\ stake' = [stake EXCEPT
             ![s].last_update_delegated_lamports = delegated,
             ![s].last_update_status = "Active"]
        /\ Progression(up, Cardinality(Listed), total_active_balance')
  /\ UNCHANGED <<clockVars, coolingVars, deltaVars, moveVars, ticketVars,
                 adminVars, poolVars>>

\* Mutant: the upgrade is not asked what the cooling total still holds.
ReleasedAll(s, cooling) == Recorded(s)

\* What a collected account takes out of its cooling total.  The upgrade finds
\* totals that miss it: the rest is delinquent, and leaves the active total.
Released(s, cooling) ==
  IF delinquent_upgrader.stage = "IteratingStakes"
  THEN Lesser(cooling, Recorded(s))
  ELSE Recorded(s)

(* update_deactivated: collect a stake account that has cooled down.  The  *)
(* withdrawal of all its lamports fails while it is still cooling down.    *)
(* Its rent goes through the reserve to operational_sol_account.           *)
UpdateDeactivated(s) ==
  /\ ~paused
  /\ Begin(s)
  /\ account[s].activation = "inactive"
  /\ Is(s, "Active") => ~stake[s].is_emergency_unstaking
  /\ LET v         == Voter(s)
         balance   == account[s].delegated + account[s].extra
         rewards   == Monus(balance, Recorded(s))
         fee       == MintProtocolFees(rewards, SyncedVirtual(0), msol_mint_supply)
         \* an external deactivation is detected, and booked as an emergency
         detected  == IF Is(s, "Active") THEN Recorded(s) ELSE 0
         emergency == stake[s].is_emergency_unstaking \/ Is(s, "Active")
         cooling   == IF emergency THEN emergency_cooling_down + detected
                                   ELSE delayed_unstake_cooling_down
         released  == Released(s, cooling)
         delinquent == Recorded(s) - released
     IN /\ MovableFrom(v, detected)
        /\ detected + delinquent <= total_active_balance
        /\ released <= cooling
        /\ reserve_pda' = reserve_pda + balance
        /\ available_reserve_balance' = Synced + balance
        /\ msol_mint_supply' = msol_mint_supply + fee
        /\ msol_supply' = msol_mint_supply'
        /\ validator' = [validator EXCEPT ![v].active_balance = @ - detected]
        /\ total_active_balance' = total_active_balance - detected - delinquent
        /\ IF emergency
           THEN /\ emergency_cooling_down' = cooling - released
                /\ UNCHANGED delayed_unstake_cooling_down
           ELSE /\ delayed_unstake_cooling_down' = cooling - released
                /\ UNCHANGED emergency_cooling_down
        /\ account' = [account EXCEPT ![s] = NoAccount]
        /\ stake' = [stake EXCEPT ![s] = NoRecord]
        /\ Progression([delinquent_upgrader EXCEPT !.total_delinquent_balance = @ + delinquent],
                       Cardinality(Listed) - 1, total_active_balance')
  /\ UNCHANGED <<clockVars, deltaVars, moveVars, ticketVars, adminVars, poolVars>>

(* finalize_delinquent_upgrade over a batch of the validators not visited  *)
(* yet.  The list order is not modelled: any batch.                        *)
FinalizeDelinquentUpgrade(batch) ==
  LET up     == delinquent_upgrader
      excess == [v \in batch |-> validator[v].active_balance
                                   - validator[v].delinquent_upgrader_active_balance]
  IN /\ ~paused
     /\ up.stage = "IteratingValidators"
     /\ batch \subseteq ListedValidators \ up.visited
     /\ \A v \in batch : excess[v] >= 0
     /\ Sum(excess) <= up.delinquent_balance_left
     /\ validator' = [v \in Validator |->
          IF v \in batch
          THEN [validator[v] EXCEPT
                  !.active_balance = validator[v].delinquent_upgrader_active_balance,
                  !.delinquent_upgrader_active_balance = 0]
          ELSE validator[v]]
     /\ LET left == up.delinquent_balance_left - Sum(excess)
        IN IF up.visited \cup batch = ListedValidators
           THEN left = 0 /\ delinquent_upgrader' = UpgradeDone
           ELSE delinquent_upgrader' = [up EXCEPT !.visited = @ \cup batch,
                                                  !.delinquent_balance_left = left]
     /\ UNCHANGED <<clockVars, reserveVars, msolVars, stakeVars,
                    total_active_balance, coolingVars, deltaVars, moveVars,
                    ticketVars, adminVars, staking_sol_cap, poolVars>>

-----------------------------------------------------------------------------
(* stake_reserve: put the lamports of the reserve that nothing waits for   *)
(* to work with a validator below its target.                              *)

\* What stake_reserve would stake with v: what v lacks, the whole delta when
\* less than min_stake would be left of it.
ReserveStakeTargetUnshared(v) == StakeDelta     \* mutant

ReserveStakeTarget(v) ==
  LET target   == ValidatorStakeTarget(v, total_active_balance + StakeDelta)
      shortage == Lesser(Monus(target, validator[v].active_balance), StakeDelta)
  IN IF StakeDelta - shortage < config.min_stake THEN StakeDelta ELSE shortage

UnderStaked(v) ==
  validator[v].active_balance
    < ValidatorStakeTarget(v, total_active_balance + StakeDelta)

\* The checks up to the window.
CanStakeReserve(v) ==
  /\ ~paused
  /\ IsDone
  /\ StakeDelta > 0
  /\ validator[v].listed
  /\ phase = "window"

\* A second stake with the same validator in an epoch takes an extra run.
TakesExtraRun(v) == validator[v].last_stake_delta_epoch = epoch

StakeReserve(v, s) ==
  /\ CanStakeReserve(v)
  /\ UnderStaked(v)
  /\ ReserveStakeTarget(v) >= config.min_stake
  /\ s \in Keypair
  /\ RoomFor(1)
  /\ LET amount == ReserveStakeTarget(v)
     IN /\ OnTransferFromReserve(amount)
        /\ account' = [account EXCEPT ![s] =
             [activation |-> "activating", voter |-> v, delegated |-> amount, extra |-> 0]]
        /\ stake' = [stake EXCEPT ![s] = NewStakeRecord(amount, FALSE, TRUE)]
        /\ validator' = [validator EXCEPT ![v].active_balance = @ + amount,
                                          ![v].last_stake_delta_epoch = epoch]
        /\ total_active_balance' = total_active_balance + amount
  /\ last_stake_delta_epoch' = epoch
  /\ IF TakesExtraRun(v)
     THEN extra_stake_delta_runs > 0 /\ extra_stake_delta_runs' = extra_stake_delta_runs - 1
     ELSE UNCHANGED extra_stake_delta_runs
  /\ UNCHANGED <<clockVars, msolVars, coolingVars, moveVars, ticketVars, adminVars,
                 staking_sol_cap, delinquent_upgrader, poolVars>>

(* The early returns after the extra run was taken: nothing is staked, and *)
(* the run is gone.                                                        *)
SpendExtraRun(v) ==
  /\ CanStakeReserve(v)
  /\ TakesExtraRun(v)
  /\ extra_stake_delta_runs > 0
  /\ ~UnderStaked(v) \/ ReserveStakeTarget(v) < config.min_stake
  /\ extra_stake_delta_runs' = extra_stake_delta_runs - 1
  /\ UNCHANGED <<clockVars, reserveVars, msolVars, stakeVars, validatorVars,
                 last_stake_delta_epoch, coolingVars, moveVars, ticketVars,
                 adminVars, staking_sol_cap, delinquent_upgrader, poolVars>>

-----------------------------------------------------------------------------
(* Taking stake away from a validator: parts shared by deactivate_stake,   *)
(* partial_unstake and emergency_unstake.                                  *)

\* check_stake_amount_and_validator, for a record that may be unstaked
Unstakable(s) ==
  /\ Is(s, "Active")
  /\ ~stake[s].is_emergency_unstaking
  /\ Voter(s) \in Validator
  /\ validator[Voter(s)].listed
  /\ account[s].delegated = Recorded(s)

\* Mutant: the reason is not recorded.
DeactivateWholeForgets(s, is_emergency) ==
  /\ CanDeactivate(s)
  /\ account' = [account EXCEPT ![s].activation = DeactivatedFrom(@)]
  /\ stake' = [stake EXCEPT ![s].last_update_status = "Deactivating",
                            ![s].is_emergency_unstaking = ~is_emergency]

\* The whole account s is deactivated.
DeactivateWhole(s, is_emergency) ==
  /\ CanDeactivate(s)
  /\ account' = [account EXCEPT ![s].activation = DeactivatedFrom(@)]
  /\ stake' = [stake EXCEPT ![s].last_update_status = "Deactivating",
                            ![s].is_emergency_unstaking = is_emergency]

\* amount lamports of account s are split off into account new, which is deactivated.
DeactivateSplit(s, new, amount, is_emergency) ==
  /\ CanDeactivate(s)
  /\ new \in Keypair
  /\ RoomFor(1)
  /\ account' = [account EXCEPT
       ![s].delegated = @ - amount,
       ![new] = [activation |-> DeactivatedFrom(account[s].activation),
                 voter |-> Voter(s), delegated |-> amount, extra |-> 0]]
  /\ stake' = [stake EXCEPT
       ![s].last_update_delegated_lamports = @ - amount,
       ![new] = NewStakeRecord(amount, is_emergency, FALSE)]

-----------------------------------------------------------------------------
(* deactivate_stake: start cooling down stake for the tickets the reserve  *)
(* and the stake already cooling down do not cover.                        *)

\* Mutant: the validator's target is forgotten.
UnstakeFromValidatorAll(v, total_unstake_delta) == validator[v].active_balance

UnstakeFromValidator(v, total_unstake_delta) ==
  Monus(validator[v].active_balance,
        ValidatorStakeTarget(v, Monus(total_active_balance, total_unstake_delta)))

NeverTooSmall(target) == FALSE     \* mutant

\* An account that would keep this little is deactivated whole.
TooSmallToKeep(target) == target < 2 * config.min_stake

\* amount lamports of validator v begin to cool down for the tickets.
CoolDownForTickets(v, amount, whole) ==
  /\ MovableFrom(v, amount)
  /\ validator' = [validator EXCEPT
       ![v].active_balance = @ - amount,
       ![v].last_stake_delta_epoch = IF whole THEN @ ELSE epoch]
  /\ total_active_balance' = total_active_balance - amount
  /\ delayed_unstake_cooling_down' = delayed_unstake_cooling_down + amount
  /\ last_stake_delta_epoch' = epoch

DeactivateStake(s, new) ==
  /\ ~paused
  /\ s \in Listed
  /\ IsDone
  /\ Unstakable(s)
  /\ phase = "window"
  /\ StakeDelta < 0
  /\ LET v      == Voter(s)
         over   == UnstakeFromValidator(v, -StakeDelta)
         target == Monus(Recorded(s), Lesser(over, -StakeDelta))
         whole  == TooSmallToKeep(target)
         amount == IF whole THEN Recorded(s) ELSE Recorded(s) - target
     IN /\ over > 0
        /\ IF whole
           THEN DeactivateWhole(s, FALSE)
           ELSE /\ validator[v].last_stake_delta_epoch # epoch
                /\ DeactivateSplit(s, new, amount, FALSE)
        /\ CoolDownForTickets(v, amount, whole)
  /\ UNCHANGED <<clockVars, reserveVars, msolVars, extra_stake_delta_runs,
                 emergency_cooling_down, moveVars, ticketVars, adminVars,
                 staking_sol_cap, delinquent_upgrader, poolVars>>

-----------------------------------------------------------------------------
(* merge_stakes and create_canonical_stake: fewer, larger accounts.        *)

\* A native account whose delegation is what the list says and that is not
\* cooling down; Tidy when no lamports wait in it for an update.
Updated(s) == CanDeactivate(s) /\ account[s].delegated = Recorded(s)

Tidy(s) == Updated(s) /\ account[s].extra = 0

NothingDelegated(canonical, source, merged) == 0     \* mutant

ExtraDelegated(canonical, source, merged) ==
  merged - Recorded(canonical) - Recorded(source)

(* The source is merged into the canonical account of its validator.  Two  *)
(* activating accounts merge with the source's rent as additional stake;   *)
(* two active ones leave the rent, which goes to operational_sol_account.  *)
MergeStakes(v, source) ==
  LET canonical == CanonicalStake[v]
      merged == account[canonical].delegated + account[source].delegated
                  + IF account[source].activation = "activating" THEN StakeRent ELSE 0
      extra_delegated == ExtraDelegated(canonical, source, merged)
  IN /\ ~paused
     /\ IsDone
     /\ validator[v].listed
     /\ {canonical, source} \subseteq Listed /\ source # canonical
     /\ Is(canonical, "Active") /\ Is(source, "Active")
     /\ Voter(canonical) = v /\ Voter(source) = v
     /\ Updated(canonical) /\ Tidy(source)
     /\ account[canonical].activation = account[source].activation
     /\ account' = [account EXCEPT ![canonical].delegated = merged, ![source] = NoAccount]
     /\ stake' = [stake EXCEPT ![canonical].last_update_delegated_lamports = merged,
                               ![source] = NoRecord]
     /\ validator' = [validator EXCEPT ![v].active_balance = @ + extra_delegated]
     /\ total_active_balance' = total_active_balance + extra_delegated
     /\ UNCHANGED <<clockVars, reserveVars, msolVars, coolingVars, deltaVars, moveVars,
                    ticketVars, adminVars, staking_sol_cap, delinquent_upgrader, poolVars>>

(* The source is split whole into the canonical account of its validator,  *)
(* which must not exist.  The new record is pushed before the old one goes.*)
CreateCanonicalStake(v, source) ==
  /\ ~paused
  /\ IsDone
  /\ validator[v].listed
  /\ CanonicalStake[v] \in FreshStake
  /\ source \in Listed
  /\ Voter(source) = v
  /\ Tidy(source)
  /\ RoomFor(1)
  /\ account' = [account EXCEPT ![CanonicalStake[v]] = account[source],
                                ![source] = NoAccount]
  /\ stake' = [stake EXCEPT
       ![CanonicalStake[v]] = NewStakeRecord(account[source].delegated, FALSE, TRUE),
       ![source] = NoRecord]
  /\ UNCHANGED <<clockVars, reserveVars, msolVars, validatorVars, coolingVars, deltaVars,
                 moveVars, ticketVars, adminVars, staking_sol_cap,
                 delinquent_upgrader, poolVars>>
=============================================================================
