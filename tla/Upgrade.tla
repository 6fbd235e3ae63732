-------------------------------- MODULE Upgrade -------------------------------
(***************************************************************************)
(* The delinquent upgrade (state/delinquent_upgrader.rs): the program was  *)
(* upgraded while it held stake.  Before, an account deactivated from      *)
(* outside was collected out of delayed_unstake_cooling_down, so that      *)
(* total was too low and its validator's balance as much too high.  The    *)
(* upgrade visits every stake account, then every validator, and ends with *)
(* the validators' balances put right.                                     *)
(***************************************************************************)
EXTENDS MarinadeProperties

CONSTANTS
  OldStake,     \* the accounts of the list the upgrade finds
  OldAmounts,   \* lamports such an account can hold
  OldMissing    \* what the old program may have taken out of the wrong total,
                \* for each validator

ASSUME OldAssumption ==
  /\ OldStake \subseteq Stake
  /\ OldAmounts \subseteq Nat
  /\ OldMissing \subseteq [Validator -> Nat]

\* What an account of the old list can be: active, cooling down for tickets or
\* in emergency, or deactivated from outside and still counted as active.
Kind == {"active", "tickets", "emergency", "outside"}

OldActivation(kind) ==
  IF kind = "active" THEN {"active"} ELSE {"deactivating", "inactive"}

\* The lamports of the old accounts in S.
HeldBy(S, lamports) == Sum([s \in OldStake |-> IF s \in S THEN lamports[s] ELSE 0])

\* The balances of a list with the given kinds, voters and lamports, when the
\* old program misses so much of each validator's stake.
OldState(kind, voter, lamports, missing) ==
  LET Of(k)  == {s \in OldStake : kind[s] = k}
      At(v)  == {s \in Of("active") \cup Of("outside") : voter[s] = v}
      active == [v \in Validator |-> HeldBy(At(v), lamports) + missing[v]]
  IN /\ Sum(missing) <= HeldBy(Of("tickets"), lamports)
     /\ delayed_unstake_cooling_down = HeldBy(Of("tickets"), lamports) - Sum(missing)
     /\ emergency_cooling_down = HeldBy(Of("emergency"), lamports)
     /\ validator = [v \in Validator |->
                       [NewValidatorRecord(1) EXCEPT !.active_balance = active[v]]]
     /\ total_validator_score = Cardinality(Validator)
     /\ total_active_balance = Sum(active)
     /\ stake = [s \in Stake |->
          IF s \in OldStake
          THEN [last_update_delegated_lamports |-> lamports[s],
                is_emergency_unstaking |-> kind[s] = "emergency",
                last_update_status |-> "Unknown"]
          ELSE NoRecord]
     /\ \E a \in [OldStake -> Activation] :
          /\ \A s \in OldStake : a[s] \in OldActivation(kind[s])
          /\ account = [s \in Stake |->
               IF s \in OldStake
               THEN [activation |-> a[s], voter |-> voter[s],
                     delegated |-> lamports[s], extra |-> 0]
               ELSE NoAccount]
     /\ available_reserve_balance = Sum(missing)
     /\ reserve_pda = RentExempt + Sum(missing)
     /\ msol_supply = HeldBy(OldStake, lamports) + Sum(missing)
     /\ msol_mint_supply = msol_supply
     /\ delinquent_upgrader = [UpgradeDone EXCEPT !.stage = "IteratingStakes"]
     /\ epoch = FirstEpoch /\ phase = "early"
     /\ last_stake_delta_epoch = Never /\ extra_stake_delta_runs = 0
     /\ last_stake_move_epoch = 0 /\ stake_moved = 0
     /\ ticket = [t \in Ticket |-> ClosedTicket]
     /\ circulating_ticket_balance = 0 /\ circulating_ticket_count = 0
     /\ staking_sol_cap = InitialCap /\ paused = FALSE /\ config = InitialConfig
     /\ sol_leg = RentExempt /\ msol_leg = 0 /\ lp_mint_supply = 0 /\ lp_supply = 0

UpgradeInit ==
  \E kind \in [OldStake -> Kind], voter \in [OldStake -> Validator],
     lamports \in [OldStake -> OldAmounts], missing \in OldMissing :
    OldState(kind, voter, lamports, missing)

\* Until the upgrade is over, nobody deactivates from outside an account that
\* it has visited: the assumption the upgrade depends on.
NoneStruckOnceVisited ==
  ~IsDone => \A s \in Stake :
               Is(s, "Active") /\ CanDeactivate(s)
                 => account'[s].activation \in {"activating", "active"}

UpgradeNext == Next /\ NoneStruckOnceVisited

UpgradeSpec == UpgradeInit /\ [][UpgradeNext]_vars

-----------------------------------------------------------------------------
(* What the upgrade has counted so far is what it will end with: in the    *)
(* first stage the active accounts visited, in the second the balances of  *)
(* the validators visited and the excess of the others.                    *)
Counted(v) == RecordedSum(ActiveStakes(v))

Excess == [v \in ListedValidators \ delinquent_upgrader.visited |->
             validator[v].active_balance - Counted(v)]

FirstStage ==
  LET up == delinquent_upgrader
      visited == {s \in Stake : Is(s, "Active")}
  IN /\ up.visited_count = Cardinality(visited)
     /\ up.total_active_balance = RecordedSum(visited)
     /\ \A v \in Validator : validator[v].delinquent_upgrader_active_balance = Counted(v)

SecondStage ==
  LET up == delinquent_upgrader
  IN /\ \A v \in up.visited : validator[v].active_balance = Counted(v)
     /\ \A v \in ListedValidators \ up.visited :
          validator[v].delinquent_upgrader_active_balance = Counted(v)
     /\ up.delinquent_balance_left = Sum(Excess)

UpgradeBooks ==
  CASE delinquent_upgrader.stage = "IteratingStakes"     -> FirstStage
    [] delinquent_upgrader.stage = "IteratingValidators" -> SecondStage
    [] OTHER                                             -> ValidatorBooks /\ CoolingBooks

(* A record is of unknown status only until the first loop after the       *)
(* program upgrade is over; no instruction but update_active in that loop  *)
(* can give it one, so later it would be unknown for good ("this is done   *)
(* only on the first loop after program upgrade", update.rs).              *)
UnknownOnlyInFirstLoop ==
  (\E s \in Stake : Is(s, "Unknown")) => delinquent_upgrader.stage = "IteratingStakes"

(* While the validators are visited their balances stay such that the      *)
(* visit can be finished: what update_active's check protects ("It is      *)
(* violating the invariants if the delinquent upgrader is currently        *)
(* iterating validators", update.rs).                                      *)
UpgradeCanFinish ==
  delinquent_upgrader.stage = "IteratingValidators" =>
    ENABLED FinalizeDelinquentUpgrade(ListedValidators \ delinquent_upgrader.visited)

(* In the first loop, an account that is active or has cooled down can be  *)
(* visited: no invariant check of the upgrade ever refuses one.            *)
EveryAccountCanBeVisited ==
  delinquent_upgrader.stage = "IteratingStakes" =>
    \A s \in Listed :
      \/ account[s].activation = "deactivating"
      \/ ENABLED UpdateActive(s)
      \/ ENABLED UpdateDeactivated(s)
=============================================================================
