------------------------- MODULE MarinadeProperties -------------------------
(***************************************************************************)
(* What must be true of the program, over all its instructions.            *)
(***************************************************************************)
EXTENDS Marinade

-----------------------------------------------------------------------------
(* Invariants.                                                             *)

(* Every field of State, of the lists and of the native accounts has its   *)
(* type; in particular no unsigned balance is ever negative.               *)
TypeOK ==
  /\ epoch \in Nat /\ phase \in Phase
  /\ account \in [Stake -> Account]
  /\ reserve_pda \in Nat /\ available_reserve_balance \in Nat
  /\ msol_mint_supply \in Nat /\ msol_supply \in Nat
  /\ stake \in [Stake -> StakeRecord]
  /\ validator \in [Validator -> ValidatorRecord]
  /\ total_validator_score \in Nat /\ total_active_balance \in Nat
  /\ delayed_unstake_cooling_down \in Nat /\ emergency_cooling_down \in Nat
  /\ last_stake_delta_epoch \in Nat \cup {Never} /\ extra_stake_delta_runs \in Nat
  /\ last_stake_move_epoch \in Nat /\ stake_moved \in Nat
  /\ ticket \in [Ticket -> TicketRecord]
  /\ circulating_ticket_balance \in Nat /\ circulating_ticket_count \in Nat
  /\ staking_sol_cap \in Nat /\ paused \in BOOLEAN
  /\ config \in Config
  /\ delinquent_upgrader \in Upgrader
  /\ sol_leg \in Nat /\ msol_leg \in Nat
  /\ lp_mint_supply \in Nat /\ lp_supply \in Nat

(* The reserve holds its rent and every lamport the books say is available *)
(* in it: the check begin of update.rs calls impossible to fail.           *)
ReserveCovered == available_reserve_balance + RentExempt <= reserve_pda

(* No mSOL exists that the books do not know of (the other impossible      *)
(* check of begin, and of both deposits), and the pool's leg is part of it.*)
MintCovered == msol_leg <= msol_mint_supply /\ msol_mint_supply <= msol_supply

(* The ticket totals are the sums over the outstanding tickets ("If        *)
(* circulating_ticket_balance = sum(ticket.balance) is violated we can     *)
(* have a problem", claim.rs).                                             *)
OpenTickets == {t \in Ticket : ticket[t].open}

TicketBooks ==
  /\ circulating_ticket_balance = Sum([t \in Ticket |-> ticket[t].lamports_amount])
  /\ circulating_ticket_count = Cardinality(OpenTickets)
  /\ \A t \in Ticket \ OpenTickets : ticket[t] = ClosedTicket

\* The lamports the list records for the accounts that satisfy a condition.
RecordedSum(S) == Sum([s \in Stake |-> IF s \in S THEN Recorded(s) ELSE 0])

ActiveStakes(v) == {s \in Stake : Is(s, "Active") /\ Voter(s) = v}

CoolingStakes(is_emergency) ==
  {s \in Stake : Is(s, "Deactivating") /\ stake[s].is_emergency_unstaking = is_emergency}

(* A validator's active_balance is the stake recorded as active with it,   *)
(* and total_active_balance is the sum over the validators: no interleaving*)
(* of updates, splits, merges and external deactivations lets them drift.  *)
ValidatorBooks ==
  /\ \A v \in Validator : validator[v].active_balance = RecordedSum(ActiveStakes(v))
  /\ total_active_balance = Sum([v \in Validator |-> validator[v].active_balance])

(* The two cooling-down totals are the sums over the accounts cooling down *)
(* for their reason, so that update_deactivated can always take an account *)
(* out of the total it was put into.                                       *)
CoolingBooks ==
  /\ delayed_unstake_cooling_down = RecordedSum(CoolingStakes(FALSE))
  /\ emergency_cooling_down = RecordedSum(CoolingStakes(TRUE))

(* total_validator_score is the sum of the scores in the list.             *)
ScoreBooks ==
  /\ total_validator_score = Sum([v \in Validator |-> validator[v].score])
  /\ \A v \in Validator : ~validator[v].listed => validator[v] = Unlisted

(* The list and the stake program agree: an account is in the list exactly *)
(* when it exists, one recorded as deactivating really is, and one that is *)
(* recorded as active is counted with a validator that is in the list.     *)
ListMatchesAccounts ==
  \A s \in Stake :
    /\ s \in Listed <=> account[s].activation # "none"
    /\ Is(s, "Deactivating") => account[s].activation \in {"deactivating", "inactive"}
    /\ Is(s, "Active") => /\ validator[Voter(s)].listed
                          /\ ~stake[s].is_emergency_unstaking

(* The lamports the price of mSOL is computed from really are in the       *)
(* reserve and in the stake accounts, whatever has happened since the last *)
(* update of each account (as long as the stake program does not slash).   *)
Lamports(s) == account[s].delegated + account[s].extra

AssetsAreReal ==
  TotalLamportsUnderControl
    <= reserve_pda - RentExempt + Sum([s \in Stake |-> Lamports(s)])

(* The outstanding tickets never claim more than the program controls, so  *)
(* the saturating_sub of total_virtual_staked_lamports never saturates.    *)
Solvent == circulating_ticket_balance <= TotalLamportsUnderControl

(* No instruction leaves an active stake below min_stake, though each of   *)
(* them guards its remainders in its own way.                              *)
ActiveStakeIsLarge ==
  \A s \in Stake : Is(s, "Active") => Recorded(s) >= config.min_stake

(* A stake account that has cooled down can be collected at once: no       *)
(* checked subtraction, and no missing validator record, stands in the way.*)
Collectable(s) == account[s].activation = "inactive" /\ ~paused

CooledDownIsCollectable ==
  \A s \in Stake : Collectable(s) => ENABLED UpdateDeactivated(s)

(* The stake moved to emergency cooling in this epoch is in stake_moved, so *)
(* that max_stake_moved_per_epoch limits all moves of an epoch together.   *)
(* (An account deactivated earlier has cooled down: for SlowStake = {}.)   *)
MovedThisEpoch == {s \in CoolingStakes(TRUE) : account[s].activation = "deactivating"}

MoveBudget ==
  RecordedSum(MovedThisEpoch) <= IF last_stake_move_epoch = epoch THEN stake_moved ELSE 0

(* The SOL leg keeps its rent, and no LP token exists that the pool does   *)
(* not know of, whatever holders burn and whoever sends lamports.          *)
PoolCovered == sol_leg >= RentExempt /\ lp_mint_supply <= lp_supply

-----------------------------------------------------------------------------
(* What a step may never do.                                               *)

(* The price of mSOL never falls: V'/S' >= V/S, cross-multiplied.  It is   *)
(* what deposits, orders, fees, rewards and collections must all round for.*)
PriceHolds(dust) ==
  msol_supply > 0 /\ msol_supply' > 0 =>
    TotalVirtualStakedLamports' * msol_supply + dust
      >= TotalVirtualStakedLamports * msol_supply'

PriceNeverFalls == [][PriceHolds(0)]_vars

(* With withdraw_stake_account, which burns the floor of the value that    *)
(* leaves, a step costs the other holders less than the price of one unit  *)
(* of mSOL in total.                                                       *)
PriceFallsByDustAtMost == [][PriceHolds(TotalVirtualStakedLamports)]_vars

(* To the holders of mSOL and of tickets the program is a vault: whatever  *)
(* stake is moved, cooled down, merged and collected in between, mSOL is   *)
(* issued and taken back at its value, and each ticket is paid what it was *)
(* ordered for, once (as long as the stake program does not slash).        *)
V == INSTANCE Vault WITH
  assets <- TotalLamportsUnderControl,
  supply <- msol_supply,
  owed   <- [t \in Ticket |-> ticket[t].lamports_amount]

ImplementsVault == V!Spec

(* The lamports the outstanding tickets can count on: what the reserve     *)
(* holds and what cools down for them, less what they claim.               *)
TicketBacking ==
  reserve_pda - RentExempt + delayed_unstake_cooling_down - circulating_ticket_balance

(* An instruction that stakes lamports of the reserve leaves the tickets   *)
(* covered by what remains in it and what cools down for them.             *)
StakesReserve == reserve_pda' < reserve_pda /\ total_active_balance' > total_active_balance

TicketsStayCovered == [][StakesReserve => TicketBacking' >= 0]_vars

(* An instruction that starts cooling down stake for the tickets does so   *)
(* when they need it, the emergency cooling counted too, and overshoots by *)
(* less than twice min_stake.                                              *)
CoolsForTickets == delayed_unstake_cooling_down' > delayed_unstake_cooling_down

UnstakesNoMoreThanNeeded ==
  [][CoolsForTickets =>
       /\ TicketBacking + emergency_cooling_down < 0
       /\ TicketBacking' + emergency_cooling_down' < 2 * config.min_stake]_vars

(* Stake moves towards the shares the scores give: staking lifts no        *)
(* validator min_stake or more above its share, and no unstaking takes one *)
(* further below it than the rounding to whole accounts explains.          *)
FairShare(v) ==
  ValidatorStakeTarget(v, Monus(total_active_balance + StakeDelta, 0))

Gains(v) == validator'[v].active_balance > validator[v].active_balance

Loses(v) == validator'[v].active_balance < validator[v].active_balance

MovesStake == emergency_cooling_down' > emergency_cooling_down

MovesRespectShares ==
  [][\A v \in Validator :
       LET after == validator'[v].active_balance
       IN /\ StakesReserve /\ Gains(v)   => after < FairShare(v) + config.min_stake
          /\ CoolsForTickets /\ Loses(v) => after + 2 * config.min_stake > FairShare(v)
          /\ MovesStake /\ Loses(v)      => after + config.min_stake > FairShare(v)]_vars

(* An LP token never loses value to an instruction, beyond the lamport the *)
(* value of the mSOL leg is rounded by ("mSOL-SOL-LP Price should increase *)
(* on each operation", Backend-Design.md).                                 *)
LpValue == sol_leg - RentExempt + MsolToSol(msol_leg)

LpHolds ==
  lp_mint_supply > 0 /\ lp_mint_supply' > 0 =>
    (LpValue' + 1) * lp_mint_supply >= LpValue * lp_mint_supply'

LpPriceHolds == [][LpHolds]_vars

(* A ticket ordered when the stake delta of epoch e has begun is not paid  *)
(* before epoch e + 2: it is the delta of e + 1 that counts it, and what   *)
(* that delta cools down is there one epoch later.  (A ticket not open at  *)
(* such a moment can only be ordered later; once open, it stays open.)     *)
DeltaBegun(e) == epoch = e /\ last_stake_delta_epoch = e

StaysOpen(t, e) == [](ticket[t].open => [](epoch <= e + 1 => ticket[t].open))

LateTicketsWait ==
  \A t \in Ticket, e \in 0..MaxEpoch :
    [](DeltaBegun(e) /\ ~ticket[t].open => StaysOpen(t, e))

-----------------------------------------------------------------------------
(* What docs and comments of the repository say, and the code does not do. *)

(* A ticket is paid in the second epoch after the one it was ordered in at *)
(* the earliest ("due at the start of epoch_started+2", Backend-Design.md).*)
Paid(t) == ticket[t].open /\ ~ticket'[t].open

TicketsWaitTwoEpochs ==
  [][\A t \in Ticket : Paid(t) => epoch >= ticket[t].created_epoch + 2]_vars
=============================================================================
