# A TLA+ model of the Marinade liquid-staking program

This directory models the on-chain program of
`src/liquid-staking-program-main/programs/marinade-finance`, checks small
instances of it with TLC and proves invariants of it with TLAPS. The program is
a set of transactions over shared accounts: each instruction is atomic (it
commits whole or changes nothing), and everything that is hard about it comes
from the order in which many parties send instructions, from accounts that
change behind the program's back, and from arithmetic that truncates. So an
action of the model is one successful instruction, the next-state relation is
the disjunction of all instructions and of what the cluster does, and the
invariants relate running totals to the records and accounts they stand for.

## 1. Inventory

Paths are relative to `programs/marinade-finance/src`.

| component | code | state it keeps | operations |
|---|---|---|---|
| price and books | `state/mod.rs`, `calc.rs`, `state/fee.rs`, `checks.rs` | `available_reserve_balance`, `msol_supply`, cap, move budget, parameters | share/value conversion, stake delta, registration of transfers and mints |
| stake list | `state/stake_system.rs`, `state/list.rs` | an account of slots and a count; a record per stake account; `delayed_unstake_cooling_down`, extra runs, last delta epoch | add, set, remove by index |
| validator list | `state/validator_system.rs`, `instructions/management/{add,remove,set}_…` | an account of slots and a count; a record per validator; the duplication flag accounts; `total_active_balance`, `total_validator_score` | add, remove, score, share of a validator |
| reallocation | `instructions/admin/realloc_{stake,validator}_list.rs` | the lengths of the two list accounts | grow, shrink down to the count |
| epoch updates | `instructions/crank/update.rs` | – | `update_active`, `update_deactivated` |
| stake delta | `instructions/crank/{stake_reserve,deactivate_stake}.rs` | – | stake surplus, cool stake down for tickets |
| merging | `instructions/crank/{merge_stakes,create_canonical_stake}.rs` | – | merge into, create the canonical account |
| upgrade | `state/delinquent_upgrader.rs`, `crank/finalize_delinquent_upgrade.rs` | stage, counters | first loop (inside the updates), second loop |
| manager's moves | `instructions/management/{emergency,partial}_unstake.rs` | `stake_moved` | move stake to emergency cooling |
| users | `instructions/user` | – | deposit SOL, deposit and withdraw stake accounts |
| tickets | `instructions/delayed_unstake` | ticket accounts, circulating totals | order, claim |
| liquidity pool | `state/liq_pool.rs`, `instructions/liq_pool` | the legs, `lp_supply` | add, remove, swap (`liquid_unstake`) |
| administration | `instructions/admin`, `lib.rs` | parameters, `paused` | initialize, configure, pause, resume |
| cluster (external) | – | clock, native stake accounts, mints | epochs, rewards, deactivation of delinquent stake, outside transfers and burns |

**Who calls what.** Users, the validator manager and the admin act at will. The
crank instructions (updates, stake delta, merging, the upgrade's second loop)
are permissionless: anybody may send them, in any order, any number of times, so
nothing in the model schedules them. All parts communicate through the `State`
account. The reserve, the mSOL mint and the native stake accounts are changed by
others, too; the books follow at the next update (`begin` in `update.rs`).

**What is hard.**

* *Stale books*: rewards, tips, donations, burns and outside deactivations happen
  between the instruction that wrote a record and the one that reads it.
* *Double accounting*: a lamport of stake is in a validator's active balance, in
  one of two cooling totals, in the reserve, and possibly claimed by a ticket. It
  changes place in a dozen instructions; total and list must agree after each.
* *Concurrency of the window*: several `stake_reserve`, `deactivate_stake` and
  `order_unstake` calls of one window compute from the same stake delta.
* *Rounding*: each conversion must round in favour of the other holders.
* *The upgrade*: two loops over lists that other instructions change meanwhile.
* *Indices*: callers name records by the index they found them at; a removal
  moves the last record into the slot of the removed one, so an index can be
  stale, and a handler that removes must do it last.
* *Two views of the reserve*: the stake delta and `claim` ask how much the
  account holds, transfers are booked against `available_reserve_balance`, and
  the two differ after every transfer from outside until the next update.
* *Progress*: a ticket waits for a deactivation in one of the windows, for stake
  to cool down, for a collection, and competes with `stake_reserve`, other
  tickets and a list that may be full.
* *Checked subtraction*: the build has overflow checks, so a balance that is too
  small does not wrap but makes an instruction impossible, perhaps for good.

The correctness properties of each component are the hazards of `PROJECT.json`,
each at its line, with the properties that cover it.

## 2. Modules

| module | what it is |
|---|---|
| `LamportSums` | the sum of a natural-valued function over a finite set, by counting |
| `Calc` | `calc.rs`, `fee.rs`, saturating subtraction |
| `MarinadeState` | constants, variables, record types, the functions of `State` |
| `Cluster` | the environment (external) |
| `Crank` | updates, stake delta, merging, finalizing the upgrade |
| `Management` | lists, scores and moves of the manager |
| `Users` | deposits, stake accounts, tickets |
| `LiqPool` | the liquidity pool |
| `Marinade` | `initialize`, the admin, `Next` over all instructions, `Spec` |
| `MarinadeProperties` | invariants, action properties, the mapping to `Vault` |
| `Vault` | abstract: what the program promises to holders of mSOL and of tickets |
| `Lists` | the two lists as arrays of slots: indices, swap-removal, capacity, reallocation |
| `Records` | abstract: the lists as records found by key, as `MarinadeState` has them |
| `Upgrade` | the states an upgrade of a program that holds stake starts from, and what its two loops must keep |
| `MCMarinade`, `MCUpgrade`, `MCLive`, `MCLists` | instances for TLC; `MCLive` has time without end and the fairness |
| `LamportSumsProofs` | lemmas about sums: one or two entries change, sums grow, are renumbered, are extended by zeros, are added, are split by a key |
| `MarinadeProofs` | lemmas about the arithmetic, type correctness of the whole program; reserve, mint, pool and ticket invariants; the action properties of the stake delta |
| `ChangesProofs` | the eight ways in which instructions change the lists; the score books |
| `BooksProofs` | the running totals, the list against the accounts, the move budget |
| `VaultProofs` | what follows from the promise of `Vault` |
| `RefinementProofs` | the program implements `Vault`; solvency of the program, the price of mSOL and of LP tokens |
| `UpgradeProofs` | the upgrade: its counters through both loops, and that it ends in the books of `BooksProofs` |
| `ListsProofs` | the operators of `list.rs` by key; `Lists` implements `Records`; the upgrade's second stage |

The modules from `LamportSums` to `MarinadeProperties` extend one another in
that order, one family of instructions each. `Marinade` groups the actions by who
takes them (`ClusterStep`, `OutsideStep`, `CrankStep`, `UserStep`, `PoolStep`,
`ManagerStep`, `AdminStep`), and the instances are built from these groups.

**Two refinements.**

* *Program ⊑ Vault.* `MarinadeProperties` instantiates `Vault` with
  `assets <- TotalLamportsUnderControl`, `supply <- msol_supply` and
  `owed <- ` what each ticket claims. A vault step may take income (issuing
  shares for at most its value), turn shares into a debt of at most their value,
  pay a debt in full, or redeem shares. All else, i.e. staking, unstaking,
  moving, merging, collecting, swaps of the pool, is a stutter: no lamport under
  control appears or vanishes while it changes place. It holds as long as the
  stake program does not slash and the upgrade is over (its first stage corrects
  the totals it found wrong).
* *Lists ⊑ Records.* `Marinade` addresses records by key, and the code by index
  and key. `Lists` has the arrays, and every handler reduced to what it does to
  them and to the checks that decide on it, with *any* indices: a caller's may
  be stale, and a call may arrive twice. `Records` sees of them what a search by
  key finds: `Held` (the stake list), `Balances` (the validator list) and
  `Progress` (which *validators* the upgrade has visited, where the code keeps a
  number). That it implements `Records` says that a call that succeeds changes
  exactly the records it names, so that the abstraction by key in the other
  modules is sound.

TLC checks both on the instances, and section 4 proves both.

**How state corresponds.** The variables carry the names of the fields of
`State`, with the nesting flattened. `stake` and `validator` are functions from
addresses to records; a record of status `"None"` (or `listed = FALSE`) is not in
the list. `account` is the native stake account: its activation, its voter, the
delegation and the lamports above delegation and rent. `reserve_pda`, `sol_leg`,
`msol_leg`, `msol_mint_supply` and `lp_mint_supply` are the real balances next to
the virtual ones of the books. `phase` is where in the epoch the slot is, as far
as the program looks: before the 30 minutes of `claim.rs` are over, after, and in
the last `slots_for_stake_delta` slots.

**How actions correspond.** Guards are the handler's `require`s, early returns,
and every checked subtraction (`a - b` of the code is `b <= a` in the guard; see
`MovableFrom`, `OnTransferFromReserve`). A call that returns `Ok` after changing
nothing is a stutter; the one early return that does change something is
`SpendExtraRun`. Lists are addressed by index and key in the code and in `Lists`,
by key elsewhere. The account's rent is left out of stake balances, except where the stake
program turns it into stake (`MergeStakes`). Parameters of an instruction come
from small constant sets.

**Abstractions.** Addresses are model values; authorities, PDAs, account
ownership and events are left out. The users' and the treasury's wallets are one
balance of mSOL (`UserMsol`): an instruction that takes mSOL needs somebody to
hold it. Lamports are naturals: the sums stay below 2^60 in reality, and the
products are computed in u128. `config_marinade` and `config_lp` each install
any values of their own parameters within the limits of the code. The clock is
bounded by `MaxEpoch`, what users bring by `SolSupply`, and one tip, donation or
burn of LP tokens can be pending at a time; these bounds are in `Cluster` and
`LiqPool`, and named. Because of them the instances come to rest, so the runs do
not check deadlock, except `Live`, whose clock does not end, and `Lists`.

## 3. Runs

| run | question | instance |
|---|---|---|
| `Delta` | do the tickets' totals and cover, the shares and the vault's promise survive every interleaving of the stake-delta cycle? | 2 validators, 5 addresses, 2 tickets of 8, deposits of 20, `min_stake` 5, rewards of 10, 3 epochs |
| `Live` | is every ticket paid? | 1 validator, 2 tickets of 4, deposits of 8, `min_stake` 2, donations of 2 to the reserve, slow cooling, a list of two records, time without end |
| `Manage` | do totals, lists, shares and budget survive the manager's moves, scores, removals, and outside deactivation? | 2 validators, scores 0 and 1, move budget 70%, 2 epochs, a list of two records (so it can be full) |
| `Accounts` | do books, accounts and the vault's promise agree when stake accounts come, grow, merge and leave? | 1 validator, accounts of 12, withdrawals of 8, tips of 3, 2 epochs |
| `Pool` | the liquidity pool, the reserve and the mint under burns and transfers from outside, a changing price and changing fees | additions of 20, removals of 10, swaps and burns of 15, donations of 5 |
| `Admin` | parameters, pause and cap change, extra runs are spent, between any two instructions; does a ticket ordered late wait for its stake delta? | amounts around 1000, fees of 0.2%, rewards of 107, 3 epochs |
| `Upgrade` | the delinquent upgrade from every old list of two accounts, with a slash | 4 kinds × 2 validators × an old error of one account's size, a loss of 4 |
| `Lists` | do the arrays implement records by key, whatever indices callers give? | 2 validators, 3 addresses, capacities 2 and 3 (stakes) and 1 and 2 (validators) |

Addresses: `c1`, `c2` are canonical, `s1`–`s3` keypairs, interchangeable where
SYMMETRY is used (safety runs only). Fees vanish on the amounts of the staking
runs and matter in `Pool` and `Admin`. The runs take from a few seconds to about
two minutes and have between 27,000 (`Lists`) and 470,000 (`Manage`) distinct
states.

The bounds are chosen so that the interesting case happens: a deposit of 20 with
`min_stake` 5 is staked with two validators at shares of 10, a ticket of 8 then
needs a split of one account and a whole deactivation of another, a second
ticket meets stake already cooling down, and three epochs let the first ticket
be paid while the second waits. In `Live` two records fill the list, so a split
can be impossible while a ticket needs it. In `Lists` three records are what it
takes for a merge whose source comes before the canonical account to move a
third one, and the smaller capacity leaves room for one record less. Every
property has a mutant in `PROJECT.json`: a plausible bug in a mapped definition
that makes TLC find the property violated in the same instance, so the bounds
are large enough to see it.

What the runs show:

* *Vault.* `ImplementsVault` (`Delta`, `Accounts`, `Admin`): whatever comes in
  between, mSOL is issued and taken back at its value, a ticket is worth at most
  the shares given for it, is paid once and in full, and rounding favours the
  vault except for what `withdraw_stake_account` burns (see *Price*).
* *Books.* `ValidatorBooks`, `CoolingBooks`, `ScoreBooks`, `TicketBooks`,
  `ListMatchesAccounts` and `UpgradeBooks`: each running total equals the sum it
  stands for.
* *Backing.* `ReserveCovered`, `MintCovered`, `PoolCovered`, `AssetsAreReal`,
  `Solvent`: the checks the code calls "impossible" are; what the price is
  computed from exists; the saturating subtraction in it never saturates.
  `AssetsAreReal` holds while the stake program does not slash (a slash is
  known to the books at the next update only); `Upgrade`, which slashes, does not
  state it.
* *Price.* `PriceNeverFalls` (`Pool`) for all instructions but
  `withdraw_stake_account`, for which `PriceFallsByDustAtMost` (`Admin`) bounds
  the loss by the price of one unit of mSOL; `LpPriceHolds` for LP tokens, up to
  one lamport.
* *Stake delta.* `TicketsStayCovered`, `UnstakesNoMoreThanNeeded`,
  `MovesRespectShares`, `MoveBudget`, `ActiveStakeIsLarge`.
  `MoveBudget` says that the budget is not exceeded, not that it is whole again in
  the next epoch.
* *Tickets ordered late.* `LateTicketsWait` (`Admin`): once the stake delta of an
  epoch has begun, a ticket ordered in that epoch (or in the next) is not paid
  before the epoch after the next. The property looks at when the ticket opens and
  closes, not at the date on it, so that it is about `order_unstake`, the two
  instructions that begin a stake delta and `claim` together.
* *Lists.* `ImplementsRecords`; `KeysAreUnique`, without which an index and a key
  could name two records; `EveryValidatorVisitedOnce`, for the index ranges of
  `finalize_delinquent_upgrade` and the index comparison in
  `deposit_stake_account`. The initial states are those `initialize` makes and
  those at the start of the upgrade's second stage.
* *Progress.* `CooledDownIsCollectable`, `EveryAccountCanBeVisited`,
  `UpgradeCanFinish`: no checked subtraction or missing record stands in the way
  of the step that must come next. They say a step is possible, in every
  reachable state, and need no fairness.
* *Liveness.* `TicketsArePaid`, below.

**Tickets are paid.** `Live` has no last epoch. At an epoch boundary everything
dated moves one epoch into the past instead (`Aged`): the program asks of a date
only whether it is this epoch's, and of a ticket's whether it is one, or more,
epochs old. The fairness, and what justifies it:

| fairness | because |
|---|---|
| WF of `Tick`, `EpochPasses` | the cluster's clock |
| SF of `CoolsDown(s)` for slow accounts | the stake program lets only so much stake cool down per epoch, and no account waits for ever |
| SF of `UpdateActive` of *some* account | the cranks are permissionless, and the crank-turning bot of `Backend-Design.md` (lines 258-294) updates the accounts after each epoch |
| SF of `UpdateDeactivated(s)`, each account | the bot retrieves what has cooled down right after the epoch starts (lines 343-354), each account of the list; collecting one does not make up for another |
| SF of `DeactivateStake` of some account | possible in the window of an epoch only, hence strong; the bot calls it before the end of the epoch (lines 319-338) |
| SF of `Claim(t)` | the holder wants the lamports; a claim may be possible at some times only |

Nothing is assumed of deposits, orders or `stake_reserve`: users owe the program
nothing. The antecedent `[]<>RoomFor(1)` is needed: a split pushes a record, and
while others keep the list full, a ticket that needs a split waits (whole
accounts can still be cooled down). `UpdateActive` is needed because of transfers
from outside: `StakeDelta` and `claim` look at the lamports the reserve account
holds, so a donation ends the unstaking for a ticket, and `claim` passes its
check and then aborts in `on_transfer_from_reserve`, on the books. Without that
fairness TLC shows the ticket stuck for ever; one update of any account brings
the books up to date. `RemoveValidator` is not in this instance: with it stake
can be stranded (`Stranded`). Nor are rewards: with a clock that does not end
they would grow without bound.

**What the code does not keep.** Four runs show statements of docs and comments:

* `TicketWait`: the design document has tickets due two epochs after the order,
  the code one (and 30 minutes).
* `Stranded`: `remove_validator` accepts a validator whose stake is cooling down;
  that stake cannot be collected until the validator is listed again.
* `UpgradeSkips`, `UpgradeStops`: an account already visited by the upgrade is
  deactivated from outside and collected; the first loop then ends with an
  account never visited, or the second can never end. `Upgrade` shows the same
  upgrade correct when only accounts not yet visited are deactivated from outside:
  every step of its `VisitsSpec` is one of `UpgradeNext`, which section 4 proves
  it for.

## 4. Proofs

TLC's instances are small; these hold for every set of validators, stake
addresses and tickets, every amount, every capacity and parameter set. `Spec` of
`Marinade` starts where `initialize` ends and takes all instructions and the
environment, so the first table is about the program as it is deployed anew. The
second is about a program that held stake when it was upgraded (`UpgradeSpec` of
`Upgrade`).

| theorem | says | under |
|---|---|---|
| `TypeCorrect` | `[]TypeOK`: no balance ever is negative | – |
| `ReserveAlwaysCovered` | `[]ReserveCovered` | – |
| `MintAlwaysCovered` | `[]MintCovered` | – |
| `PoolAlwaysCovered` | `[]PoolCovered` | – |
| `TicketBooksHold` | `[]TicketBooks` | – |
| `LateTicketsAlwaysWait` | `LateTicketsWait`, for every epoch | – |
| `TicketsCovered` | `TicketsStayCovered`: staking leaves the tickets covered | – |
| `UnstakingIsNeeded` | `UnstakesNoMoreThanNeeded` | – |
| `SharesRespected` | `MovesRespectShares` | – |
| `ScoreBooksHold` | `[]ScoreBooks` | – |
| `BooksHold` | `[]Books`, the inductive invariant of the totals | – |
| `ValidatorBooksHold` | `[]ValidatorBooks` | – |
| `CoolingBooksHold` | `[]CoolingBooks` | – |
| `ListMatches` | `[]ListMatchesAccounts` | no slash |
| `AssetsStayReal` | `[]AssetsAreReal` | no slash |
| `ActiveStakeStaysLarge` | `[]ActiveStakeIsLarge` | no slash, `min_stake` not reconfigured |
| `MovesStayInBudget` | `[]MoveBudget` | no slow cooling |
| `StaysSolvent` | `[]Solvent` | no slash |
| `ProgramIsVault` | `ImplementsVault` | no slash, `[]SomeoneHolds` |
| `PriceFallsByDust` | `PriceFallsByDustAtMost` | no slash, `[]SomeoneHolds` |
| `UnburnedIsVault` | both of these | no slash, no burns |
| `OnlyWithdrawalsCost` | a step that is no `withdraw_stake_account` does not lower the price at all | no slash, `[]SomeoneHolds` |
| `PriceNeverFallsWhileOff` | `PriceNeverFalls` | the same, and `withdraw_stake_account` never enabled |
| `LpHoldsUnlessWithdrawn` | a step that is no `withdraw_stake_account` takes at most a lamport's rounding from the LP tokens | no slash, `[]SomeoneHolds` |
| `LpPriceHoldsWhileOff` | `LpPriceHolds` | the same, and `withdraw_stake_account` never enabled |

Of the program from the start of the delinquent upgrade, with any list of old accounts,
any amounts and any missing balances, and the same `Next`, except that no account the
upgrade has visited is deactivated from outside before it is over (`UpgradeNext`):

| theorem | says |
|---|---|
| `UpgradeBooksHold` | `UpgradeSpec => []UpgradeBooks`: the counters through both loops, and the books after them |
| `UnknownEndsWithFirstLoop` | `UpgradeSpec => []UnknownOnlyInFirstLoop` |
| `UpgradeEndsInBooks` | `UpgradeSpec => [](IsDone => Books)`, the inductive invariant of the first table |

Of the lists as arrays (`Spec` of `Lists`, which starts also at the upgrade's
second stage), for any sets of validators and accounts, any capacities, and any
indices given by the callers:

| theorem | says |
|---|---|
| `ListsStayKeyed` | `[]KeyedLists`, the inductive invariant of the two arrays |
| `KeysAreUniqueHolds` | `[]KeysAreUnique` |
| `ListsImplementRecords` | `ImplementsRecords` |
| `ValidatorsAreVisitedOnce` | `[]EveryValidatorVisitedOnce` |

And of the abstract vault, for every finite set of tickets: `VaultSolvent`
(`Spec => []Solvent`) and `VaultPriceHolds` (`Spec => PartFallsByDustAtMost`).

**The hypotheses.** The assumptions on constants are the named `ASSUME`s of the
modules: the sets are finite, the amounts naturals, canonical addresses distinct,
the parameters within `Config`. TLC evaluates each of them in a passing run. The
other hypotheses are in the statements of the theorems:

* *no slash* (`Slashes = {}`): Solana's stake program does not slash; the model can
  (`Upgrade` does), and the books learn of it only at the next update, so that
  until then records say more than accounts hold.
* *no slow cooling* (`SlowStake = {}`): an account deactivated in an earlier epoch
  has cooled down. Otherwise an account moved in one epoch may still count as
  deactivating in a later one, for which the budget starts anew.
* *`min_stake` not reconfigured*: an admin who raises it makes accounts small that
  were not.
* `[]SomeoneHolds` (while the books know of mSOL, some exists): it can fail. Holders
  may burn mSOL with the token program. If they burn *all* of it, the next update
  finds a supply of 0, and mints its fees one to one although there is value to
  share, which is no step of the vault. `MintCovered` says that the books never know
  less than exists; that somebody holds some is a fact about users. Without burns
  it always holds (`SomebodyHolds`), hence `UnburnedIsVault`. Of the runs that check the
  vault only `Admin` has burns, of one amount, and no fee follows a burn of all.
* *`withdraw_stake_account` never enabled*: `initialize` leaves the switch off; the
  theorems `OnlyWithdrawalsCost` and `LpHoldsUnlessWithdrawn` say what happens when it
  is on.

* *visited accounts are let alone* (`NoneStruckOnceVisited`, a conjunct of
  `UpgradeNext`): while the upgrade runs, nobody deactivates from outside an account
  it has visited. Without it the theorems are false, as the runs `UpgradeSkips` and
  `UpgradeStops` show; the code has no such guard and could not have one. Accounts not
  yet visited may be deactivated at any time, and slashes, rewards, deposits, cranks
  in any order, epochs and moves of the cluster are not restricted.

**Types and balances.** `TypeOK` is inductive by itself. It is not a formality: it
says that each subtraction is guarded by the code, directly (`MovableFrom`) or
through the arithmetic, so `MarinadeProofs` first shows that a fee is at most its
base, that a fraction of an amount is at most the amount, that all these are
naturals, and then takes the actions one by one; an action that touches several
families of variables has lemmas of its own for its effect on each.

`ReserveCovered`, `MintCovered`, `PoolCovered` are inductive over `TypeOK`. In
`MarinadeProofs`, `Quiet` names the variables the invariants are about; most
actions leave them alone (`QuietFrame`), each of the others is a step of one
lemma per invariant. For mSOL the crux is that fees are minted on top of the
*real* supply after `begin` synchronised the books, and that the swap of a
deposit takes no more from the leg than it holds. `TicketBooks` needs sums:
`LamportSums` defines them by counting points instead of by recursion, so that
`LamportSumsProofs` can derive their laws from the theorems on cardinalities. The
third conjunct of `TicketBooks` (an account that is not open is empty) is the
strengthening that makes it inductive.

`LateTicketsWait` is about three moments: a stake delta of epoch *e* has begun and
a ticket is not open; later it is; later still it must be. `LateOrUnordered` is
what stays true from the first on: the clock and the last stake delta are such
that an order gives a date of *e* + 1 or later (`EpochStep`, `DeltaStep`,
`TicketStep` say what a step does to each of the three), and with such a date
`claim` refuses until *e* + 2.

**The stake delta.** `TicketsCovered`, `UnstakingIsNeeded` and `SharesRespected` are
about single steps in states that satisfy `TypeOK` and `ReserveCovered`. The first
half of each proof finds the instructions the step can be: those in which the
reserve shrinks while active stake grows, in which the cooling total for
tickets grows, in which a validator's stake falls. That is why they cover
instructions nobody had in mind when the property was written: an update that
collects rewards, say, raises active stake, but not at the reserve's expense.
The second half is the arithmetic of the instruction, with its three ways to
round to whole accounts (`deactivate_stake` cools down all of an account when
less than `min_stake` would be left, for example, hence twice `min_stake`).

**The books.** Some thirty actions change the stake list or the totals, and each
total is a sum over it. `ChangesProofs` says what they have in common. `Change` is
the disjunction of eight: every record rests, one is entered, recounted, starts
to cool down in whole or in part, is taken out, two are merged, one is renamed.
`StepsAreChanges` reduces every step of the program to one of them, and every
invariant of `BooksProofs` is then shown to survive eight changes instead of
thirty actions. `Books` is the inductive invariant:

* `TypeOK`, and `Upgraded` (the upgrade is over and no record of unknown status is
  left): without it `update_active` writes totals it does not know yet;
* `ScoreBooks`: a validator that is not listed has no record left;
* `Matched`: what list and stake program say of one account. It is what connects
  the *guards* of the handlers, which look at the stake account, with the status
  of the record that a total counts;
* `Accounting`: the four sums.

The other invariants are inductive over it: `NotSlashed` (no record says more than
its account holds) for `AssetsAreReal`; `Large(m)` for `ActiveStakeIsLarge`, with
`m` the least `min_stake` that can be configured; `VotersListed` for
`ListMatchesAccounts`, since `remove_validator` looks at the *total* of a validator,
and only `ValidatorBooks` and `Large(1)` make of a total of 0 that it has no
active account. `MoveBudget` itself is inductive over `Books`: a move adds to both
sides (`SumGrowth`), and a new epoch leaves nothing on the left, since what was
deactivated before has cooled down.

**The upgrade.** Before it, an account deactivated from outside was collected out of the
wrong total. So the totals it starts with are off: what `delayed_unstake_cooling_down`
misses, the active balances of some validators have too much. `UpgradeInv` is the
inductive invariant, one part per stage, each with `TypeOK` and `ScoreBooks`:

* `FirstLoop`, `FirstCounters`: a record is of unknown status, or active and visited;
  nothing else cools down, for the instructions that would cool stake down wait for
  the upgrade. `total_active_balance` and `delayed_unstake_cooling_down` *together* are
  the stake visited and the stake not visited that is not in emergency, although
  neither is right by itself; `emergency_cooling_down` is right. The counters are the
  number and the lamports of the accounts visited, in total and per validator, and
  the validators' balances exceed `total_active_balance` by `total_delinquent_balance`.
  When the last account is visited nothing is left to cool down, so the total is right,
  and all that is wrong is in the validators' balances.
* `SecondLoop`, `SecondCounters`: the validators visited have the balance counted for
  them, and all balances exceed the total by `delinquent_balance_left`, which
  therefore is the sum of the excess of the others (`SumsOfVisited`, `LeftIsExcess`)
  and is zero at the end.
* after it: `Upgraded`, `Matched` and `Accounting`, so `Books` of the first table, which
  every step keeps by `BooksProofs`.

Most instructions ask for `IsDone`, or wait for it through `UpdateActive`'s guard (`CrankStages`,
`UserStages`, `ManagerWaits`), and cannot be taken before it is done. The others have a
lemma each. Validators' balances are sums by validator, the total is a sum over all
accounts: `SumPartition` equates the two, in the initial states and at the end.

**Program ⊑ Vault.** Every step `Stays` (nothing the vault sees changes), `Earns`
(assets grow, and mSOL is issued for at most the income: `Fair`), or `Trades` (is
`Order`, `Pay` or `Redeem`). What `Stays` is a matter of sums: a lamport that leaves
one term of `TotalLamportsUnderControl` enters another. For the rest,
`Quotient`, `SharesWorth` and `ValueWorth` say which inequality a truncated quotient
satisfies, and `FeesAreFair` adds the two fees of an update, each at the price
after the first. `Solvent` is needed to know that the value is a difference that
did not saturate, and is proved along with it.

In `VaultProofs`, `Solvent` is inductive by itself, and each kind of step has a
lemma for what it does to assets, debts and value. The price needs products of
three unknowns, which the solver does not find by itself: `Cancel` and `Scale`
are the two facts about multiplication and order everything rests on, and
`ExchangePrice` and `IncomePrice` are the arithmetic of the two kinds of exchange.
`PriceKept` (all steps but `Redeem`) and `PriceStep` say what one step does to the
price; `VP`, the instance of `VaultProofs` with the program's state, carries them
over to the program.

**The pool.** The value of the LP tokens is the SOL leg and the *truncated* value of the
mSOL leg, so `WorthFits`, `WorthTogether`, `WorthMore` and `WorthLater` say how truncated
values add up, and how they grow with the shares and with the price. Every step
that leaves the legs alone can change only the price, which does not fall
(`LegKeepsValue`, from the theorem on mSOL). Each instruction of the pool has a lemma:
tokens are given for at most the value brought; what is taken leaves the rest of
either leg (`PartLeaves`), whose truncated value loses at most a lamport (`LeftIsWorth`);
a swap of a deposit pays what it takes (`DepositPays`), where the leg's value is that of
its two parts or a lamport more; and `liquid_unstake` pays for no more mSOL than
stays in the leg.

**Lists ⊑ Records.** `KeyedLists` is the inductive invariant: every slot holds a
record, the count is within the account, no two used slots have one key, the
keys are those of the accounts and flags that exist, and the visited count is
within the list. Under it an index and a key name the same record, and lemmas say
what `get`, `set`, `push`, `remove` and `reallocate` of `list.rs` do *by key*: `remove`
takes out exactly the record of the key, although it moves another. Each
handler is then a step of `Records`, in the order of the code, e.g. a merge that
writes to one slot and then removes another, whichever of the two is last. The
upgrade's second stage needs more, since the code adds up the excess over a range
of indices and `Records` over a set of validators: `SumReindex` and `SumExtend`
carry a sum over. `EveryValidatorVisitedOnce` is proved on the abstract side: `Visited`
is inductive over the steps of `Records` (`StepsKeepVisited`), and says of each
validator which of its two balances is its stake.

**Only model-checked.** Out of the provers' reach: everything with ENABLED
(`CooledDownIsCollectable`, `UpgradeCanFinish`, `EveryAccountCanBeVisited`), and
`TicketsArePaid`, which is liveness under fairness. Every other property of a passing
run is proved. The four runs that show a violation are counterexamples, not claims.

## 5. Not modelled

`change_authority` (it replaces keys; who may call what is decided by account
constraints before a handler runs), events, errors, PDA derivation and account
ownership, `msol_price` (a cached quotient "for FE"), `last_update_epoch` of a
record and other fields no handler reads, lockups of deposited accounts, partial
activation of stake over several epochs (`SlowStake` models slow
*de*activation), `lent_from_reserve` and `lent_from_sol_leg` (never written), the
header and byte layout of a list account. The cluster is modelled as far as the
handlers check for what it does: the stake program's own rules for merging
partly activated accounts and its rate limits are not.

The order of records and the capacity are in `Lists` only; the other modules have
a constant capacity and no order, which `ImplementsRecords` justifies.

## 6. Plan

Done: the whole instruction set and its runs; the lists as arrays; liveness of
tickets; two abstract specifications, both refinements checked and proved; all
safety properties of the runs proved but those with ENABLED. Worth adding:
reference definitions for the targets of the stake delta, i.e. repeated
`stake_reserve` calls against the shares they should reach in total.
