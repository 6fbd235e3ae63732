------------------------------- MODULE Lists --------------------------------
(***************************************************************************)
(* The accounts behind the stake list and the validator list               *)
(* (state/list.rs): an array of slots and the number of records in it.     *)
(* A record is removed by moving the last one into its slot; the slots     *)
(* past the count keep what was in them.  The caller of an instruction     *)
(* says at which indices the records are, and found them by reading the    *)
(* lists some time before: others may have called meanwhile, and the call  *)
(* may come twice.  So each handler below takes any indices at all.        *)
(*                                                                         *)
(* A handler is reduced to what it does to the lists, and to the checks    *)
(* that decide on it.  The rest of it is in Crank, Management, Users and   *)
(* Marinade, which address the records by key; that they may is what this  *)
(* module shows.  (set_validator_score writes back the record it reads,    *)
(* but for the score; it is left out here.)                                *)
(***************************************************************************)
EXTENDS LamportSums, Sequences

CONSTANTS
  Validator,        \* vote accounts
  Stake,            \* addresses of stake accounts
  CanonicalStake,   \* the canonical stake address of each validator
  None,             \* no account
  StakeCapacity,    \* the capacities the admin gives the stake list
  ValidatorCapacity,\* and the validator list
  Lamports,         \* bound: what each stake account can hold
  MayDelegate       \* bound: the validators an account can be delegated to

ASSUME ListsAssumption ==
  /\ IsFiniteSet(Validator) /\ IsFiniteSet(Stake)
  /\ None \notin Validator \cup Stake
  /\ IsFiniteSet(StakeCapacity) /\ StakeCapacity \subseteq Nat
  /\ IsFiniteSet(ValidatorCapacity) /\ ValidatorCapacity \subseteq Nat
  /\ Lamports \in [Stake -> SUBSET (Nat \ {0})]
  /\ MayDelegate \in [Stake -> SUBSET Validator]

VARIABLES
  stake_list,
  validator_list,
  voter,                 \* what each stake account of the program is delegated to
  duplication_flag,      \* validators whose duplication flag account exists
  delinquent_upgrader

vars == <<stake_list, validator_list, voter, duplication_flag, delinquent_upgrader>>

-----------------------------------------------------------------------------
(* list.rs: a list is an account of slots, numbered from 0, and a count.   *)

\* An index a caller can give: in the largest account, or just outside.
Index == UNION {0..capacity : capacity \in StakeCapacity \cup ValidatorCapacity}

Capacity(list) == Cardinality(DOMAIN list.slot)

Get(list, index) == list.slot[index]

InList(list, index) == index < list.count

Set(list, index, item) == [list EXCEPT !.slot[index] = item]

HasRoom(list) == list.count < Capacity(list)

Push(list, item) ==
  [slot |-> [list.slot EXCEPT ![list.count] = item], count |-> list.count + 1]

\* Mutant: the last record is cut off, whichever was to be removed.
CutOff(list, index) == [list EXCEPT !.count = @ - 1]

Remove(list, index) ==
  LET last == list.count - 1
  IN [slot |-> [list.slot EXCEPT ![index] = list.slot[last]], count |-> last]

GetChecked(list, index, key) == InList(list, index) /\ Get(list, index).key = key

-----------------------------------------------------------------------------
(* The records, as far as the lists' upkeep depends on them.               *)

StakeRecord(s, lamports, active) == [key |-> s, lamports |-> lamports, active |-> active]

ValidatorRecord(v) ==
  [key |-> v, active_balance |-> 0, delinquent_upgrader_active_balance |-> 0]

BlankStake == StakeRecord(None, 0, FALSE)

BlankValidator == ValidatorRecord(None)

StakeAt(i) == Get(stake_list, i)

ValidatorAt(j) == Get(validator_list, j)

Done == [done |-> TRUE, visited_count |-> 0, delinquent_balance_left |-> 0]

IsDone == delinquent_upgrader.done

\* Writes to index j the record read from it, with a balance changed.
AddBalance(j, lamports) ==
  /\ ValidatorAt(j).active_balance + lamports >= 0
  /\ validator_list' = Set(validator_list, j,
       [ValidatorAt(j) EXCEPT !.active_balance = @ + lamports])

\* An account that is not in the program's hands; a PDA cannot be brought in.
Keypair == Stake \ {CanonicalStake[v] : v \in Validator}

Fresh(s) == s \in Keypair /\ voter[s] = None

\* An active record, and its validator's.
ActiveAt(s, i, j) ==
  /\ GetChecked(stake_list, i, s)
  /\ StakeAt(i).active
  /\ GetChecked(validator_list, j, voter[s])

-----------------------------------------------------------------------------
(* deposit_stake_account, and stake_reserve, which asks for IsDone and does *)
(* the same to the lists.                                                  *)

\* Mutant: the index of the last validator visited is not past it.
VisitPendingAt(j) == ~IsDone /\ j > delinquent_upgrader.visited_count

\* finalize_delinquent_upgrade has not come to this index.
VisitPending(j) == ~IsDone /\ j >= delinquent_upgrader.visited_count

DepositStakeAccount(s, v, lamports, j) ==
  /\ Fresh(s) /\ v \in MayDelegate[s]
  /\ GetChecked(validator_list, j, v)
  /\ HasRoom(stake_list)
  /\ validator_list' = Set(validator_list, j,
       [ValidatorAt(j) EXCEPT
          !.active_balance = @ + lamports,
          !.delinquent_upgrader_active_balance = @ + IF VisitPending(j) THEN lamports ELSE 0])
  /\ stake_list' = Push(stake_list, StakeRecord(s, lamports, TRUE))
  /\ voter' = [voter EXCEPT ![s] = v]
  /\ UNCHANGED <<duplication_flag, delinquent_upgrader>>

(* update_active, and withdraw_stake_account, which does the same to the   *)
(* lists: an account grows or shrinks.                                     *)
UpdateActive(s, lamports, i, j) ==
  /\ IsDone
  /\ ActiveAt(s, i, j)
  /\ AddBalance(j, lamports - StakeAt(i).lamports)
  /\ stake_list' = Set(stake_list, i, StakeRecord(s, lamports, TRUE))
  /\ UNCHANGED <<voter, duplication_flag, delinquent_upgrader>>

(* deactivate_stake, partial_unstake and emergency_unstake of a whole      *)
(* account.                                                                *)
DeactivateStake(s, i, j) ==
  /\ IsDone
  /\ ActiveAt(s, i, j)
  /\ AddBalance(j, -StakeAt(i).lamports)
  /\ stake_list' = Set(stake_list, i, StakeRecord(s, StakeAt(i).lamports, FALSE))
  /\ UNCHANGED <<voter, duplication_flag, delinquent_upgrader>>

(* deactivate_stake and partial_unstake of a part.                         *)
DeactivateSplit(s, new, lamports, i, j) ==
  /\ IsDone
  /\ ActiveAt(s, i, j)
  /\ lamports < StakeAt(i).lamports
  /\ Fresh(new) /\ voter[s] \in MayDelegate[new]
  /\ HasRoom(stake_list)
  /\ AddBalance(j, -lamports)
  /\ stake_list' = Set(Push(stake_list, StakeRecord(new, lamports, FALSE)), i,
                       StakeRecord(s, StakeAt(i).lamports - lamports, TRUE))
  /\ voter' = [voter EXCEPT ![new] = voter[s]]
  /\ UNCHANGED <<duplication_flag, delinquent_upgrader>>

(* update_deactivated.  A record can still say active when the account was *)
(* deactivated from outside; none is while the upgrade visits validators   *)
(* (UpgradeCanFinish of MCUpgrade is about that).                          *)
UpdateDeactivated(s, i, j) ==
  /\ GetChecked(stake_list, i, s)
  /\ GetChecked(validator_list, j, voter[s])
  /\ IF StakeAt(i).active
     THEN IsDone /\ AddBalance(j, -StakeAt(i).lamports)
     ELSE UNCHANGED validator_list
  /\ stake_list' = Remove(stake_list, i)
  /\ voter' = [voter EXCEPT ![s] = None]
  /\ UNCHANGED <<duplication_flag, delinquent_upgrader>>

\* Mutant: the source's record goes before the canonical one is written.
MergedEarly(i, source, record) == Set(Remove(stake_list, source), i, record)

\* "Call this last because of index invalidation"
Merged(i, source, record) == Remove(Set(stake_list, i, record), source)

(* merge_stakes: i, source and j are the indices of the canonical account, *)
(* the source and the validator.                                           *)
MergeStakes(s, i, source, j) ==
  /\ IsDone
  /\ InList(validator_list, j)
  /\ LET v == ValidatorAt(j).key
         canonical == CanonicalStake[v]
     IN /\ GetChecked(stake_list, i, canonical) /\ StakeAt(i).active
        /\ GetChecked(stake_list, source, s) /\ StakeAt(source).active
        /\ s # canonical
        /\ voter[s] = v /\ voter[canonical] = v
        /\ StakeAt(i).lamports + StakeAt(source).lamports \in Lamports[canonical]
        /\ AddBalance(j, 0)       \* two active accounts; see Crank for rents
        /\ stake_list' = Merged(i, source,
             StakeRecord(canonical, StakeAt(i).lamports + StakeAt(source).lamports, TRUE))
  /\ voter' = [voter EXCEPT ![s] = None]
  /\ UNCHANGED <<duplication_flag, delinquent_upgrader>>

(* create_canonical_stake: first the new record, then the removal.         *)
CreateCanonicalStake(s, i, j) ==
  /\ IsDone
  /\ InList(validator_list, j)
  /\ GetChecked(stake_list, i, s) /\ StakeAt(i).active
  /\ HasRoom(stake_list)
  /\ LET v == ValidatorAt(j).key
         canonical == CanonicalStake[v]
     IN /\ canonical \in Stake
        /\ voter[canonical] = None
        /\ voter[s] = v
        /\ stake_list' = Remove(
             Push(stake_list, StakeRecord(canonical, StakeAt(i).lamports, TRUE)), i)
        /\ voter' = [voter EXCEPT ![canonical] = v, ![s] = None]
  /\ UNCHANGED <<validator_list, duplication_flag, delinquent_upgrader>>

-----------------------------------------------------------------------------
(* management/add_validator and remove_validator: the flag account is made *)
(* with the record and goes with it.                                       *)
AddValidator(v) ==
  /\ IsDone
  /\ v \notin duplication_flag
  /\ HasRoom(validator_list)
  /\ validator_list' = Push(validator_list, ValidatorRecord(v))
  /\ duplication_flag' = duplication_flag \cup {v}
  /\ UNCHANGED <<stake_list, voter, delinquent_upgrader>>

Removable(j) == IsDone /\ ValidatorAt(j).active_balance = 0

RemoveValidator(v, j) ==
  /\ GetChecked(validator_list, j, v)
  /\ v \in duplication_flag
  /\ Removable(j)
  /\ validator_list' = Remove(validator_list, j)
  /\ duplication_flag' = duplication_flag \ {v}
  /\ UNCHANGED <<stake_list, voter, delinquent_upgrader>>

Fits(list, capacity) == capacity >= list.count

\* The account after a change of its length; new slots are blank.
Resized(list, capacity, blank) ==
  [list EXCEPT !.slot =
     [i \in 0..(capacity - 1) |-> IF i < Capacity(list) THEN list.slot[i] ELSE blank]]

ReallocStakeList(capacity) ==
  /\ Fits(stake_list, capacity)
  /\ stake_list' = Resized(stake_list, capacity, BlankStake)
  /\ UNCHANGED <<validator_list, voter, duplication_flag, delinquent_upgrader>>

ReallocValidatorList(capacity) ==
  /\ Fits(validator_list, capacity)
  /\ validator_list' = Resized(validator_list, capacity, BlankValidator)
  /\ UNCHANGED <<stake_list, voter, duplication_flag, delinquent_upgrader>>

(* finalize_delinquent_upgrade: the next max_validators indices.           *)
FinalizeDelinquentUpgrade(max_validators) ==
  LET first   == delinquent_upgrader.visited_count
      end     == IF first + max_validators <= validator_list.count
                 THEN first + max_validators ELSE validator_list.count
      batch   == first..(end - 1)
      excess  == [j \in batch |-> ValidatorAt(j).active_balance
                                    - ValidatorAt(j).delinquent_upgrader_active_balance]
      left    == delinquent_upgrader.delinquent_balance_left - Sum(excess)
  IN /\ ~IsDone
     /\ \A j \in batch : excess[j] >= 0
     /\ left >= 0
     /\ validator_list' = [validator_list EXCEPT !.slot =
          [j \in DOMAIN validator_list.slot |->
             IF j \in batch
             THEN [ValidatorAt(j) EXCEPT !.active_balance = @ - excess[j],
                                         !.delinquent_upgrader_active_balance = 0]
             ELSE ValidatorAt(j)]]
     /\ IF end = validator_list.count
        THEN left = 0 /\ delinquent_upgrader' = Done
        ELSE delinquent_upgrader' =
               [done |-> FALSE, visited_count |-> end, delinquent_balance_left |-> left]
     /\ UNCHANGED <<stake_list, voter, duplication_flag>>

-----------------------------------------------------------------------------
\* A list of the given records in an account of the given capacity.
ListOf(records, capacity, blank) ==
  [slot |-> [i \in 0..(capacity - 1) |->
               IF i < Len(records) THEN records[i + 1] ELSE blank],
   count |-> Len(records)]

(* Either initialize made the lists, or the program was upgraded and the   *)
(* first stage of the upgrade, which found one account, has come to an end *)
(* with an excess left for some validators.                                *)
InitEmpty ==
  /\ \E capacity \in StakeCapacity : stake_list = ListOf(<<>>, capacity, BlankStake)
  /\ \E capacity \in ValidatorCapacity : validator_list = ListOf(<<>>, capacity, BlankValidator)
  /\ voter = [s \in Stake |-> None]
  /\ duplication_flag = {}
  /\ delinquent_upgrader = Done

InitUpgrade ==
  \E s \in Keypair, v \in Validator, excess \in [Validator -> {0, 1}],
     order \in [1..Cardinality(Validator) -> Validator],
     capacity \in StakeCapacity \ {0}, validator_capacity \in ValidatorCapacity :
   \E lamports \in Lamports[s] :
    LET found == [w \in Validator |-> IF w = v THEN lamports ELSE 0]
    IN /\ \A w \in Validator : \E n \in DOMAIN order : order[n] = w
       /\ v \in MayDelegate[s]
       /\ Cardinality(Validator) <= validator_capacity
       /\ stake_list = ListOf(<<StakeRecord(s, lamports, TRUE)>>, capacity, BlankStake)
       /\ validator_list = ListOf(
            [n \in DOMAIN order |->
               [key |-> order[n], active_balance |-> found[order[n]] + excess[order[n]],
                delinquent_upgrader_active_balance |-> found[order[n]]]],
            validator_capacity, BlankValidator)
       /\ voter = [a \in Stake |-> IF a = s THEN v ELSE None]
       /\ duplication_flag = Validator
       /\ delinquent_upgrader =
            [done |-> FALSE, visited_count |-> 0, delinquent_balance_left |-> Sum(excess)]

Init == InitEmpty \/ InitUpgrade

Next ==
  \/ \E s \in Stake, v \in Validator, j \in Index :
       \E lamports \in Lamports[s] : DepositStakeAccount(s, v, lamports, j)
  \/ \E s \in Stake, i, j \in Index :
       \E lamports \in Lamports[s] : UpdateActive(s, lamports, i, j)
  \/ \E s \in Stake, i, j \in Index : DeactivateStake(s, i, j)
  \/ \E s, new \in Stake, i, j \in Index :
       \E lamports \in Lamports[new] : DeactivateSplit(s, new, lamports, i, j)
  \/ \E s \in Stake, i, j \in Index : UpdateDeactivated(s, i, j)
  \/ \E s \in Stake, i, source, j \in Index : MergeStakes(s, i, source, j)
  \/ \E s \in Stake, i, j \in Index : CreateCanonicalStake(s, i, j)
  \/ \E v \in Validator : AddValidator(v)
  \/ \E v \in Validator, j \in Index : RemoveValidator(v, j)
  \/ \E capacity \in StakeCapacity : ReallocStakeList(capacity)
  \/ \E capacity \in ValidatorCapacity : ReallocValidatorList(capacity)
  \/ \E max_validators \in Index : FinalizeDelinquentUpgrade(max_validators)

Spec == Init /\ [][Next]_vars

-----------------------------------------------------------------------------
(* Properties.                                                             *)

(* The records fit in the accounts, no account and no validator has two,   *)
(* and the program keeps a stake account or a flag exactly for those that  *)
(* have one; so an index and a key name at most one record.                *)
Keys(list) == {Get(list, i).key : i \in 0..(list.count - 1)}

KeysAreUnique ==
  /\ \A list \in {stake_list, validator_list} :
       /\ list.count <= Capacity(list)
       /\ Cardinality(Keys(list)) = list.count
  /\ Keys(stake_list) = {s \in Stake : voter[s] # None}
  /\ Keys(validator_list) = duplication_flag

(* When the upgrade is over, each validator has been visited exactly once, *)
(* however the calls that visit them were cut into batches and whatever    *)
(* came between: its balance is that of its active records.                *)
StakeOf(v) ==
  Sum([i \in 0..(stake_list.count - 1) |->
         IF StakeAt(i).active /\ voter[StakeAt(i).key] = v THEN StakeAt(i).lamports ELSE 0])

EveryValidatorVisitedOnce ==
  \A j \in 0..(validator_list.count - 1) :
    LET record == ValidatorAt(j)
    IN IF ~IsDone /\ j >= delinquent_upgrader.visited_count
       THEN record.delinquent_upgrader_active_balance = StakeOf(record.key)
       ELSE record.active_balance = StakeOf(record.key)

(* The lists are what the handlers of the other modules take them for:     *)
(* whatever indices callers give, and however old these are, a call that   *)
(* succeeds changes the records of the accounts it names and no others.    *)
RecordOf(list, key) == CHOOSE record \in {Get(list, i) : i \in 0..(list.count - 1)} : record.key = key

\* The two lists, and the upgrade, by key.
Held(list) ==
  [s \in Stake |->
     IF s \in Keys(list)
     THEN [lamports |-> RecordOf(list, s).lamports, active |-> RecordOf(list, s).active]
     ELSE [lamports |-> 0, active |-> FALSE]]

Balances(list) ==
  [v \in Validator |->
     IF v \in Keys(list)
     THEN [active_balance |-> RecordOf(list, v).active_balance,
           delinquent_upgrader_active_balance |->
             RecordOf(list, v).delinquent_upgrader_active_balance,
           listed |-> TRUE]
     ELSE [active_balance |-> 0, delinquent_upgrader_active_balance |-> 0,
           listed |-> FALSE]]

Progress ==
  [done    |-> IsDone,
   visited |-> {ValidatorAt(j).key : j \in 0..(delinquent_upgrader.visited_count - 1)},
   left    |-> delinquent_upgrader.delinquent_balance_left]

R == INSTANCE Records WITH
  stake     <- Held(stake_list),
  validator <- Balances(validator_list),
  upgrade   <- Progress

ImplementsRecords == R!Spec
=============================================================================
