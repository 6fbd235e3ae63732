------------------------------ MODULE Records -------------------------------
(***************************************************************************)
(* What the stake list and the validator list promise to the handlers:     *)
(* records that are found by their key, as MarinadeState has them.  A step *)
(* changes the records of the accounts it names and no others; nothing is  *)
(* said of where a record is kept.  Lists keeps them in two accounts.      *)
(***************************************************************************)
EXTENDS LamportSums, Integers

CONSTANTS Validator, Stake, CanonicalStake, Lamports, None

VARIABLES
  voter,       \* what each stake account of the program is delegated to
  stake,       \* [Stake -> records], Absent when there is none
  validator,   \* [Validator -> records], Absent when there is none
  upgrade      \* the second stage of the delinquent upgrade

vars == <<voter, stake, validator, upgrade>>

Absent == [lamports |-> 0, active |-> FALSE]

NoBalance == [active_balance |-> 0, delinquent_upgrader_active_balance |-> 0, listed |-> FALSE]

Done == [done |-> TRUE, visited |-> {}, left |-> 0]

Listed(v) == validator[v].listed

Active(s) == voter[s] # None /\ stake[s].active

\* Whether finalize_delinquent_upgrade has yet to visit v.
Unvisited(v) == ~upgrade.done /\ v \notin upgrade.visited

\* The balance of v changes by lamports.
Balanced(v, lamports) ==
  /\ Listed(v)
  /\ validator[v].active_balance + lamports >= 0
  /\ validator' = [validator EXCEPT ![v].active_balance = @ + lamports]

-----------------------------------------------------------------------------
Enter(s, v, lamports) ==
  /\ voter[s] = None
  /\ Listed(v)
  /\ voter' = [voter EXCEPT ![s] = v]
  /\ stake' = [stake EXCEPT ![s] = [lamports |-> lamports, active |-> TRUE]]
  /\ validator' = [validator EXCEPT
       ![v].active_balance = @ + lamports,
       ![v].delinquent_upgrader_active_balance = @ + IF Unvisited(v) THEN lamports ELSE 0]
  /\ UNCHANGED upgrade

Change(s, lamports) ==
  /\ Active(s)
  /\ upgrade.done
  /\ Balanced(voter[s], lamports - stake[s].lamports)
  /\ stake' = [stake EXCEPT ![s].lamports = lamports]
  /\ UNCHANGED <<voter, upgrade>>

Deactivate(s) ==
  /\ Active(s)
  /\ upgrade.done
  /\ Balanced(voter[s], -stake[s].lamports)
  /\ stake' = [stake EXCEPT ![s].active = FALSE]
  /\ UNCHANGED <<voter, upgrade>>

Split(s, new, lamports) ==
  /\ Active(s)
  /\ voter[new] = None
  /\ upgrade.done
  /\ lamports < stake[s].lamports
  /\ Balanced(voter[s], -lamports)
  /\ voter' = [voter EXCEPT ![new] = voter[s]]
  /\ stake' = [stake EXCEPT ![s].lamports = @ - lamports,
                            ![new] = [lamports |-> lamports, active |-> FALSE]]
  /\ UNCHANGED upgrade

Leave(s) ==
  /\ voter[s] # None
  /\ Listed(voter[s])
  /\ IF stake[s].active
     THEN upgrade.done /\ Balanced(voter[s], -stake[s].lamports)
     ELSE UNCHANGED validator
  /\ voter' = [voter EXCEPT ![s] = None]
  /\ stake' = [stake EXCEPT ![s] = Absent]
  /\ UNCHANGED upgrade

Merge(v, s) ==
  LET canonical == CanonicalStake[v]
  IN /\ upgrade.done
     /\ canonical \in Stake \ {s}
     /\ \A a \in {s, canonical} : Active(a) /\ voter[a] = v
     /\ voter' = [voter EXCEPT ![s] = None]
     /\ stake' = [stake EXCEPT ![canonical].lamports = @ + stake[s].lamports, ![s] = Absent]
     /\ UNCHANGED <<validator, upgrade>>

Rename(v, s) ==
  LET canonical == CanonicalStake[v]
  IN /\ upgrade.done
     /\ Active(s) /\ voter[s] = v
     /\ canonical \in Stake
     /\ voter[canonical] = None
     /\ voter' = [voter EXCEPT ![canonical] = v, ![s] = None]
     /\ stake' = [stake EXCEPT ![canonical] = stake[s], ![s] = Absent]
     /\ UNCHANGED <<validator, upgrade>>

AddValidator(v) ==
  /\ upgrade.done
  /\ ~Listed(v)
  /\ validator' = [validator EXCEPT ![v].listed = TRUE]
  /\ UNCHANGED <<voter, stake, upgrade>>

RemoveValidator(v) ==
  /\ upgrade.done
  /\ Listed(v)
  /\ validator[v].active_balance = 0
  /\ validator' = [validator EXCEPT ![v] = NoBalance]
  /\ UNCHANGED <<voter, stake, upgrade>>

\* Each validator is visited once; the excess taken away is what was expected.
Finalize(batch) ==
  LET excess == [v \in batch |-> validator[v].active_balance
                                   - validator[v].delinquent_upgrader_active_balance]
      visited == upgrade.visited \cup batch
      left    == upgrade.left - Sum(excess)
  IN /\ ~upgrade.done
     /\ \A v \in batch : Listed(v) /\ v \notin upgrade.visited
     /\ validator' = [v \in Validator |->
          IF v \in batch
          THEN [validator[v] EXCEPT !.active_balance = @ - excess[v],
                                    !.delinquent_upgrader_active_balance = 0]
          ELSE validator[v]]
     /\ IF \A v \in Validator : Listed(v) => v \in visited
        THEN left = 0 /\ upgrade' = Done
        ELSE upgrade' = [upgrade EXCEPT !.visited = visited, !.left = left]
     /\ UNCHANGED <<voter, stake>>

-----------------------------------------------------------------------------
\* The lists may be found with records in them, before the second stage of
\* the upgrade or after it.
Init ==
  /\ \A s \in Stake : voter[s] = None => stake[s] = Absent
  /\ \A v \in Validator : ~Listed(v) => validator[v] = NoBalance
  /\ upgrade.visited = {}

Next ==
  \/ \E s \in Stake, v \in Validator : \E lamports \in Lamports[s] : Enter(s, v, lamports)
  \/ \E s \in Stake : \E lamports \in Lamports[s] : Change(s, lamports)
  \/ \E s \in Stake : Deactivate(s)
  \/ \E s, new \in Stake : \E lamports \in Lamports[new] : Split(s, new, lamports)
  \/ \E s \in Stake : Leave(s)
  \/ \E v \in Validator, s \in Stake : Merge(v, s) \/ Rename(v, s)
  \/ \E v \in Validator : AddValidator(v) \/ RemoveValidator(v)
  \/ \E batch \in SUBSET Validator : Finalize(batch)

Spec == Init /\ [][Next]_vars
=============================================================================
