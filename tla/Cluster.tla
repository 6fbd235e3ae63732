------------------------------ MODULE Cluster -------------------------------
(***************************************************************************)
(* What happens around the program: the clock of the cluster, the stake    *)
(* program moving stake accounts through their epochs and paying rewards,  *)
(* and the things anybody may do to accounts the program relies on: send   *)
(* lamports to them, burn mSOL, deactivate the stake of a delinquent       *)
(* validator.  None of it is code of the repository; it is modelled from   *)
(* what the handlers check for (the comments in update.rs, stake_system.rs *)
(* and merge_stakes.rs name these cases one by one).                       *)
(***************************************************************************)
EXTENDS MarinadeState

CONSTANTS
  MaxEpoch,             \* bound: the last epoch of the clock
  SolSupply,            \* bound: the lamports there are to send to the program
  Rewards,              \* what a stake account can earn in an epoch
  SlowStake,            \* accounts that can take several epochs to cool down
  Tips,                 \* lamports a stake account can receive (MEV rewards)
  Donations,            \* lamports the reserve can receive from anybody
  Burns,                \* mSOL amounts a holder can burn directly
  DelinquentValidator,  \* validators that stop voting for good
  Slashes               \* lamports a stake account can lose

ASSUME ClusterAssumption ==
  /\ MaxEpoch \in Nat /\ SolSupply \in Nat
  /\ Rewards \subseteq Nat /\ Tips \subseteq Nat
  /\ Donations \subseteq Nat /\ Burns \subseteq Nat /\ Slashes \subseteq Nat

Affordable(lamports) == TotalLamportsUnderControl + lamports <= SolSupply

\* The time within the epoch passes.
Tick ==
  /\ phase # "window"
  /\ phase' = IF phase = "early" THEN "middle" ELSE "window"
  /\ UNCHANGED <<epoch, reserveVars, msolVars, stakeVars, validatorVars,
                 coolingVars, deltaVars, moveVars, ticketVars, adminVars,
                 staking_sol_cap, delinquent_upgrader, poolVars>>

\* The next state of a stake account at the epoch boundary.
NextActivation(s, slow) ==
  CASE account[s].activation = "activating"                    -> "active"
    [] account[s].activation = "deactivating" /\ s \notin slow -> "inactive"
    [] OTHER                                                   -> account[s].activation

\* An epoch ends.  Some of the accounts that were active during it (the
\* ones that cool down included) earn a reward, added to the delegation.
NewEpoch ==
  /\ phase = "window"
  /\ epoch < MaxEpoch
  /\ epoch' = epoch + 1
  /\ phase' = "early"
  /\ \E slow \in SUBSET SlowStake, reward \in Rewards \cup {0},
        lucky \in SUBSET {s \in Stake : account[s].activation \in {"active", "deactivating"}} :
       account' = [s \in Stake |->
         [account[s] EXCEPT !.activation = NextActivation(s, slow),
                            !.delegated = @ + IF s \in lucky THEN reward ELSE 0]]
  /\ UNCHANGED <<reserveVars, msolVars, stake, validatorVars, coolingVars,
                 deltaVars, moveVars, ticketVars, adminVars, staking_sol_cap,
                 delinquent_upgrader, poolVars>>

\* What the Deactivate instruction of the stake program makes of an account:
\* one that was delegated in this very epoch never became active.
DeactivatedFrom(activation) ==
  IF activation = "activating" THEN "inactive" ELSE "deactivating"

CanDeactivate(s) == account[s].activation \in {"activating", "active"}

ChangeAccount(s, a) ==
  /\ account' = [account EXCEPT ![s] = a]
  /\ UNCHANGED <<clockVars, reserveVars, msolVars, stake, validatorVars,
                 coolingVars, deltaVars, moveVars, ticketVars, adminVars,
                 staking_sol_cap, delinquent_upgrader, poolVars>>

\* Anybody may deactivate the stake of a validator that stopped voting.
DeactivateDelinquent(s) ==
  /\ account[s].voter \in DelinquentValidator
  /\ CanDeactivate(s)
  /\ ChangeAccount(s, [account[s] EXCEPT !.activation = DeactivatedFrom(@)])

\* Lamports arrive in a stake account without becoming part of the delegation.
Tip(s, lamports) ==
  /\ account[s].activation # "none"
  /\ account[s].extra = 0
  /\ Affordable(lamports)
  /\ ChangeAccount(s, [account[s] EXCEPT !.extra = lamports])

\* The stake program takes lamports away.
Slash(s, lamports) ==
  /\ account[s].activation \in {"active", "deactivating"}
  /\ lamports <= account[s].delegated
  /\ ChangeAccount(s, [account[s] EXCEPT !.delegated = @ - lamports])

\* Lamports arrive in the reserve behind the program's back.  Bounded to one
\* transfer between two instructions that notice.
Donate(lamports) ==
  /\ reserve_pda = available_reserve_balance + RentExempt
  /\ Affordable(lamports)
  /\ reserve_pda' = reserve_pda + lamports
  /\ UNCHANGED <<clockVars, available_reserve_balance, msolVars, stakeVars,
                 validatorVars, coolingVars, deltaVars, moveVars, ticketVars,
                 adminVars, staking_sol_cap, delinquent_upgrader, poolVars>>

\* A holder burns mSOL with the token program.
BurnMsol(msol) ==
  /\ msol <= UserMsol
  /\ msol_mint_supply' = msol_mint_supply - msol
  /\ UNCHANGED <<clockVars, reserveVars, msol_supply, stakeVars, validatorVars,
                 coolingVars, deltaVars, moveVars, ticketVars, adminVars,
                 staking_sol_cap, delinquent_upgrader, poolVars>>
=============================================================================
